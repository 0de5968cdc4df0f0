------------------------ MODULE LinkGenerationProofs ------------------------
(***************************************************************************)
(* Proofs about LinkGeneration, for every number of memories, every delay, *)
(* every interval and every width of the trial counter; what depends on    *)
(* timing needs a counter too wide to wrap while a self-message is pending *)
(* (CounterWide).                                                          *)
(***************************************************************************)
EXTENDS LinkGeneration, SequenceTheorems, TLAPS

\* The delays and the waits computed from them are ticks.
LEMMA Ticks == \A n \in Node : Delay[n] \in Nat /\ StartTiming(n) \in Nat
  BY DelayAssumption DEF DelayAssumption, StartTiming, MaxDelay, Node

\* The ends of a link are each other's peers and share no memory.
LEMMA Ends ==
  \A n \in Node : /\ Peer(n) \in Node /\ Peer(n) # n
                  /\ Node = {n, Peer(n)}
                  /\ Memory = MemoryOf(n) \cup MemoryOf(Peer(n))
                  /\ MemoryOf(n) \cap MemoryOf(Peer(n)) = {}
  <1>1. MemoryOf("left") \cap MemoryOf("right") = {}
    BY DEF MemoryOf
  <1>2. QED
    BY <1>1 DEF Node, Peer, Memory

-----------------------------------------------------------------------------
(* Type correctness.                                                       *)

\* The initial tables, flags and queues are typed.
LEMMA InitTypeOK == Init => TypeOK
  <1> SUFFICES ASSUME Init PROVE TypeOK
    OBVIOUS
  <1>1. MemoryTypeOK
    BY DEF Init, MemoryInit, MemoryTypeOK
  <1>2. EmissionTypeOK
    <2>1. 0 \in Trial
      BY EmissionAssumption DEF EmissionAssumption, Trial
    <2>2. QED
      BY <2>1 DEF Init, EmissionInit, EmissionTypeOK
  <1>3. AnalyzerTypeOK
    <2>1. /\ arrived \in [Node -> {"no", "now", "before"}]
          /\ origin \in [Node -> Memory \cup {NoQubit}]
          /\ lastDetected \in [Node -> BOOLEAN]
          /\ reports \in Seq(Report)
          /\ \A p \in Node : arrived[p] # "no" => origin[p] \in Memory
      BY DEF Init, AnalyzerInit
    <2>2. sendResult \in BOOLEAN /\ trialDone \in BOOLEAN
      BY DEF Init, AnalyzerInit
    <2>3. QED
      BY <2>1, <2>2 DEF AnalyzerTypeOK
  <1>4. HoMTypeOK /\ fiber \in [Node -> Seq(FlyingPhoton)]
    BY DEF Init, HoMInit, HoMTypeOK
  <1>5. QED
    BY <1>1, <1>2, <1>3, <1>4 DEF TypeOK

\* What the operations on the memories need to keep the memories typed.
LEMMA ExciteTypeOK ==
  ASSUME MemoryTypeOK, NEW m \in Memory, Excite(m) PROVE MemoryTypeOK'
  BY DEF MemoryTypeOK, Excite

\* Whatever the outcome at the analyzer, the memories stay typed.
LEMMA HeraldTypeOK ==
  ASSUME MemoryTypeOK, NEW a \in Memory, NEW b \in Memory,
         NEW outcome, Herald(outcome, a, b)
  PROVE  MemoryTypeOK'
  BY DEF MemoryTypeOK, Herald, Entangle, Mix, memoryVars

\* Measuring and freeing memories keeps them typed.
LEMMA ReleaseTypeOK ==
  ASSUME MemoryTypeOK, NEW freed \in SUBSET Memory,
         NEW measured \in SUBSET Memory, Release(freed, measured)
  PROVE  MemoryTypeOK'
  BY DEF MemoryTypeOK, Release, Collapse
-----------------------------------------------------------------------------
(* The operations of the rule engines keep their tables typed.             *)

\* What a request of n is: its trial, its times and its memory.
LEMMA RequestTypes ==
  ASSUME EmissionTypeOK, NEW n \in Node
  PROVE  /\ \A s \in schedules[n] : s \in ScheduleMsg
         /\ \A e \in emissions[n] : e \in EmitMsg
         /\ \A i \in 1 .. Len(tracker[n]) : tracker[n][i] \in Memory
         /\ resources[n] \subseteq Memory
         /\ trial[n] \in Trial
  BY DEF EmissionTypeOK

\* Handling a schedule message keeps the tables typed.
LEMMA ScheduleTypeOK ==
  ASSUME EmissionTypeOK, NEW n \in Node,
         DropSchedule(n) \/ EndBurst(n) \/ ShootPhoton(n) \/ DropEmission(n)
  PROVE  EmissionTypeOK'
  <1>1. CASE DropSchedule(n)
    BY <1>1 DEF EmissionTypeOK, DropSchedule
  <1>2. CASE EndBurst(n)
    BY <1>2 DEF EmissionTypeOK, EndBurst
  <1>3. CASE DropEmission(n)
    BY <1>3 DEF EmissionTypeOK, DropEmission
  <1>4. CASE ShootPhoton(n)
    <2>1. PICK s \in DueSchedules(n), m \in MemoryOf(n) :
            LET wait == IF s.first THEN s.timing ELSE Interval
            IN  /\ busy' = busy \cup {m}
                /\ emissions' = [emissions EXCEPT ![n] = @ \cup
                     {[in |-> wait, trial |-> s.trial, qubit |-> m,
                       first |-> s.first, last |-> Free(n, busy') = {}]}]
                /\ schedules' = [schedules EXCEPT ![n] = (@ \ {s}) \cup
                     {[s EXCEPT !.in = wait, !.first = FALSE]}]
      BY <1>4 DEF ShootPhoton
    <2> DEFINE wait == IF s.first THEN s.timing ELSE Interval
               e == [in |-> wait, trial |-> s.trial, qubit |-> m,
                     first |-> s.first, last |-> Free(n, busy') = {}]
               t == [s EXCEPT !.in = wait, !.first = FALSE]
    <2>2. s \in ScheduleMsg /\ m \in Memory
      BY RequestTypes, Ends DEF DueSchedules
    <2>3. wait \in Nat
      BY <2>2, EmissionAssumption DEF ScheduleMsg, EmissionAssumption
    <2>4. e \in EmitMsg
      BY <2>2, <2>3 DEF ScheduleMsg, EmitMsg
    <2>5. t \in ScheduleMsg
      BY <2>2, <2>3 DEF ScheduleMsg
    <2> HIDE DEF wait, e, t
    <2>6. /\ emissions' = [emissions EXCEPT ![n] = @ \cup {e}]
          /\ schedules' = [schedules EXCEPT ![n] = (@ \ {s}) \cup {t}]
      BY <2>1 DEF wait, e, t
    <2>7. emissions' \in [Node -> SUBSET EmitMsg]
      BY <2>4, <2>6 DEF EmissionTypeOK
    <2>8. schedules' \in [Node -> SUBSET ScheduleMsg]
      BY <2>5, <2>6 DEF EmissionTypeOK
    <2>9. busy' \in SUBSET Memory
      BY <2>1, <2>2 DEF EmissionTypeOK
    <2>10. QED
      BY <1>4, <2>7, <2>8, <2>9 DEF EmissionTypeOK, ShootPhoton
  <1>5. QED
    BY <1>1, <1>2, <1>3, <1>4

\* A shot is appended to the tracker, which stays typed.
LEMMA EmitTypeOK ==
  ASSUME EmissionTypeOK, NEW n \in Node, NEW e \in emissions[n], Emit(n, e)
  PROVE  EmissionTypeOK'
  <1>1. e.qubit \in Memory
    BY RequestTypes DEF EmitMsg
  <1>2. tracker' \in [Node -> Seq(Memory)]
    BY <1>1 DEF Emit, EmissionTypeOK
  <1>3. QED
    BY <1>2 DEF Emit, EmissionTypeOK

\* The first schedule message of a burst is typed.
LEMMA ScheduleFirstTypeOK ==
  ASSUME EmissionTypeOK, NEW n \in Node, NEW t \in Trial, NEW timing \in Nat,
         NEW taken, ScheduleFirst(n, t, timing, taken)
  PROVE  schedules' \in [Node -> SUBSET ScheduleMsg]
  <1>1. [in |-> 0, trial |-> t, timing |-> timing, first |-> TRUE]
          \in ScheduleMsg
    BY DEF ScheduleMsg
  <1>2. QED
    BY <1>1 DEF ScheduleFirst, EmissionTypeOK

\* The trial counter wraps within its width.
LEMMA NextTrialTyped == \A t \in Trial : NextTrial(t) \in Trial
  BY EmissionAssumption DEF EmissionAssumption, Trial, NextTrial

\* The timing notifier keeps the tables typed.
LEMMA StartTrialTypeOK ==
  ASSUME EmissionTypeOK, NEW n \in Node, NEW timing \in Nat,
         StartTrial(n, timing)
  PROVE  EmissionTypeOK'
  <1>1. schedules' \in [Node -> SUBSET ScheduleMsg]
    BY RequestTypes, ScheduleFirstTypeOK DEF StartTrial
  <1>2. QED
    BY <1>1 DEF StartTrial, EmissionTypeOK

\* What results tell about the shots of a trial is about memories.
LEMMA SettledTyped ==
  ASSUME EmissionTypeOK, NEW n \in Node, NEW failed \in Seq(BOOLEAN),
         Len(failed) <= Len(tracker[n])
  PROVE  /\ Failed(n, failed) \in SUBSET Memory
         /\ Heralded(n, failed) \in SUBSET Memory
         /\ Late(n, failed) \in SUBSET Memory
  BY RequestTypes DEF EmissionTypeOK, Failed, Heralded, Late

\* The results of a trial keep the tables typed.
LEMMA EndTrialTypeOK ==
  ASSUME EmissionTypeOK, NEW n \in Node, NEW timing \in Nat,
         NEW failed \in Seq(BOOLEAN), Len(failed) <= Len(tracker[n]),
         NEW consumed, EndTrial(n, timing, failed, consumed)
  PROVE  EmissionTypeOK'
  <1>1. NextTrial(trial[n]) \in Trial
    BY NextTrialTyped, RequestTypes
  <1>2. trial' \in [Node -> Trial] /\ trial'[n] \in Trial
    BY <1>1 DEF EndTrial, EmissionTypeOK
  <1>3. schedules' \in [Node -> SUBSET ScheduleMsg]
    BY <1>2, ScheduleFirstTypeOK DEF EndTrial, EmissionTypeOK
  <1>4. busy' \in SUBSET Memory
    BY DEF EndTrial, EmissionTypeOK
  <1>5. resources' \in [Node -> SUBSET Memory]
    BY SettledTyped DEF EndTrial, EmissionTypeOK
  <1>6. tracker' \in [Node -> Seq(Memory)]
    BY DEF EndTrial, EmissionTypeOK
  <1>7. QED
    BY <1>2, <1>3, <1>4, <1>5, <1>6 DEF EndTrial, EmissionTypeOK

\* Using a resource up keeps the tables typed.
LEMMA ConsumeTypeOK ==
  ASSUME EmissionTypeOK, NEW n \in Node, NEW m, Consume(n, m)
  PROVE  EmissionTypeOK'
  BY DEF EmissionTypeOK, Consume

\* Stopping emission keeps the tables typed.
LEMMA StopTypeOK ==
  ASSUME EmissionTypeOK, NEW n \in Node, StopEmitting(n)
  PROVE  EmissionTypeOK'
  BY DEF EmissionTypeOK, StopEmitting
-----------------------------------------------------------------------------
(* The analyzer and the controller keep their variables typed.             *)

AnalyzerActs(p, photon) ==
  \/ Dump(p, photon)
  \/ Await(p, photon)
  \/ Misfire(p, photon)
  \/ \E outcome \in Outcome : Coincide(p, photon, outcome)

\* Every branch of the analyzer's handler keeps its state typed.
LEMMA AnalyzerStepTypeOK ==
  ASSUME AnalyzerTypeOK, NEW p \in Node, NEW photon \in FlyingPhoton,
         AnalyzerActs(p, photon)
  PROVE  AnalyzerTypeOK'
  <1>1. photon.qubit \in Memory /\ photon.first \in BOOLEAN
          /\ photon.last \in BOOLEAN
    BY DEF FlyingPhoton
  <1>2. Closing(p, photon) \in BOOLEAN
    BY DEF Closing
  <1>3. LastSeen(p, photon) \in [Node -> BOOLEAN]
    BY <1>1 DEF LastSeen, Opens, AnalyzerTypeOK
  <1>4. /\ Seen(p, photon) \in [Node -> {"no", "now", "before"}]
        /\ \A q \in Node : Seen(p, photon)[q] # "no" =>
             [origin EXCEPT ![p] = photon.qubit][q] \in Memory
    BY <1>1 DEF Seen, AnalyzerTypeOK
  <1>5. lastDetected' \in [Node -> BOOLEAN] /\ sendResult' \in BOOLEAN
    BY <1>2, <1>3 DEF AnalyzerActs, Dump, Await, Misfire, Coincide, TakeIn
  <1>6. CASE Dump(p, photon) \/ Await(p, photon)
    <2>1. /\ arrived' = Seen(p, photon)
          /\ origin' = [origin EXCEPT ![p] = photon.qubit]
          /\ reports' = reports
      BY <1>6 DEF Dump, Await
    <2>2. trialDone' \in BOOLEAN
      BY <1>6 DEF Dump, Await, AnalyzerTypeOK
    <2>3. origin' \in [Node -> Memory \cup {NoQubit}]
      BY <1>1, <2>1 DEF AnalyzerTypeOK
    <2>4. QED
      BY <1>4, <1>5, <2>1, <2>2, <2>3 DEF AnalyzerTypeOK
  <1>7. ASSUME NEW failed \in BOOLEAN, Conclude(p, photon, failed)
        PROVE  AnalyzerTypeOK'
    <2>1. [failed |-> failed, finish |-> Closing(p, photon)] \in Report
      BY <1>2 DEF Report
    <2>2. reports' \in Seq(Report)
      BY <1>7, <2>1 DEF Conclude, AnalyzerTypeOK
    <2>3. trialDone' \in BOOLEAN
      BY <1>2, <1>7 DEF Conclude
    <2>4. /\ arrived' \in [Node -> {"no", "now", "before"}]
          /\ origin' \in [Node -> Memory \cup {NoQubit}]
          /\ \A q \in Node : arrived'[q] = "no"
      BY <1>7 DEF Conclude
    <2>5. QED
      BY <1>5, <2>2, <2>3, <2>4 DEF AnalyzerTypeOK
  <1>8. CASE Misfire(p, photon)
    BY <1>7, <1>8 DEF Misfire
  <1>9. ASSUME NEW outcome \in Outcome, Coincide(p, photon, outcome)
        PROVE  AnalyzerTypeOK'
    <2>1. (outcome = "failed") \in BOOLEAN
      OBVIOUS
    <2>2. QED
      BY <1>7, <1>9, <2>1 DEF Coincide
  <1>10. QED
    BY <1>6, <1>8, <1>9 DEF AnalyzerActs

\* Ageing arrival times keeps them typed.
LEMMA AgeTypeOK ==
  ASSUME AnalyzerTypeOK, AgeArrivals,
         UNCHANGED <<origin, lastDetected, sendResult, trialDone, reports>>
  PROVE  AnalyzerTypeOK'
  <1>1. /\ arrived' \in [Node -> {"no", "now", "before"}]
        /\ \A p \in Node : arrived'[p] # "no" => arrived[p] # "no"
    BY DEF AgeArrivals, AnalyzerTypeOK
  <1>2. QED
    BY <1>1 DEF AnalyzerTypeOK

\* The messages of the controller are typed.
LEMMA NotifyTypeOK ==
  ASSUME HoMTypeOK, NEW combined \in BOOLEAN, NEW failed \in Seq(BOOLEAN),
         Notify(combined, failed)
  PROVE  inbox' \in [Node -> Seq(Notice)]
  <1>1. \A n \in Node : [in |-> Delay[n], timing |-> StartTiming(n),
                         combined |-> combined, failed |-> failed] \in Notice
    BY Ticks DEF Notice
  <1>2. QED
    BY <1>1 DEF Notify, HoMTypeOK

\* Every handler of the controller keeps its state typed.
LEMMA ControllerTypeOK ==
  ASSUME HoMTypeOK,
         Boot \/ \E failed \in BOOLEAN : Accumulate(failed) \/ Finish(failed)
  PROVE  HoMTypeOK'
  <1>1. CASE Boot
    <2>1. FALSE \in BOOLEAN /\ <<>> \in Seq(BOOLEAN) /\ Notify(FALSE, <<>>)
      BY <1>1, EmptySeq, Zenon DEF Boot
    <2>2. inbox' \in [Node -> Seq(Notice)]
      BY <2>1, NotifyTypeOK, Zenon
    <2>3. QED
      BY <1>1, <2>2 DEF Boot, HoMTypeOK
  <1>2. ASSUME NEW failed \in BOOLEAN, Accumulate(failed)
        PROVE  HoMTypeOK'
    BY <1>2 DEF Accumulate, HoMTypeOK
  <1>3. ASSUME NEW failed \in BOOLEAN, Finish(failed)
        PROVE  HoMTypeOK'
    <2>1. Append(results, failed) \in Seq(BOOLEAN)
      BY DEF HoMTypeOK
    <2>2. inbox' \in [Node -> Seq(Notice)]
      BY <1>3, <2>1, NotifyTypeOK DEF Finish
    <2>3. QED
      BY <1>3, <2>2 DEF Finish, HoMTypeOK
  <1>4. QED
    BY <1>1, <1>2, <1>3

\* Taking a message out of an inbox keeps it typed.
LEMMA DeliverTypeOK ==
  ASSUME HoMTypeOK, NEW n \in Node, MessageDue(n), Deliver(n)
  PROVE  /\ Head(inbox[n]) \in Notice
         /\ HoMTypeOK'
  BY DEF HoMTypeOK, MessageDue, Deliver
-----------------------------------------------------------------------------
\* A photon leaves, arrives, or travels on.
LEMMA FiberTyped ==
  ASSUME TypeOK, NEW n \in Node
  PROVE  /\ fiber[n] \in Seq(FlyingPhoton)
         /\ fiber[n] # <<>> =>
              /\ Head(fiber[n]) \in FlyingPhoton
              /\ [fiber EXCEPT ![n] = Tail(@)] \in [Node -> Seq(FlyingPhoton)]
  BY DEF TypeOK

\* Time is kept in whole ticks: nothing is due in less than no time.
LEMMA SoonerTyped ==
  /\ \A s \in ScheduleMsg : s.in > 0 => Sooner(s) \in ScheduleMsg
  /\ \A e \in EmitMsg : e.in > 0 => Sooner(e) \in EmitMsg
  /\ \A f \in FlyingPhoton : f.in > 0 => Sooner(f) \in FlyingPhoton
  /\ \A i \in Notice : i.in > 0 => Sooner(i) \in Notice
  BY DEF Sooner, ScheduleMsg, EmitMsg, FlyingPhoton, Notice

\* EmitPhoton preserves the type invariant.
LEMMA EmitPhotonTypeOK ==
  ASSUME TypeOK, NEW n \in Node, EmitPhoton(n)
  PROVE  TypeOK'
  <1>1. PICK e \in emissions[n], jitter \in 0 .. Jitter :
          /\ Emit(n, e)
          /\ Excite(e.qubit)
          /\ fiber' = [fiber EXCEPT ![n] = Append(@,
               [in |-> Delay[n] + jitter, qubit |-> e.qubit,
                first |-> e.first, last |-> e.last])]
    BY DEF EmitPhoton
  <1>2. e \in EmitMsg
    BY RequestTypes DEF TypeOK
  <1>3. Delay[n] + jitter \in Nat
    BY Ticks
  <1>4. [in |-> Delay[n] + jitter, qubit |-> e.qubit,
         first |-> e.first, last |-> e.last] \in FlyingPhoton
    BY <1>2, <1>3 DEF EmitMsg, FlyingPhoton
  <1>5. fiber' \in [Node -> Seq(FlyingPhoton)]
    BY <1>1, <1>4 DEF TypeOK
  <1>6. MemoryTypeOK'
    BY <1>1, <1>2, ExciteTypeOK DEF TypeOK, EmitMsg
  <1>7. EmissionTypeOK'
    BY <1>1, EmitTypeOK DEF TypeOK
  <1>8. AnalyzerTypeOK' /\ HoMTypeOK'
    BY DEF EmitPhoton, TypeOK, analyzerVars, homVars, AnalyzerTypeOK, HoMTypeOK
  <1>9. QED
    BY <1>5, <1>6, <1>7, <1>8 DEF TypeOK

\* PhotonArrives preserves the type invariant.
LEMMA PhotonArrivesTypeOK ==
  ASSUME TypeOK, NEW p \in Node, PhotonArrives(p)
  PROVE  TypeOK'
  <1> DEFINE photon == Head(fiber[p])
  <1>1. photon \in FlyingPhoton /\ photon.qubit \in Memory
    BY FiberTyped DEF PhotonArrives, FlyingPhoton
  <1>2. AnalyzerActs(p, photon)
    BY DEF PhotonArrives, AnalyzerActs
  <1>3. AnalyzerTypeOK'
    BY <1>1, <1>2, AnalyzerStepTypeOK DEF TypeOK
  <1>4. MemoryTypeOK'
    <2>1. CASE UNCHANGED memoryVars
      BY <2>1 DEF memoryVars, TypeOK, MemoryTypeOK
    <2>2. ASSUME NEW outcome \in Outcome, Coincide(p, photon, outcome),
                 Herald(outcome, photon.qubit, origin[Peer(p)])
          PROVE  MemoryTypeOK'
      <3>1. Seen(p, photon)[Peer(p)] = "now" /\ Peer(p) # p /\ Peer(p) \in Node
        BY <2>2, Ends DEF Coincide
      <3>2. arrived[Peer(p)] # "no"
        BY <3>1 DEF Seen
      <3>3. origin[Peer(p)] \in Memory
        BY <3>1, <3>2 DEF TypeOK, AnalyzerTypeOK
      <3>4. QED
        BY <1>1, <2>2, <3>3, HeraldTypeOK DEF TypeOK
    <2>3. QED
      BY <2>1, <2>2 DEF PhotonArrives
  <1>5. fiber' \in [Node -> Seq(FlyingPhoton)]
    BY FiberTyped DEF PhotonArrives
  <1>6. EmissionTypeOK' /\ HoMTypeOK'
    BY DEF PhotonArrives, TypeOK, emissionVars, homVars, EmissionTypeOK, HoMTypeOK
  <1>7. QED
    BY <1>3, <1>4, <1>5, <1>6 DEF TypeOK

\* ReceiveResults preserves the type invariant.
LEMMA ReceiveResultsTypeOK ==
  ASSUME TypeOK, NEW n \in Node, ReceiveResults(n)
  PROVE  TypeOK'
  <1> DEFINE notice == Head(inbox[n])
             failed == notice.failed
  <1>1. notice \in Notice /\ HoMTypeOK'
    BY DeliverTypeOK DEF ReceiveResults, TypeOK
  <1>2. failed \in Seq(BOOLEAN) /\ notice.timing \in Nat
    BY <1>1 DEF Notice
  <1>3. Len(failed) <= Len(tracker[n])
    <2>1. Len(failed) \in Nat /\ Len(tracker[n]) \in Nat
      BY <1>2 DEF TypeOK, EmissionTypeOK
    <2>2. QED
      BY <2>1 DEF ReceiveResults, ResultsRefused
  <1>4. /\ Failed(n, failed) \cup Late(n, failed) \in SUBSET Memory
        /\ resources[n] \cup Heralded(n, failed) \in SUBSET Memory
    BY <1>2, <1>3, SettledTyped DEF TypeOK, EmissionTypeOK
  <1>5. PICK consumed \in SUBSET (resources[n] \cup Heralded(n, failed)) :
          /\ EndTrial(n, notice.timing, failed, consumed)
          /\ Release(Failed(n, failed) \cup Late(n, failed), consumed)
    BY DEF ReceiveResults
  <1>6. EmissionTypeOK'
    BY <1>2, <1>3, <1>5, EndTrialTypeOK DEF TypeOK
  <1>7. MemoryTypeOK'
    BY <1>4, <1>5, ReleaseTypeOK DEF TypeOK
  <1>8. AnalyzerTypeOK' /\ fiber' \in [Node -> Seq(FlyingPhoton)]
    BY DEF ReceiveResults, TypeOK, analyzerVars, AnalyzerTypeOK
  <1>9. QED
    BY <1>1, <1>6, <1>7, <1>8 DEF TypeOK

\* Tick preserves the type invariant.
LEMMA TickTypeOK ==
  ASSUME TypeOK, Tick PROVE TypeOK'
  <1> Quiet
    BY DEF Tick
  <1>1. \A n \in Node :
          /\ \A s \in schedules[n] : s \in ScheduleMsg /\ s.in > 0
          /\ \A e \in emissions[n] : e \in EmitMsg /\ e.in > 0
          /\ \A i \in 1 .. Len(fiber[n]) :
               fiber[n][i] \in FlyingPhoton /\ fiber[n][i].in > 0
          /\ \A i \in 1 .. Len(inbox[n]) :
               inbox[n][i] \in Notice /\ inbox[n][i].in > 0
    <2>1. \A n \in Node : /\ fiber[n] \in Seq(FlyingPhoton)
                          /\ inbox[n] \in Seq(Notice)
                          /\ schedules[n] \in SUBSET ScheduleMsg
                          /\ emissions[n] \in SUBSET EmitMsg
      BY DEF TypeOK, EmissionTypeOK, HoMTypeOK
    <2>2. \A n \in Node : \A i \in 1 .. Len(fiber[n]) :
            fiber[n][i] \in FlyingPhoton
      BY <2>1, ElementOfSeq
    <2>3. \A n \in Node : \A i \in 1 .. Len(inbox[n]) : inbox[n][i] \in Notice
      BY <2>1, ElementOfSeq
    <2>4. QED
      BY <2>1, <2>2, <2>3, Zenon DEF Quiet
  <1>2. schedules' \in [Node -> SUBSET ScheduleMsg]
    BY <1>1, SoonerTyped DEF Tick
  <1>3. emissions' \in [Node -> SUBSET EmitMsg]
    BY <1>1, SoonerTyped DEF Tick
  <1>4. \A n \in Node : Len(fiber[n]) \in Nat /\ Len(inbox[n]) \in Nat
    BY DEF TypeOK, HoMTypeOK
  <1>5. \A n \in Node :
          /\ [i \in 1 .. Len(fiber[n]) |-> Sooner(fiber[n][i])]
               \in Seq(FlyingPhoton)
          /\ [i \in 1 .. Len(inbox[n]) |-> Sooner(inbox[n][i])]
               \in Seq(Notice)
    <2> TAKE n \in Node
    <2> DEFINE f == [i \in 1 .. Len(fiber[n]) |-> Sooner(fiber[n][i])]
               g == [i \in 1 .. Len(inbox[n]) |-> Sooner(inbox[n][i])]
    <2>1. f \in [1 .. Len(fiber[n]) -> FlyingPhoton]
      BY <1>1, SoonerTyped
    <2>2. g \in [1 .. Len(inbox[n]) -> Notice]
      BY <1>1, SoonerTyped
    <2> HIDE DEF f, g
    <2>3. f \in Seq(FlyingPhoton) /\ g \in Seq(Notice)
      BY <1>4, <2>1, <2>2, SeqDef, ZenonT(40)
    <2>4. QED
      BY <2>3 DEF f, g
  <1>6. /\ fiber' \in [Node -> Seq(FlyingPhoton)]
        /\ inbox' \in [Node -> Seq(Notice)]
    BY <1>5 DEF Tick
  <1>7. MemoryTypeOK'
    BY DEF Tick, TypeOK, memoryVars, MemoryTypeOK
  <1>8. EmissionTypeOK'
    BY <1>2, <1>3 DEF Tick, TypeOK, EmissionTypeOK
  <1>9. AnalyzerTypeOK'
    BY AgeTypeOK DEF Tick, TypeOK
  <1>10. HoMTypeOK'
    BY <1>6 DEF Tick, TypeOK, HoMTypeOK
  <1>11. QED
    BY <1>6, <1>7, <1>8, <1>9, <1>10 DEF TypeOK

\* The type invariant is inductive.
LEMMA NextTypeOK ==
  ASSUME TypeOK, [Next]_vars PROVE TypeOK'
  <1>1. CASE ControllerBoots
    <2>1. HoMTypeOK'
      BY <1>1, ControllerTypeOK DEF ControllerBoots, TypeOK
    <2>2. QED
      BY <1>1, <2>1 DEF ControllerBoots, TypeOK, memoryVars, emissionVars,
         analyzerVars, MemoryTypeOK, EmissionTypeOK, AnalyzerTypeOK
  <1>2. CASE ControllerReceives
    <2>1. Head(reports) \in Report /\ Tail(reports) \in Seq(Report)
      BY <1>2 DEF ControllerReceives, TypeOK, AnalyzerTypeOK
    <2>2. Head(reports).failed \in BOOLEAN
      BY <2>1 DEF Report
    <2>3. HoMTypeOK'
      BY <1>2, <2>2, ControllerTypeOK DEF ControllerReceives, TypeOK
    <2>4. AnalyzerTypeOK'
      BY <1>2, <2>1 DEF ControllerReceives, TypeOK, AnalyzerTypeOK
    <2>5. QED
      BY <1>2, <2>3, <2>4 DEF ControllerReceives, TypeOK, memoryVars,
         emissionVars, MemoryTypeOK, EmissionTypeOK
  <1>3. CASE Tick
    BY <1>3, TickTypeOK
  <1>4. ASSUME NEW n \in Node, Schedule(n) PROVE TypeOK'
    <2>1. EmissionTypeOK'
      BY <1>4, ScheduleTypeOK DEF Schedule, TypeOK
    <2>2. QED
      BY <1>4, <2>1 DEF Schedule, TypeOK, memoryVars, analyzerVars, homVars,
         MemoryTypeOK, AnalyzerTypeOK, HoMTypeOK
  <1>5. ASSUME NEW n \in Node, ReceiveTiming(n) PROVE TypeOK'
    <2>1. Head(inbox[n]) \in Notice /\ HoMTypeOK'
      BY <1>5, DeliverTypeOK DEF ReceiveTiming, TypeOK
    <2>2. EmissionTypeOK'
      BY <1>5, <2>1, StartTrialTypeOK DEF ReceiveTiming, TypeOK, Notice
    <2>3. QED
      BY <1>5, <2>1, <2>2 DEF ReceiveTiming, TypeOK, memoryVars, analyzerVars,
         MemoryTypeOK, AnalyzerTypeOK
  <1>6. ASSUME NEW n \in Node, ConsumeResource(n) PROVE TypeOK'
    <2>1. PICK m \in resources[n] : Consume(n, m) /\ Release({}, {m})
      BY <1>6 DEF ConsumeResource
    <2>2. EmissionTypeOK'
      BY <2>1, ConsumeTypeOK DEF TypeOK
    <2>3. m \in Memory
      BY RequestTypes DEF TypeOK
    <2>4. MemoryTypeOK'
      BY <2>1, <2>3, ReleaseTypeOK DEF TypeOK
    <2>5. QED
      BY <1>6, <2>2, <2>4 DEF ConsumeResource, TypeOK, analyzerVars, homVars,
         AnalyzerTypeOK, HoMTypeOK
  <1>7. ASSUME NEW n \in Node, Stop(n) PROVE TypeOK'
    <2>1. EmissionTypeOK'
      BY <1>7, StopTypeOK DEF Stop, TypeOK
    <2>2. QED
      BY <1>7, <2>1 DEF Stop, TypeOK, memoryVars, analyzerVars, homVars,
         MemoryTypeOK, AnalyzerTypeOK, HoMTypeOK
  <1>8. CASE UNCHANGED vars
    BY <1>8 DEF vars, memoryVars, emissionVars, analyzerVars, homVars, TypeOK,
       MemoryTypeOK, EmissionTypeOK, AnalyzerTypeOK, HoMTypeOK
  <1>9. QED
    BY <1>1, <1>2, <1>3, <1>4, <1>5, <1>6, <1>7, <1>8, EmitPhotonTypeOK,
       PhotonArrivesTypeOK, ReceiveResultsTypeOK DEF Next, Event

\* Type correctness: every variable keeps its type, whatever the delays, the
\* buffers and the width of the trial counter; in particular a photon behind
\* an arrival is always known to the analyzer.
THEOREM TypeCorrect == Spec => []TypeOK
  <1>1. QED
    BY InitTypeOK, NextTypeOK, PTL DEF Spec
-----------------------------------------------------------------------------
(* Every memory in use is accounted for, once.                             *)

\* Nothing is in use initially.
LEMMA InitAccounting == Init => QubitAccounting
  <1> SUFFICES ASSUME Init, NEW n \in Node
               PROVE  TableSound(n) /\ isBusy \cap MemoryOf(n) =
                                         Shots(n) \cup resources[n]
    BY DEF QubitAccounting
  <1>1. tracker[n] = <<>> /\ resources[n] = {} /\ emissions[n] = {}
    BY DEF Init, EmissionInit
  <1>2. Shots(n) = {} /\ Reserved(n) = {}
    BY <1>1 DEF Shots, Reserved
  <1>3. isBusy = {}
    BY DEF Init, MemoryInit
  <1>4. QED
    BY <1>1, <1>2, <1>3 DEF TableSound

\* An action that leaves the tables of an end alone keeps them sound.
Untouched(n) ==
  /\ tracker'[n] = tracker[n]
  /\ resources'[n] = resources[n]
  /\ emissions'[n] = emissions[n]
  /\ busy' \cap MemoryOf(n) = busy \cap MemoryOf(n)
  /\ isBusy' \cap MemoryOf(n) = isBusy \cap MemoryOf(n)

Accounted(n) ==
  TableSound(n) /\ isBusy \cap MemoryOf(n) = Shots(n) \cup resources[n]

\* A step that leaves the tables of an end alone keeps them accounted.
LEMMA UntouchedAccounted ==
  ASSUME NEW n \in Node, Accounted(n), Untouched(n)
  PROVE  Accounted(n)'
  <1>1. Shots(n)' = Shots(n) /\ Reserved(n)' = Reserved(n)
    BY DEF Untouched, Shots, Reserved
  <1>2. QED
    BY <1>1 DEF Untouched, Accounted, TableSound

\* ShootPhoton reserves a memory that was free.
LEMMA ShootAccounted ==
  ASSUME TypeOK, NEW n \in Node, Accounted(n), ShootPhoton(n),
         isBusy' = isBusy
  PROVE  Accounted(n)'
  <1>1. PICK m, e : /\ m \in MemoryOf(n) /\ m \notin busy
                    /\ busy' = busy \cup {m}
                    /\ e.qubit = m
                    /\ emissions' = [emissions EXCEPT ![n] = @ \cup {e}]
    <2>1. PICK s \in DueSchedules(n), m \in MemoryOf(n) :
            LET wait == IF s.first THEN s.timing ELSE Interval
            IN  /\ LowestFree(n, m)
                /\ busy' = busy \cup {m}
                /\ emissions' = [emissions EXCEPT ![n] = @ \cup
                     {[in |-> wait, trial |-> s.trial, qubit |-> m,
                       first |-> s.first, last |-> Free(n, busy') = {}]}]
      BY DEF ShootPhoton
    <2> DEFINE e == [in |-> IF s.first THEN s.timing ELSE Interval,
                     trial |-> s.trial, qubit |-> m, first |-> s.first,
                     last |-> Free(n, busy') = {}]
    <2>2. e.qubit = m
      OBVIOUS
    <2>3. emissions' = [emissions EXCEPT ![n] = @ \cup {e}]
      BY <2>1
    <2>4. m \notin busy
      BY <2>1 DEF LowestFree, Free
    <2> HIDE DEF e
    <2>5. QED
      BY <2>1, <2>2, <2>3, <2>4
  <1>2. emissions'[n] = emissions[n] \cup {e}
    BY <1>1 DEF TypeOK, EmissionTypeOK
  <1>3. tracker' = tracker /\ resources' = resources
    BY DEF ShootPhoton
  <1>4. Shots(n)' = Shots(n)
    BY <1>3 DEF Shots
  <1>5. Reserved(n)' = Reserved(n) \cup {m}
    BY <1>1, <1>2 DEF Reserved
  <1>6. m \notin Shots(n) \cup resources[n] \cup Reserved(n)
    BY <1>1 DEF Accounted, TableSound
  <1>7. \A f, g \in emissions'[n] : f.qubit = g.qubit => f = g
    BY <1>1, <1>2, <1>6 DEF Accounted, TableSound, Reserved
  <1>8. TableSound(n)'
    BY <1>1, <1>3, <1>4, <1>5, <1>6, <1>7 DEF Accounted, TableSound
  <1>9. QED
    BY <1>3, <1>4, <1>8 DEF Accounted

\* EmitPhoton turns a reservation into the next shot.
LEMMA EmitAccounted ==
  ASSUME TypeOK, NEW n \in Node, NEW e \in emissions[n], Accounted(n),
         Emit(n, e), Excite(e.qubit)
  PROVE  Accounted(n)'
  <1> DEFINE m == e.qubit
             k == Len(tracker[n])
  <1>1. /\ tracker[n] \in Seq(Memory) /\ k \in Nat
        /\ tracker' = [tracker EXCEPT ![n] = Append(@, m)]
        /\ emissions' = [emissions EXCEPT ![n] = @ \ {e}]
    BY DEF Emit, TypeOK, EmissionTypeOK
  <1>2. /\ tracker'[n] = Append(tracker[n], m)
        /\ emissions'[n] = emissions[n] \ {e}
        /\ resources' = resources /\ busy' = busy /\ isBusy' = isBusy \cup {m}
    BY <1>1 DEF Emit, Excite, TypeOK, EmissionTypeOK
  <1>3. /\ Len(tracker'[n]) = k + 1
        /\ tracker'[n][k + 1] = m
        /\ \A i \in 1 .. k : tracker'[n][i] = tracker[n][i]
    BY <1>1, <1>2
  <1>4. Shots(n)' = Shots(n) \cup {m}
    <2>1. \A i \in 1 .. k + 1 : i \in 1 .. k \/ i = k + 1
      BY <1>1
    <2>2. QED
      BY <1>1, <1>3, <2>1 DEF Shots
  <1>5. m \in Reserved(n)
    BY DEF Reserved
  <1>6. Reserved(n)' = Reserved(n) \ {m}
    BY <1>2 DEF Reserved, Accounted, TableSound
  <1>7. m \notin Shots(n) /\ m \notin resources[n] /\ m \in busy \cap MemoryOf(n)
    BY <1>5 DEF Accounted, TableSound
  <1>8. \A i, j \in 1 .. k + 1 : tracker'[n][i] = tracker'[n][j] => i = j
    <2>1. \A i \in 1 .. k : tracker[n][i] # m
      BY <1>7 DEF Shots
    <2>2. \A i \in 1 .. k + 1 : i \in 1 .. k \/ i = k + 1
      BY <1>1
    <2>3. QED
      BY <1>3, <2>1, <2>2 DEF Accounted, TableSound
  <1>9. \A f, g \in emissions'[n] : f.qubit = g.qubit => f = g
    BY <1>2 DEF Accounted, TableSound
  <1> HIDE DEF m, k
  <1>10. TableSound(n)'
    BY <1>2, <1>3, <1>4, <1>6, <1>7, <1>8, <1>9 DEF Accounted, TableSound
  <1>11. isBusy' \cap MemoryOf(n) = Shots(n)' \cup resources'[n]
    BY <1>2, <1>4, <1>7 DEF Accounted
  <1>12. QED
    BY <1>10, <1>11 DEF Accounted
\* The results of a trial split its shots: each has failed, is heralded or
\* is late.
LEMMA ShotsSplit ==
  ASSUME TypeOK, NEW n \in Node, TableSound(n), NEW failed \in Seq(BOOLEAN),
         Len(failed) <= Len(tracker[n])
  PROVE  /\ Shots(n) = Failed(n, failed) \cup Heralded(n, failed)
                         \cup Late(n, failed)
         /\ Heralded(n, failed) \cap (Failed(n, failed) \cup Late(n, failed)) = {}
  <1> DEFINE k == Len(failed)
             l == Len(tracker[n])
  <1>1. k \in Nat /\ l \in Nat /\ k <= l
    BY DEF TypeOK, EmissionTypeOK
  <1> HIDE DEF k, l
  <1>2. /\ \A i \in 1 .. l : i \in 1 .. k \/ i \in (k + 1) .. l
        /\ \A i \in 1 .. k : i \in 1 .. l /\ i \notin (k + 1) .. l
        /\ \A i \in (k + 1) .. l : i \in 1 .. l
    BY <1>1
  <1>3. /\ Shots(n) = {tracker[n][i] : i \in 1 .. l}
        /\ Failed(n, failed) = {tracker[n][i] : i \in {j \in 1 .. k : failed[j]}}
        /\ Heralded(n, failed) =
             {tracker[n][i] : i \in {j \in 1 .. k : ~ failed[j]}}
        /\ Late(n, failed) = {tracker[n][i] : i \in (k + 1) .. l}
    BY DEF Shots, Failed, Heralded, Late, k, l
  <1>4. \A i, j \in 1 .. l : tracker[n][i] = tracker[n][j] => i = j
    BY DEF TableSound, l
  <1>5. Shots(n) = Failed(n, failed) \cup Heralded(n, failed)
                     \cup Late(n, failed)
    BY <1>2, <1>3
  <1>6. \A m \in Heralded(n, failed) :
          m \notin Failed(n, failed) /\ m \notin Late(n, failed)
    BY <1>2, <1>3, <1>4
  <1>7. QED
    BY <1>5, <1>6

\* EndTrial frees what failed or came late, keeps the rest as resources and
\* forgets the shots.
LEMMA EndTrialAccounted ==
  ASSUME TypeOK, NEW n \in Node, Accounted(n), NEW timing,
         NEW failed \in Seq(BOOLEAN), Len(failed) <= Len(tracker[n]),
         NEW consumed \in SUBSET (resources[n] \cup Heralded(n, failed)),
         EndTrial(n, timing, failed, consumed),
         Release(Failed(n, failed) \cup Late(n, failed), consumed)
  PROVE  Accounted(n)'
  <1> DEFINE gone == Failed(n, failed) \cup Late(n, failed) \cup consumed
             kept == Heralded(n, failed)
  <1>1. /\ Shots(n) = Failed(n, failed) \cup kept \cup Late(n, failed)
        /\ kept \cap (Failed(n, failed) \cup Late(n, failed)) = {}
    BY ShotsSplit DEF Accounted
  <1>2. /\ busy' = busy \ gone
        /\ isBusy' = isBusy \ gone
        /\ emissions' = emissions
    BY DEF EndTrial, Release
  <1>3. /\ resources'[n] = (resources[n] \cup kept) \ consumed
        /\ tracker'[n] = <<>>
    BY DEF EndTrial, TypeOK, EmissionTypeOK
  <1>4. Shots(n)' = {} /\ Reserved(n)' = Reserved(n) /\ Len(tracker'[n]) = 0
    BY <1>2, <1>3 DEF Shots, Reserved
  <1> HIDE DEF gone, kept
  <1>5. gone \subseteq Shots(n) \cup resources[n]
    BY <1>1 DEF gone, kept
  <1>6. TableSound(n)'
    <2>1. resources'[n] \cup Reserved(n)' \subseteq busy' \cap MemoryOf(n)
      BY <1>1, <1>2, <1>3, <1>4, <1>5 DEF Accounted, TableSound, gone
    <2>2. Reserved(n)' \cap resources'[n] = {}
      BY <1>1, <1>3, <1>4 DEF Accounted, TableSound
    <2>3. \A i, j \in 1 .. Len(tracker'[n]) :
            tracker'[n][i] = tracker'[n][j] => i = j
      BY <1>4
    <2>4. QED
      BY <1>2, <1>4, <2>1, <2>2, <2>3 DEF Accounted, TableSound
  <1>7. isBusy' \cap MemoryOf(n) = resources'[n]
    BY <1>1, <1>2, <1>3 DEF Accounted, TableSound, gone
  <1>8. QED
    BY <1>4, <1>6, <1>7 DEF Accounted

\* A rule that uses a resource up frees it in every table.
LEMMA ConsumeAccounted ==
  ASSUME TypeOK, NEW n \in Node, Accounted(n), NEW m \in resources[n],
         Consume(n, m), Release({}, {m})
  PROVE  Accounted(n)'
  <1>1. /\ busy' = busy \ {m} /\ isBusy' = isBusy \ {m}
        /\ resources'[n] = resources[n] \ {m}
        /\ tracker' = tracker /\ emissions' = emissions
    BY DEF Consume, Release, TypeOK, EmissionTypeOK
  <1>2. Shots(n)' = Shots(n) /\ Reserved(n)' = Reserved(n)
    BY <1>1 DEF Shots, Reserved
  <1>3. QED
    BY <1>1, <1>2 DEF Accounted, TableSound

\* Tick renames pending requests and nothing else.
LEMMA TickAccounted ==
  ASSUME TypeOK, NEW n \in Node, Accounted(n), Tick
  PROVE  Accounted(n)'
  <1>1. /\ tracker' = tracker /\ resources' = resources /\ busy' = busy
        /\ isBusy' = isBusy /\ emissions'[n] = {Sooner(e) : e \in emissions[n]}
    BY DEF Tick, memoryVars
  <1>2. \A e \in emissions[n] : Sooner(e).qubit = e.qubit
    BY RequestTypes DEF TypeOK, EmitMsg, Sooner
  <1>3. Shots(n)' = Shots(n) /\ Reserved(n)' = Reserved(n)
    BY <1>1, <1>2 DEF Shots, Reserved
  <1>4. \A e, f \in emissions'[n] : e.qubit = f.qubit => e = f
    BY <1>1, <1>2 DEF Accounted, TableSound
  <1>5. QED
    BY <1>1, <1>3, <1>4 DEF Accounted, TableSound

\* The accounting is inductive, given the types.
LEMMA NextAccounting ==
  ASSUME TypeOK, QubitAccounting, [Next]_vars
  PROVE  QubitAccounting'
  <1> SUFFICES \A n \in Node : Accounted(n)'
    BY DEF QubitAccounting, Accounted
  <1>0. \A n \in Node : Accounted(n)
    BY DEF QubitAccounting, Accounted
  <1>1. ASSUME \A n \in Node : Untouched(n)
        PROVE  \A n \in Node : Accounted(n)'
    BY <1>0, <1>1, UntouchedAccounted
  <1>2. ASSUME NEW n \in Node, Accounted(n)', Untouched(Peer(n))
        PROVE  \A o \in Node : Accounted(o)'
    <2>1. Accounted(Peer(n))'
      BY <1>0, <1>2, UntouchedAccounted, Ends
    <2>2. QED
      BY <1>2, <2>1, Ends
  <1>3. CASE UNCHANGED <<busy, isBusy, tracker, resources, emissions>>
    BY <1>1, <1>3 DEF Untouched
  <1>4. CASE Tick
    BY <1>0, <1>4, TickAccounted
  <1>5. ASSUME NEW n \in Node, Schedule(n)
        PROVE  \A o \in Node : Accounted(o)'
    <2> isBusy' = isBusy
      BY <1>5 DEF Schedule, memoryVars
    <2>1. CASE DropSchedule(n) \/ EndBurst(n)
      BY <1>3, <2>1 DEF DropSchedule, EndBurst
    <2>2. CASE DropEmission(n)
      <3>1. /\ tracker' = tracker /\ resources' = resources /\ busy' = busy
            /\ \A o \in Node : emissions'[o] \subseteq emissions[o]
        BY <2>2 DEF DropEmission, TypeOK, EmissionTypeOK
      <3>2. \A o \in Node : Shots(o)' = Shots(o)
                              /\ Reserved(o)' \subseteq Reserved(o)
        BY <3>1 DEF Shots, Reserved
      <3>3. \A o \in Node : Accounted(o)'
        BY <1>0, <3>1, <3>2 DEF Accounted, TableSound
      <3>4. QED
        BY <3>3
    <2>3. CASE ShootPhoton(n)
      <3>1. Accounted(n)'
        BY <1>0, <2>3, ShootAccounted
      <3>2. PICK m \in MemoryOf(n) : busy' = busy \cup {m}
        BY <2>3 DEF ShootPhoton
      <3>3. /\ tracker' = tracker /\ resources' = resources
            /\ emissions'[Peer(n)] = emissions[Peer(n)]
        BY <2>3, Ends DEF ShootPhoton, TypeOK, EmissionTypeOK
      <3>4. Untouched(Peer(n))
        BY <3>2, <3>3, Ends DEF Untouched
      <3>5. QED
        BY <1>2, <3>1, <3>4
    <2>4. QED
      BY <1>5, <2>1, <2>2, <2>3 DEF Schedule
  <1>6. ASSUME NEW n \in Node, EmitPhoton(n)
        PROVE  \A o \in Node : Accounted(o)'
    <2>1. PICK e \in emissions[n] : Emit(n, e) /\ Excite(e.qubit)
      BY <1>6 DEF EmitPhoton
    <2>2. Accounted(n)'
      BY <1>0, <2>1, EmitAccounted
    <2>3. e.qubit \in MemoryOf(n)
      BY <1>0 DEF Accounted, TableSound, Reserved
    <2>4. /\ tracker'[Peer(n)] = tracker[Peer(n)]
          /\ emissions'[Peer(n)] = emissions[Peer(n)]
          /\ resources' = resources /\ busy' = busy
          /\ isBusy' = isBusy \cup {e.qubit}
      BY <2>1, Ends DEF Emit, Excite, TypeOK, EmissionTypeOK
    <2>5. Untouched(Peer(n))
      BY <2>3, <2>4, Ends DEF Untouched
    <2>6. QED
      BY <1>2, <2>2, <2>5
  <1>7. ASSUME NEW n \in Node, ReceiveResults(n)
        PROVE  \A o \in Node : Accounted(o)'
    <2> DEFINE notice == Head(inbox[n])
               failed == notice.failed
    <2>1. failed \in Seq(BOOLEAN)
      BY <1>7, DeliverTypeOK DEF ReceiveResults, TypeOK, Notice
    <2>2. Len(failed) <= Len(tracker[n])
      <3>1. Len(failed) \in Nat /\ Len(tracker[n]) \in Nat
        BY <2>1 DEF TypeOK, EmissionTypeOK
      <3>2. QED
        BY <1>7, <3>1 DEF ReceiveResults, ResultsRefused
    <2>3. PICK consumed \in SUBSET (resources[n] \cup Heralded(n, failed)) :
            /\ EndTrial(n, notice.timing, failed, consumed)
            /\ Release(Failed(n, failed) \cup Late(n, failed), consumed)
      BY <1>7 DEF ReceiveResults
    <2>4. Accounted(n)'
      BY <1>0, <2>1, <2>2, <2>3, EndTrialAccounted
    <2> DEFINE gone == Failed(n, failed) \cup Late(n, failed) \cup consumed
    <2>5. gone \subseteq MemoryOf(n)
      BY <1>0, <2>1, <2>2, ShotsSplit DEF Accounted, TableSound
    <2>6. /\ tracker'[Peer(n)] = tracker[Peer(n)]
          /\ resources'[Peer(n)] = resources[Peer(n)]
          /\ emissions' = emissions
          /\ busy' = busy \ gone /\ isBusy' = isBusy \ gone
      BY <2>3, Ends DEF EndTrial, Release, TypeOK, EmissionTypeOK
    <2>7. Untouched(Peer(n))
      BY <2>5, <2>6, Ends DEF Untouched
    <2>8. QED
      BY <1>2, <2>4, <2>7
  <1>8. ASSUME NEW n \in Node, ConsumeResource(n)
        PROVE  \A o \in Node : Accounted(o)'
    <2>1. PICK m \in resources[n] : Consume(n, m) /\ Release({}, {m})
      BY <1>8 DEF ConsumeResource
    <2>2. Accounted(n)'
      BY <1>0, <2>1, ConsumeAccounted
    <2>3. m \in MemoryOf(n)
      BY <1>0 DEF Accounted, TableSound
    <2>4. /\ tracker' = tracker /\ emissions' = emissions
          /\ resources'[Peer(n)] = resources[Peer(n)]
          /\ busy' = busy \ {m} /\ isBusy' = isBusy \ {m}
      BY <2>1, Ends DEF Consume, Release, TypeOK, EmissionTypeOK
    <2>5. Untouched(Peer(n))
      BY <2>3, <2>4, Ends DEF Untouched
    <2>6. QED
      BY <1>2, <2>2, <2>5
  <1>9. ASSUME NEW n \in Node, PhotonArrives(n)
        PROVE  \A o \in Node : Accounted(o)'
    <2>1. isBusy' = isBusy
      BY <1>9 DEF PhotonArrives, Herald, Entangle, Mix, memoryVars
    <2>2. QED
      BY <1>3, <1>9, <2>1 DEF PhotonArrives, emissionVars
  <1>10. ASSUME NEW n \in Node, ReceiveTiming(n) \/ Stop(n)
         PROVE  \A o \in Node : Accounted(o)'
    BY <1>3, <1>10 DEF ReceiveTiming, StartTrial, Stop, StopEmitting, memoryVars
  <1>11. CASE ControllerBoots \/ ControllerReceives
    BY <1>3, <1>11 DEF ControllerBoots, ControllerReceives, memoryVars,
       emissionVars
  <1>12. CASE UNCHANGED vars
    BY <1>3, <1>12 DEF vars, memoryVars, emissionVars
  <1>13. QED
    BY <1>4, <1>5, <1>6, <1>7, <1>8, <1>9, <1>10, <1>11, <1>12 DEF Next, Event

\* The tables of the rule engines, the trackers, the resources and the flags
\* of the memories always tell the same story.
THEOREM MemoriesAccounted == Spec => []QubitAccounting
  <1>1. QED
    BY InitAccounting, NextAccounting, TypeCorrect, PTL DEF Spec

\* A rule engine never asks a memory to emit that has already emitted.
THEOREM EmissionsNeverRefused == Spec => []EmissionsAccepted
  <1>1. ASSUME QubitAccounting PROVE EmissionsAccepted
    <2> SUFFICES ASSUME NEW n \in Node, NEW e \in DueEmissions(n)
                 PROVE  e.qubit \notin isBusy
      BY DEF EmissionsAccepted
    <2>1. e.qubit \in Reserved(n)
      BY DEF DueEmissions, Reserved
    <2>2. QED
      BY <1>1, <2>1 DEF QubitAccounting, TableSound
  <1>2. QED
    BY <1>1, MemoriesAccounted, PTL
-----------------------------------------------------------------------------
(* LinkGeneration implements QubitLifecycle.                               *)

\* The stage of a memory, told from the tables of its own end.
StageIn(n, m) ==
  IF m \in resources[n] THEN "held"
  ELSE IF m \in Shots(n) THEN "shot"
  ELSE IF m \in busy THEN "reserved"
  ELSE "idle"

\* The stage of a memory is told by the tables of its own end.
LEMMA StageLocal ==
  ASSUME QubitAccounting
  PROVE  \A n \in Node : \A m \in MemoryOf(n) : Stage[m] = StageIn(n, m)
  <1> SUFFICES ASSUME NEW n \in Node, NEW m \in MemoryOf(n)
               PROVE  Stage[m] = StageIn(n, m)
    OBVIOUS
  <1>1. m \in Memory /\ m \notin MemoryOf(Peer(n))
    BY Ends
  <1>2. m \notin resources[Peer(n)] /\ m \notin Shots(Peer(n))
    BY <1>1, Ends DEF QubitAccounting, TableSound
  <1>3. /\ (\E o \in Node : m \in resources[o]) <=> m \in resources[n]
        /\ (\E o \in Node : m \in Shots(o)) <=> m \in Shots(n)
    BY <1>2, Ends
  <1>4. QED
    BY <1>1, <1>3 DEF Stage, StageIn

\* The same after a step.
LEMMA StageLocalNext ==
  ASSUME QubitAccounting'
  PROVE  \A n \in Node : \A m \in MemoryOf(n) : Stage'[m] = StageIn(n, m)'
  <1> SUFFICES ASSUME NEW n \in Node, NEW m \in MemoryOf(n)
               PROVE  Stage'[m] = StageIn(n, m)'
    OBVIOUS
  <1>1. m \in Memory /\ m \notin MemoryOf(Peer(n))
    BY Ends
  <1>2. m \notin resources'[Peer(n)] /\ m \notin Shots(Peer(n))'
    BY <1>1, Ends DEF QubitAccounting, TableSound
  <1>3. /\ (\E o \in Node : m \in resources'[o]) <=> m \in resources'[n]
        /\ (\E o \in Node : m \in Shots(o)') <=> m \in Shots(n)'
    BY <1>2, Ends
  <1>4. QED
    BY <1>1, <1>3 DEF Stage, StageIn

\* A step that moves the memories of one set to one stage and leaves the
\* others where they were, told end by end.
LEMMA MoveByEnds ==
  ASSUME QubitAccounting, QubitAccounting', NEW moved, NEW s,
         \A n \in Node : \A m \in MemoryOf(n) :
           StageIn(n, m)' = IF m \in moved THEN s ELSE StageIn(n, m)
  PROVE  Lifecycle!Move(moved, s)
  <1>1. /\ Stage = [m \in Memory |-> Stage[m]] /\ DOMAIN Stage = Memory
        /\ Stage' = [m \in Memory |-> Stage'[m]]
    BY DEF Stage
  <1>2. \A m \in Memory : Stage'[m] = IF m \in moved THEN s ELSE Stage[m]
    BY StageLocal, StageLocalNext DEF Memory, Node
  <1> HIDE DEF Stage
  <1>3. Stage' = [m \in Memory |-> IF m \in moved THEN s ELSE Stage[m]]
    BY <1>1, <1>2
  <1>4. QED
    BY <1>1, <1>3 DEF Lifecycle!Move

\* The parameters of the abstract specification, told from this one.
LEMMA LifecycleParameters ==
  /\ Lifecycle!Node = Node
  /\ UNION {[n \in Node |-> MemoryOf(n)][end] : end \in Lifecycle!Node} = Memory
  /\ QubitAccounting => \A n \in Node : \A s :
       Lifecycle!At(n, s) = {m \in MemoryOf(n) : StageIn(n, m) = s}
  <1>1. Lifecycle!Node = Node
    BY DEF Node, Lifecycle!Node
  <1>2. UNION {[n \in Node |-> MemoryOf(n)][end] : end \in Lifecycle!Node} = Memory
    BY <1>1 DEF Memory, Node
  <1>3. ASSUME QubitAccounting, NEW n \in Node, NEW s
        PROVE  Lifecycle!At(n, s) = {m \in MemoryOf(n) : StageIn(n, m) = s}
    <2>1. Lifecycle!At(n, s) = {m \in MemoryOf(n) : Stage[m] = s}
      BY DEF Lifecycle!At
    <2>2. QED
      BY <1>3, <2>1, StageLocal
  <1>4. QED
    BY <1>1, <1>2, <1>3

\* The initial states map to the initial state of QubitLifecycle.
LEMMA InitLifecycle == Init => Lifecycle!Init
  <1> SUFFICES ASSUME Init PROVE Lifecycle!Init
    OBVIOUS
  <1>1. \A n \in Node : resources[n] = {} /\ tracker[n] = <<>>
    BY DEF Init, EmissionInit
  <1>2. \A n \in Node : Shots(n) = {}
    <2> TAKE n \in Node
    <2>1. tracker[n] = <<>>
      BY <1>1
    <2>2. QED
      BY <2>1 DEF Shots
  <1>3. busy = {}
    BY DEF Init, EmissionInit
  <1>4. Stage = [m \in Memory |-> "idle"]
    BY <1>1, <1>2, <1>3 DEF Stage
  <1>5. QED
    BY <1>4, LifecycleParameters DEF Lifecycle!Init

\* Nothing moves when no table changes but for the requests to emit.
LEMMA NothingMoves ==
  ASSUME UNCHANGED <<busy, tracker, resources>>
  PROVE  Stage' = Stage
  BY DEF Stage, Shots

\* ShootPhoton maps to Reserve.
LEMMA ReserveStep ==
  ASSUME QubitAccounting, QubitAccounting', NEW n \in Node, ShootPhoton(n)
  PROVE  Lifecycle!Reserve(n)
  <1>1. PICK m \in MemoryOf(n) : m \notin busy /\ busy' = busy \cup {m}
    BY DEF ShootPhoton, LowestFree, Free
  <1>2. tracker' = tracker /\ resources' = resources
    BY DEF ShootPhoton
  <1>3. \A o \in Node : Shots(o)' = Shots(o)
    BY <1>2 DEF Shots
  <1>4. m \notin resources[n] /\ m \notin Shots(n)
    BY <1>1 DEF QubitAccounting, TableSound
  <1>5. StageIn(n, m) = "idle" /\ StageIn(n, m)' = "reserved"
    BY <1>1, <1>2, <1>3, <1>4 DEF StageIn
  <1>6. \A o \in Node : \A l \in MemoryOf(o) :
          StageIn(o, l)' = IF l \in {m} THEN "reserved" ELSE StageIn(o, l)
    <2> SUFFICES ASSUME NEW o \in Node, NEW l \in MemoryOf(o)
                 PROVE  StageIn(o, l)' =
                          IF l \in {m} THEN "reserved" ELSE StageIn(o, l)
      OBVIOUS
    <2>1. CASE l = m
      BY <1>1, <1>5, <2>1, Ends
    <2>2. CASE l # m
      BY <1>1, <1>2, <1>3, <2>2 DEF StageIn
    <2>3. QED
      BY <2>1, <2>2
  <1>7. Lifecycle!Move({m}, "reserved")
    BY <1>6, MoveByEnds
  <1>8. m \in Lifecycle!At(n, "idle")
    BY <1>5, LifecycleParameters
  <1>9. QED
    BY <1>7, <1>8 DEF Lifecycle!Reserve

\* EmitPhoton maps to Shoot.
LEMMA ShootStep ==
  ASSUME TypeOK, QubitAccounting, QubitAccounting', NEW n \in Node,
         EmitPhoton(n)
  PROVE  Lifecycle!Shoot(n)
  <1>1. PICK e \in emissions[n] : Emit(n, e)
    BY DEF EmitPhoton
  <1> DEFINE m == e.qubit
             k == Len(tracker[n])
  <1>2. /\ tracker[n] \in Seq(Memory) /\ k \in Nat
        /\ tracker'[n] = Append(tracker[n], m)
        /\ tracker'[Peer(n)] = tracker[Peer(n)]
        /\ resources' = resources /\ busy' = busy
    BY <1>1, Ends DEF Emit, TypeOK, EmissionTypeOK
  <1>3. Shots(n)' = Shots(n) \cup {m}
    <2>1. /\ Len(tracker'[n]) = k + 1
          /\ tracker'[n][k + 1] = m
          /\ \A i \in 1 .. k : tracker'[n][i] = tracker[n][i]
          /\ \A i \in 1 .. k + 1 : i \in 1 .. k \/ i = k + 1
      BY <1>2
    <2>2. QED
      BY <1>2, <2>1 DEF Shots
  <1>4. Shots(Peer(n))' = Shots(Peer(n))
    BY <1>2 DEF Shots
  <1>5. m \in Reserved(n)
    BY DEF Reserved
  <1>6. /\ m \in MemoryOf(n) /\ m \in busy
        /\ m \notin resources[n] /\ m \notin Shots(n)
    BY <1>5 DEF QubitAccounting, TableSound
  <1> HIDE DEF m, k
  <1>7. StageIn(n, m) = "reserved" /\ StageIn(n, m)' = "shot"
    BY <1>2, <1>3, <1>6 DEF StageIn
  <1>8. \A o \in Node : \A l \in MemoryOf(o) :
          StageIn(o, l)' = IF l \in {m} THEN "shot" ELSE StageIn(o, l)
    <2> SUFFICES ASSUME NEW o \in Node, NEW l \in MemoryOf(o)
                 PROVE  StageIn(o, l)' =
                          IF l \in {m} THEN "shot" ELSE StageIn(o, l)
      OBVIOUS
    <2>1. CASE l = m
      BY <1>6, <1>7, <2>1, Ends
    <2>2. CASE l # m
      <3>1. l \in Shots(o)' <=> l \in Shots(o)
        BY <1>3, <1>4, <2>2, Ends
      <3>2. QED
        BY <1>2, <2>2, <3>1 DEF StageIn
    <2>3. QED
      BY <2>1, <2>2
  <1>9. Lifecycle!Move({m}, "shot")
    BY <1>8, MoveByEnds
  <1>10. m \in Lifecycle!At(n, "reserved")
    BY <1>6, <1>7, LifecycleParameters
  <1>11. QED
    BY <1>9, <1>10 DEF Lifecycle!Shoot

\* ConsumeResource maps to UseUp.
LEMMA UseUpStep ==
  ASSUME TypeOK, QubitAccounting, QubitAccounting', NEW n \in Node,
         ConsumeResource(n)
  PROVE  Lifecycle!UseUp(n)
  <1>1. PICK m \in resources[n] : Consume(n, m)
    BY DEF ConsumeResource
  <1>2. /\ resources'[n] = resources[n] \ {m}
        /\ resources'[Peer(n)] = resources[Peer(n)]
        /\ busy' = busy \ {m} /\ tracker' = tracker
    BY <1>1, Ends DEF Consume, TypeOK, EmissionTypeOK
  <1>3. \A o \in Node : Shots(o)' = Shots(o)
    BY <1>2 DEF Shots
  <1>4. m \in MemoryOf(n) /\ m \notin Shots(n)
    BY DEF QubitAccounting, TableSound
  <1>5. StageIn(n, m) = "held" /\ StageIn(n, m)' = "idle"
    BY <1>2, <1>3, <1>4 DEF StageIn
  <1>6. \A o \in Node : \A l \in MemoryOf(o) :
          StageIn(o, l)' = IF l \in {m} THEN "idle" ELSE StageIn(o, l)
    <2> SUFFICES ASSUME NEW o \in Node, NEW l \in MemoryOf(o)
                 PROVE  StageIn(o, l)' =
                          IF l \in {m} THEN "idle" ELSE StageIn(o, l)
      OBVIOUS
    <2>1. CASE l = m
      BY <1>4, <1>5, <2>1, Ends
    <2>2. CASE l # m
      <3>1. l \in resources'[o] <=> l \in resources[o]
        BY <1>2, <2>2, Ends
      <3>2. QED
        BY <1>2, <1>3, <2>2, <3>1 DEF StageIn
    <2>3. QED
      BY <2>1, <2>2
  <1>7. Lifecycle!Move({m}, "idle")
    BY <1>6, MoveByEnds
  <1>8. m \in Lifecycle!At(n, "held")
    BY <1>4, <1>5, LifecycleParameters
  <1>9. QED
    BY <1>7, <1>8 DEF Lifecycle!UseUp

\* ReceiveResults maps to Settle.
LEMMA SettleStep ==
  ASSUME TypeOK, QubitAccounting, QubitAccounting', NEW n \in Node,
         ReceiveResults(n)
  PROVE  Lifecycle!Settle(n)
  <1> DEFINE failed == Head(inbox[n]).failed
             kept == resources'[n]
             used == Shots(n) \cup resources[n]
  <1>1. failed \in Seq(BOOLEAN)
    BY DeliverTypeOK DEF ReceiveResults, TypeOK, Notice
  <1>2. Len(failed) <= Len(tracker[n])
    <2>1. Len(failed) \in Nat /\ Len(tracker[n]) \in Nat
      BY <1>1 DEF TypeOK, EmissionTypeOK
    <2>2. QED
      BY <2>1 DEF ReceiveResults, ResultsRefused
  <1>3. PICK consumed \in SUBSET (resources[n] \cup Heralded(n, failed)) :
          EndTrial(n, Head(inbox[n]).timing, failed, consumed)
    BY DEF ReceiveResults
  <1> DEFINE gone == Failed(n, failed) \cup Late(n, failed) \cup consumed
  <1>4. /\ Shots(n) = Failed(n, failed) \cup Heralded(n, failed)
                        \cup Late(n, failed)
        /\ Heralded(n, failed) \cap (Failed(n, failed) \cup Late(n, failed)) = {}
    BY <1>1, <1>2, ShotsSplit DEF QubitAccounting
  <1>5. /\ kept = (resources[n] \cup Heralded(n, failed)) \ consumed
        /\ resources'[Peer(n)] = resources[Peer(n)]
        /\ tracker'[n] = <<>> /\ tracker'[Peer(n)] = tracker[Peer(n)]
        /\ busy' = busy \ gone
    BY <1>3, Ends DEF EndTrial, TypeOK, EmissionTypeOK
  <1>6. Shots(n)' = {} /\ Shots(Peer(n))' = Shots(Peer(n))
    BY <1>5 DEF Shots
  <1>7. /\ kept \subseteq used /\ gone \subseteq used
        /\ used \ kept \subseteq gone /\ used \subseteq MemoryOf(n)
    BY <1>4, <1>5 DEF QubitAccounting, TableSound
  <1>8. used = Lifecycle!At(n, "shot") \cup Lifecycle!At(n, "held")
    BY <1>7, LifecycleParameters DEF StageIn
  <1> HIDE DEF kept, used, gone
  <1>9. \A o \in Node : \A l \in MemoryOf(o) :
          StageIn(o, l)' = IF l \in kept THEN "held"
                           ELSE IF l \in used THEN "idle"
                           ELSE StageIn(o, l)
    <2> SUFFICES ASSUME NEW o \in Node, NEW l \in MemoryOf(o)
                 PROVE  StageIn(o, l)' = IF l \in kept THEN "held"
                                         ELSE IF l \in used THEN "idle"
                                         ELSE StageIn(o, l)
      OBVIOUS
    <2>1. CASE o = n
      <3>1. CASE l \in kept
        BY <2>1, <3>1 DEF StageIn, kept
      <3>2. CASE l \in used /\ l \notin kept
        BY <1>5, <1>6, <1>7, <2>1, <3>2 DEF StageIn, kept
      <3>3. CASE l \notin used
        <4>1. l \notin kept /\ l \notin gone
          BY <1>7, <3>3
        <4>2. l \in busy' <=> l \in busy
          BY <1>5, <4>1
        <4>3. l \notin Shots(n) /\ l \notin resources[n]
          BY <3>3 DEF used
        <4>4. QED
          BY <1>6, <2>1, <3>3, <4>1, <4>2, <4>3 DEF StageIn, kept
      <3>4. QED
        BY <3>1, <3>2, <3>3
    <2>2. CASE o = Peer(n)
      <3>1. l \notin MemoryOf(n)
        BY <2>2, Ends
      <3>2. l \notin kept /\ l \notin used /\ l \notin gone
        BY <1>7, <3>1
      <3>3. l \in busy' <=> l \in busy
        BY <1>5, <3>2
      <3>4. QED
        BY <1>5, <1>6, <2>2, <3>2, <3>3 DEF StageIn
    <2>3. QED
      BY <2>1, <2>2, Ends
  <1>10. /\ Stage' = [m \in Memory |-> Stage'[m]] /\ DOMAIN Stage = Memory
    BY DEF Stage
  <1>11. \A m \in Memory : Stage'[m] = IF m \in kept THEN "held"
                                       ELSE IF m \in used THEN "idle"
                                       ELSE Stage[m]
    BY <1>9, StageLocal, StageLocalNext DEF Memory, Node
  <1> HIDE DEF Stage
  <1>12. Stage' = [m \in DOMAIN Stage |-> IF m \in kept THEN "held"
                                          ELSE IF m \in used THEN "idle"
                                          ELSE Stage[m]]
    BY <1>10, <1>11
  <1>13. QED
    BY <1>7, <1>8, <1>12 DEF Lifecycle!Settle

\* Every step maps to a step of QubitLifecycle or to a stutter.
LEMMA NextLifecycle ==
  ASSUME TypeOK, QubitAccounting, QubitAccounting', [Next]_vars
  PROVE  [Lifecycle!Next]_Stage
  <1>1. ASSUME NEW n \in Node, Schedule(n)
        PROVE  [Lifecycle!Next]_Stage
    <2>1. CASE ShootPhoton(n)
      BY <2>1, ReserveStep, LifecycleParameters DEF Lifecycle!Next
    <2>2. CASE DropSchedule(n) \/ EndBurst(n) \/ DropEmission(n)
      BY <2>2, NothingMoves DEF DropSchedule, EndBurst, DropEmission
    <2>3. QED
      BY <1>1, <2>1, <2>2 DEF Schedule
  <1>2. ASSUME NEW n \in Node,
               EmitPhoton(n) \/ ReceiveResults(n) \/ ConsumeResource(n)
        PROVE  Lifecycle!Next
    BY <1>2, ShootStep, SettleStep, UseUpStep, LifecycleParameters
    DEF Lifecycle!Next
  <1>3. ASSUME NEW n \in Node, PhotonArrives(n) \/ ReceiveTiming(n) \/ Stop(n)
        PROVE  Stage' = Stage
    BY <1>3, NothingMoves
    DEF PhotonArrives, ReceiveTiming, StartTrial, Stop, StopEmitting,
        emissionVars
  <1>4. CASE Tick \/ ControllerBoots \/ ControllerReceives \/ UNCHANGED vars
    BY <1>4, NothingMoves
    DEF Tick, ControllerBoots, ControllerReceives, vars, emissionVars
  <1>5. QED
    BY <1>1, <1>2, <1>3, <1>4 DEF Next, Event

\* Link generation implements the life cycle promised of every memory.
THEOREM ImplementsLifecycle == Spec => LifecycleSpec
  <1>1. QED
    BY InitLifecycle, NextLifecycle, TypeCorrect, MemoriesAccounted, PTL
    DEF Spec, LifecycleSpec, Lifecycle!Spec
-----------------------------------------------------------------------------
(* The timing of the two ends.                                             *)

\* The ticks from the end of a trial to the arrival of the first photons of
\* the next one: a message to the farther end and a photon from it.
Lead == 2 * MaxDelay

\* The counter of trials does not wrap while a self-message is pending.
CounterWide == Interval < (TrialWrap - 1) * Lead

\* When the i-th photons of a trial are due at the analyzer, the first being
\* due in a ticks.
Slot(a, i) == a + (i - 1) * Interval

\* v is away from the ticks at which photons depart, jitter included.
Off(v) ==
  \E q \in Int : q * Interval + Jitter < v /\ v < q * Interval + Interval

\* The parameters of the model, as numbers.
LEMMA Parameters ==
  /\ Interval \in Nat /\ Interval > 0
  /\ Jitter \in Nat /\ Jitter < Interval
  /\ TrialWrap \in Nat /\ TrialWrap > 1
  /\ MaxDelay \in Nat /\ Lead \in Nat
  /\ \A n \in Node : /\ Delay[n] \in Nat
                     /\ 2 * Delay[n] <= Lead
                     /\ StartTiming(n) = Lead - 2 * Delay[n]
  <1>1. /\ Interval \in Nat /\ Interval > 0
        /\ TrialWrap \in Nat /\ TrialWrap > 1
    BY EmissionAssumption DEF EmissionAssumption
  <1>2. Jitter \in Nat /\ Jitter < Interval
    BY <1>1, TimingAssumption DEF TimingAssumption
  <1>3. MaxDelay \in Nat /\ \A n \in Node : Delay[n] \in Nat /\ Delay[n] <= MaxDelay
    BY DelayAssumption DEF DelayAssumption, MaxDelay, Node
  <1>4. QED
    BY <1>1, <1>2, <1>3 DEF Lead, StartTiming

\* A wide counter means that some end is away from the analyzer.
LEMMA LeadPositive ==
  CounterWide => Lead > 0
  <1>1. ASSUME Lead = 0 PROVE (TrialWrap - 1) * Lead = 0
    BY <1>1, Parameters
  <1>2. QED
    BY <1>1, Parameters DEF CounterWide

\* The slots of a trial are Interval apart.
LEMMA Slots ==
  ASSUME NEW a \in Int
  PROVE  /\ Slot(a, 1) = a
         /\ \A i \in Nat : /\ Slot(a, i) \in Int
                           /\ Slot(a, i + 1) = Slot(a, i) + Interval
                           /\ Slot(a - 1, i) = Slot(a, i) - 1
  BY Parameters DEF Slot

\* Of two slots the later one is a whole number of intervals later.
LEMMA SlotsApart ==
  ASSUME NEW a \in Int, NEW i \in Nat, NEW j \in Nat, i <= j
  PROVE  \E k \in Nat : /\ k = j - i
                        /\ Slot(a, j) = Slot(a, i) + k * Interval
                        /\ i < j => Slot(a, i) + Interval <= Slot(a, j)
                        /\ Slot(a, i) <= Slot(a, j)
  <1> DEFINE k == j - i
  <1>1. k \in Nat
    OBVIOUS
  <1>2. Slot(a, j) = Slot(a, i) + k * Interval
    BY Parameters DEF Slot
  <1>3. i < j => k >= 1
    OBVIOUS
  <1> HIDE DEF k
  <1>4. k * Interval >= 0
    BY <1>1, Parameters
  <1>5. i < j => k * Interval >= Interval
    <2> SUFFICES ASSUME i < j PROVE k * Interval >= Interval
      OBVIOUS
    <2>1. k = (k - 1) + 1 /\ k - 1 \in Nat
      BY <1>1, <1>3
    <2>2. (k - 1) * Interval >= 0
      BY <2>1, Parameters
    <2>3. k * Interval = (k - 1) * Interval + Interval
      BY <1>1, Parameters
    <2>4. QED
      BY <1>1, <2>1, <2>2, <2>3, Parameters
  <1>6. Slot(a, i) \in Int /\ k * Interval \in Int
    BY <1>1, Slots, Parameters
  <1>7. QED
    BY <1>1, <1>2, <1>4, <1>5, <1>6, Parameters DEF k

\* What is away from the departures stays so a whole number of intervals
\* earlier, and what is not past is later than any jitter.
LEMMA OffShift ==
  ASSUME NEW v \in Int, NEW k \in Nat, Off(v)
  PROVE  Off(v - k * Interval)
  <1>1. PICK q \in Int : q * Interval + Jitter < v /\ v < q * Interval + Interval
    BY DEF Off
  <1>2. (q - k) * Interval = q * Interval - k * Interval /\ q - k \in Int
    BY Parameters
  <1>3. q * Interval \in Int /\ k * Interval \in Int
    BY Parameters
  <1>4. /\ (q - k) * Interval + Jitter < v - k * Interval
        /\ v - k * Interval < (q - k) * Interval + Interval
    BY <1>1, <1>2, <1>3, Parameters
  <1>5. QED
    BY <1>2, <1>4 DEF Off

LEMMA OffPositive ==
  ASSUME NEW v \in Nat, Off(v)
  PROVE  Jitter < v
  <1>1. PICK q \in Int : q * Interval + Jitter < v /\ v < q * Interval + Interval
    BY DEF Off
  <1>2. q >= 0
    <2>1. CASE q <= -1
      <3> DEFINE r == -1 - q
      <3>1. r \in Nat /\ q = -1 - r
        BY <2>1
      <3> HIDE DEF r
      <3>2. r * Interval >= 0 /\ r * Interval \in Int
        BY <3>1, Parameters
      <3>3. q * Interval = 0 - Interval - r * Interval
        BY <3>1, Parameters
      <3>4. QED
        BY <1>1, <3>2, <3>3, Parameters
    <2>2. QED
      BY <2>1
  <1>3. q * Interval >= 0 /\ q * Interval \in Int
    BY <1>2, Parameters
  <1>4. QED
    BY <1>1, <1>3, Parameters

\* The results of a trial are away from the departures when they arrive.
LEMMA ResultsOff ==
  ASSUME NEW n \in Node, Delay[n] # 0, NEW j \in 0 .. Jitter
  PROVE  Off(2 * Delay[n] + j)
  <1> DEFINE v == 2 * Delay[n] + j
  <1>1. v \in Nat
    BY Parameters
  <1>2. v % Interval > Jitter
    BY TimingAssumption DEF TimingAssumption
  <1> HIDE DEF v
  <1>3. /\ v = (v \div Interval) * Interval + (v % Interval)
        /\ v % Interval \in 0 .. Interval - 1 /\ v \div Interval \in Int
    BY <1>1, Parameters
  <1> DEFINE q == v \div Interval
             r == v % Interval
  <1>4. v = q * Interval + r /\ r > Jitter /\ r < Interval /\ r \in Int /\ q \in Int
    BY <1>2, <1>3, Parameters
  <1> HIDE DEF q, r
  <1>5. q * Interval \in Int
    BY <1>4, Parameters
  <1>6. q * Interval + Jitter < v /\ v < q * Interval + Interval
    BY <1>4, <1>5, Parameters
  <1>7. Off(v)
    BY <1>4, <1>6 DEF Off
  <1>8. QED
    BY <1>7 DEF v

\* The counter of trials, without the remainder.
LEMMA Counting ==
  \A t \in Trial : /\ t \in Nat /\ t < TrialWrap /\ t % TrialWrap = t
                   /\ NextTrial(t) = IF t + 1 = TrialWrap THEN 0 ELSE t + 1
  BY Parameters DEF Trial, NextTrial
-----------------------------------------------------------------------------
(* The burst of one end.                                                   *)

\* The pending self-messages of the running trial.
Plans(n) == {s \in schedules[n] : s.trial = trial[n]}
Asks(n) == {e \in emissions[n] : e.trial = trial[n]}

Planned(n, x, first) ==
  \E s \in schedules[n] : /\ Plans(n) = {s} /\ s.in = x
                          /\ s.timing = StartTiming(n) /\ s.first = first

\* No further photon is asked for; the next one is to be asked for now; the
\* next one is to depart in x ticks.
BurstOver(n) == Plans(n) = {} /\ Asks(n) = {}
BurstDue(n) ==
  /\ Asks(n) = {}
  /\ Planned(n, 0, tracker[n] = <<>>)
  /\ tracker[n] = <<>> => Free(n, busy) # {}
BurstRuns(n, x) ==
  /\ Planned(n, x, FALSE)
  /\ \E e \in emissions[n] :
       /\ Asks(n) = {e} /\ e.in = x /\ e.first = (tracker[n] = <<>>)
       /\ Free(n, busy) = {} => e.last
  /\ tracker[n] # <<>> => x <= Interval

Burst(n) == BurstOver(n) \/ BurstDue(n) \/ \E x \in Nat : BurstRuns(n, x)

\* When a photon is asked for, the burst is due.
LEMMA AskedWhenDue ==
  ASSUME TypeOK, NEW n \in Node, Burst(n), NEW s \in DueSchedules(n),
         ~ Outdated(n, s)
  PROVE  BurstDue(n) /\ Plans(n) = {s}
  <1>1. /\ s \in Plans(n) /\ s.in = 0
        /\ \A e \in emissions[n] : e.in # 0
    BY DEF DueSchedules, DueEmissions, Outdated, Plans
  <1>2. ~ BurstOver(n)
    BY <1>1 DEF BurstOver
  <1>3. ASSUME NEW x \in Nat, BurstRuns(n, x) PROVE FALSE
    <2>1. x = 0
      BY <1>1, <1>3 DEF BurstRuns, Planned
    <2>2. QED
      BY <1>1, <1>3, <2>1 DEF BurstRuns
  <1>4. BurstDue(n)
    BY <1>2, <1>3 DEF Burst
  <1>5. QED
    BY <1>1, <1>4 DEF BurstDue, Planned

\* When a photon departs, its burst runs and has reached it.
LEMMA DepartsWhenRunning ==
  ASSUME TypeOK, NEW n \in Node, Burst(n), NEW e \in DueEmissions(n),
         ~ Outdated(n, e)
  PROVE  BurstRuns(n, 0) /\ Asks(n) = {e}
  <1>1. e \in Asks(n) /\ e.in = 0
    BY DEF DueEmissions, Outdated, Asks
  <1>2. PICK x \in Nat : BurstRuns(n, x)
    BY <1>1 DEF Burst, BurstOver, BurstDue
  <1>3. Asks(n) = {e} /\ x = 0
    BY <1>1, <1>2 DEF BurstRuns
  <1>4. QED
    BY <1>2, <1>3

\* Dropping an outdated message leaves the burst as it is.
LEMMA DropKeepsBurst ==
  ASSUME TypeOK, NEW n \in Node, DropSchedule(n) \/ DropEmission(n)
  PROVE  /\ BurstOver(n) => BurstOver(n)'
         /\ BurstDue(n) => BurstDue(n)'
         /\ \A x \in Nat : BurstRuns(n, x) => BurstRuns(n, x)'
  <1>1. /\ trial' = trial /\ tracker' = tracker /\ busy' = busy
        /\ Plans(n)' = Plans(n) /\ Asks(n)' = Asks(n)
        /\ schedules'[n] \subseteq schedules[n]
        /\ emissions'[n] \subseteq emissions[n]
    BY DEF DropSchedule, DropEmission, Outdated, Plans, Asks, TypeOK,
       EmissionTypeOK
  <1>2. \A x, first : Planned(n, x, first) => Planned(n, x, first)'
    BY <1>1 DEF Planned, Plans
  <1>3. Free(n, busy)' = Free(n, busy)
    BY <1>1 DEF Free
  <1>4. \A e \in Asks(n) : e \in emissions'[n]
    BY <1>1 DEF Asks
  <1>5. QED
    BY <1>1, <1>2, <1>3, <1>4 DEF BurstOver, BurstDue, BurstRuns

\* A burst that finds no free memory is over.
LEMMA EndKeepsBurst ==
  ASSUME TypeOK, NEW n \in Node, Burst(n), EndBurst(n)
  PROVE  BurstDue(n) /\ BurstOver(n)'
  <1>1. PICK s \in DueSchedules(n) :
          /\ ~ Outdated(n, s)
          /\ schedules' = [schedules EXCEPT ![n] = @ \ {s}]
    BY DEF EndBurst
  <1>2. BurstDue(n) /\ Plans(n) = {s}
    BY <1>1, AskedWhenDue
  <1>3. /\ trial' = trial /\ emissions' = emissions
        /\ schedules'[n] = schedules[n] \ {s}
    BY <1>1 DEF EndBurst, TypeOK, EmissionTypeOK
  <1>4. QED
    BY <1>2, <1>3 DEF BurstDue, BurstOver, Plans, Asks

\* A memory is asked for its photon: the burst runs.
LEMMA ShootKeepsBurst ==
  ASSUME TypeOK, NEW n \in Node, Burst(n), ShootPhoton(n)
  PROVE  /\ BurstDue(n)
         /\ \E wait \in Nat :
              /\ wait = IF tracker[n] = <<>> THEN StartTiming(n) ELSE Interval
              /\ BurstRuns(n, wait)'
  <1>1. PICK s \in DueSchedules(n), m \in MemoryOf(n) :
          LET wait == IF s.first THEN s.timing ELSE Interval
          IN  /\ ~ Outdated(n, s)
              /\ emissions' = [emissions EXCEPT ![n] = @ \cup
                   {[in |-> wait, trial |-> s.trial, qubit |-> m,
                     first |-> s.first, last |-> Free(n, busy') = {}]}]
              /\ schedules' = [schedules EXCEPT ![n] = (@ \ {s}) \cup
                   {[s EXCEPT !.in = wait, !.first = FALSE]}]
    BY DEF ShootPhoton
  <1> DEFINE wait == IF s.first THEN s.timing ELSE Interval
             e == [in |-> wait, trial |-> s.trial, qubit |-> m,
                   first |-> s.first, last |-> Free(n, busy') = {}]
             t == [s EXCEPT !.in = wait, !.first = FALSE]
  <1>2. BurstDue(n) /\ Plans(n) = {s}
    BY <1>1, AskedWhenDue
  <1>3. /\ s \in ScheduleMsg /\ s.trial = trial[n]
        /\ s.timing = StartTiming(n) /\ s.first = (tracker[n] = <<>>)
    BY <1>2, RequestTypes DEF BurstDue, Planned, Plans, TypeOK
  <1>4. /\ e.in = wait /\ e.trial = trial[n] /\ e.first = s.first
        /\ e.last = (Free(n, busy') = {})
        /\ t.in = wait /\ t.trial = trial[n] /\ t.timing = s.timing
        /\ t.first = FALSE
    BY <1>3 DEF ScheduleMsg
  <1>5. wait = IF tracker[n] = <<>> THEN StartTiming(n) ELSE Interval
    BY <1>3
  <1>6. /\ emissions'[n] = emissions[n] \cup {e}
        /\ schedules'[n] = (schedules[n] \ {s}) \cup {t}
    BY <1>1 DEF TypeOK, EmissionTypeOK
  <1> HIDE DEF e, t, wait
  <1>12. PICK x \in Nat : x = wait
    BY <1>5, Parameters
  <1>7. trial' = trial /\ tracker' = tracker
    BY DEF ShootPhoton
  <1>8. Plans(n)' = {t} /\ Asks(n)' = {e}
    BY <1>2, <1>4, <1>6, <1>7 DEF Plans, Asks, BurstDue
  <1>9. Planned(n, x, FALSE)'
    BY <1>3, <1>4, <1>6, <1>8, <1>12 DEF Planned
  <1>10. tracker[n] # <<>> => x <= Interval
    BY <1>5, <1>12, Parameters
  <1>11. BurstRuns(n, x)'
    BY <1>3, <1>4, <1>6, <1>7, <1>8, <1>9, <1>10, <1>12 DEF BurstRuns
  <1>13. QED
    BY <1>2, <1>5, <1>11, <1>12

\* A photon departs: the next one is to be asked for.
LEMMA EmitKeepsBurst ==
  ASSUME TypeOK, NEW n \in Node, Burst(n), NEW e \in emissions[n], Emit(n, e)
  PROVE  /\ BurstRuns(n, 0) /\ Asks(n) = {e} /\ BurstDue(n)'
         /\ tracker'[n] # <<>>
  <1>1. BurstRuns(n, 0) /\ Asks(n) = {e}
    BY DepartsWhenRunning DEF Emit
  <1>2. /\ tracker'[n] = Append(tracker[n], e.qubit)
        /\ emissions'[n] = emissions[n] \ {e}
        /\ trial' = trial /\ schedules' = schedules
    BY DEF Emit, TypeOK, EmissionTypeOK
  <1>3. tracker'[n] # <<>>
    <2>1. tracker[n] \in Seq(Memory) /\ e.qubit \in Memory
      BY RequestTypes DEF TypeOK, EmissionTypeOK, EmitMsg
    <2>2. QED
      BY <1>2, <2>1
  <1>4. Asks(n)' = {}
    BY <1>1, <1>2 DEF Asks
  <1>5. Planned(n, 0, FALSE)'
    BY <1>1, <1>2 DEF BurstRuns, Planned, Plans
  <1>6. QED
    BY <1>1, <1>3, <1>4, <1>5 DEF BurstDue

\* Time passes: the next departure comes closer.
LEMMA TickKeepsBurst ==
  ASSUME TypeOK, NEW n \in Node, Tick
  PROVE  /\ ~ BurstDue(n)
         /\ BurstOver(n) => BurstOver(n)'
         /\ \A x \in Nat : BurstRuns(n, x) => x > 0 /\ BurstRuns(n, x - 1)'
  <1>1. /\ \A s \in schedules[n] : s \in ScheduleMsg /\ s.in > 0
        /\ \A e \in emissions[n] : e \in EmitMsg /\ e.in > 0
    BY RequestTypes DEF Tick, Quiet, TypeOK
  <1>2. /\ schedules'[n] = {Sooner(s) : s \in schedules[n]}
        /\ emissions'[n] = {Sooner(e) : e \in emissions[n]}
        /\ trial' = trial /\ tracker' = tracker /\ busy' = busy
    BY DEF Tick
  <1>3. /\ \A s \in schedules[n] : /\ Sooner(s).in = s.in - 1
                                   /\ Sooner(s).trial = s.trial
                                   /\ Sooner(s).timing = s.timing
                                   /\ Sooner(s).first = s.first
        /\ \A e \in emissions[n] : /\ Sooner(e).in = e.in - 1
                                   /\ Sooner(e).trial = e.trial
                                   /\ Sooner(e).first = e.first
                                   /\ Sooner(e).last = e.last
    BY <1>1 DEF Sooner, ScheduleMsg, EmitMsg
  <1>4. /\ Plans(n)' = {Sooner(s) : s \in Plans(n)}
        /\ Asks(n)' = {Sooner(e) : e \in Asks(n)}
    BY <1>2, <1>3 DEF Plans, Asks
  <1>5. ~ BurstDue(n)
    BY <1>1 DEF BurstDue, Planned
  <1>6. BurstOver(n) => BurstOver(n)'
    BY <1>4 DEF BurstOver
  <1>7. ASSUME NEW x \in Nat, BurstRuns(n, x)
        PROVE  x > 0 /\ BurstRuns(n, x - 1)'
    <2>1. PICK s \in schedules[n] : /\ Plans(n) = {s} /\ s.in = x
                                    /\ s.timing = StartTiming(n) /\ s.first = FALSE
      BY <1>7 DEF BurstRuns, Planned
    <2>2. PICK e \in emissions[n] :
            /\ Asks(n) = {e} /\ e.in = x /\ e.first = (tracker[n] = <<>>)
            /\ Free(n, busy) = {} => e.last
      BY <1>7 DEF BurstRuns
    <2>3. x > 0
      BY <1>1, <2>1
    <2>4. Plans(n)' = {Sooner(s)} /\ Asks(n)' = {Sooner(e)}
      BY <1>4, <2>1, <2>2
    <2>5. Planned(n, x - 1, FALSE)'
      BY <1>2, <1>3, <2>1, <2>4 DEF Planned
    <2>6. tracker[n] # <<>> => x - 1 <= Interval
      BY <1>7, Parameters DEF BurstRuns
    <2>7. QED
      BY <1>2, <1>3, <2>2, <2>3, <2>4, <2>5, <2>6 DEF BurstRuns
  <1>8. QED
    BY <1>5, <1>6, <1>7

\* A trial starts: its burst is due unless no memory is free.
LEMMA StartKeepsBurst ==
  ASSUME TypeOK', NEW n \in Node, trial[n]' \in Trial, NEW old,
         \A s \in old : s.trial # trial[n]',
         \A e \in emissions[n]' : e.trial # trial[n]',
         tracker[n]' = <<>>, NEW timing, timing = StartTiming(n),
         \/ schedules[n]' = old
         \/ schedules[n]' = old \cup
              {s \in {[in |-> 0, trial |-> trial[n]', timing |-> timing,
                       first |-> TRUE]} : Free(n, busy)' # {}}
  PROVE  BurstOver(n)' \/ BurstDue(n)'
  <1> DEFINE s == [in |-> 0, trial |-> trial[n]', timing |-> timing,
                   first |-> TRUE]
  <1>1. /\ s.in = 0 /\ s.trial = trial[n]' /\ s.timing = timing
        /\ s.first = TRUE
    OBVIOUS
  <1> HIDE DEF s
  <1>2. Asks(n)' = {}
    BY DEF Asks
  <1>3. CASE schedules[n]' = old
    BY <1>2, <1>3 DEF BurstOver, Plans
  <1>4. CASE schedules[n]' = old \cup {t \in {s} : Free(n, busy)' # {}}
    <2>1. CASE Free(n, busy)' = {}
      BY <1>2, <1>4, <2>1 DEF BurstOver, Plans
    <2>2. CASE Free(n, busy)' # {}
      <3>1. s \in schedules[n]' /\ Plans(n)' = {s}
        BY <1>1, <1>4, <2>2 DEF Plans
      <3>2. Planned(n, 0, TRUE)'
        BY <1>1, <3>1 DEF Planned
      <3>3. QED
        BY <1>2, <2>2, <3>2 DEF BurstDue
    <2>3. QED
      BY <2>1, <2>2
  <1>5. QED
    BY <1>3, <1>4 DEF s
-----------------------------------------------------------------------------
(* What an end knows of the time.                                          *)

\* v is the time between a departure and the arrival of results.
Slack(n, v) == Delay[n] = 0 \/ Off(v)

\* The burst of a trial whose results arrive in "left" ticks: none of its
\* photons departs as they do.
Outlives(n, left) ==
  \/ BurstOver(n)
  \/ BurstDue(n) /\ Slack(n, left)
  \/ \E x \in Nat : /\ BurstRuns(n, x) /\ Slack(n, left - x)
                    /\ Delay[n] = 0 => x > 0

\* A message is on its way to n: it starts the trial the first photons of
\* which are due at the analyzer in a ticks.
Awaiting(n, a) ==
  /\ Len(inbox[n]) = 1
  /\ Head(inbox[n]).in <= Delay[n]
  /\ a = Head(inbox[n]).in + Lead - Delay[n]
  /\ Head(inbox[n]).timing = StartTiming(n)
  /\ IF Head(inbox[n]).combined
     THEN /\ Len(Head(inbox[n]).failed) >= 1
          /\ Len(Head(inbox[n]).failed) <= Len(tracker[n])
          /\ Outlives(n, Head(inbox[n]).in)
     ELSE /\ tracker[n] = <<>> /\ fiber[n] = <<>>
          /\ schedules[n] = {} /\ emissions[n] = {}

\* The analyzer has closed the trial, its last report has yet to be handled.
Concluded == trialDone /\ reports # <<>>

\* The last of the photons that n has sent is known to be the last one.
LastMarked(n, o) ==
  IF Len(fiber[n]) > o THEN fiber[n][Len(fiber[n])].last ELSE lastDetected[n]
Marked(n, o) == Concluded \/ LastMarked(n, o)

\* No message is on its way to n: its photons depart in their slots, until
\* the last one.
Running(n, a, o) ==
  /\ a <= Lead - Delay[n]
  /\ \/ BurstOver(n) /\ (tracker[n] # <<>> => Marked(n, o))
     \/ /\ BurstDue(n)
        /\ IF tracker[n] = <<>>
           THEN a = Lead - Delay[n]
           ELSE /\ Slot(a, Len(tracker[n])) = Delay[n]
                /\ Free(n, busy) = {} => Marked(n, o)
     \/ \E x \in Nat : /\ BurstRuns(n, x)
                       /\ x + Delay[n] = Slot(a, Len(tracker[n]) + 1)

\* A photon on its way is the j-th of its trial, and in its slot.
InSlot(n, a, photon, j) ==
  /\ Slot(a, j) <= photon.in /\ photon.in <= Slot(a, j) + Jitter
  /\ Slot(a, j) <= Delay[n]
  /\ photon.first = (j = 1)
  /\ photon.qubit = tracker[n][j]

\* The first o photons on their way are of the trial before and come before
\* the next one; the others follow the c that the analyzer has taken in.
InFiber(n, a, c, o) ==
  /\ o <= Len(fiber[n])
  /\ IF inbox[n] = <<>> THEN Len(tracker[n]) = c + Len(fiber[n]) - o
                        ELSE c = 0 /\ o = Len(fiber[n])
  /\ \A i \in 1 .. o : fiber[n][i].in < a /\ ~ fiber[n][i].first
  /\ \A i \in (o + 1) .. Len(fiber[n]) :
       InSlot(n, a, fiber[n][i], c + i - o)

\* The time since the last message to n was sent or is as good as sent.
Elapsed(n, a) ==
  IF inbox[n] = <<>> THEN Lead - Delay[n] - a ELSE Lead - Head(inbox[n]).in

\* A self-message of trial t that is due in "left" ticks is some trials old,
\* each of which took time.
Aged(n, a, t, left) ==
  \E d \in Nat : /\ d >= 1 /\ d < TrialWrap
                 /\ trial[n] = t + d \/ trial[n] = t + d - TrialWrap
                 /\ left <= Interval - (d - 1) * Lead - Elapsed(n, a)
Stale(n, a) ==
  /\ \A s \in schedules[n] : s.trial # trial[n] => Aged(n, a, s.trial, s.in)
  /\ \A e \in emissions[n] : e.trial # trial[n] => Aged(n, a, e.trial, e.in)

EndInv(n, a, c, o) ==
  /\ inbox[n] # <<>> => Awaiting(n, a)
  /\ inbox[n] = <<>> => Running(n, a, o)
  /\ InFiber(n, a, c, o)
  /\ Stale(n, a)

\* What a burst and its timing are kept by.
Calm(n) ==
  /\ tracker'[n] = tracker[n] /\ inbox'[n] = inbox[n]
  /\ trial'[n] = trial[n]

\* The self-messages of earlier trials stay so when no time passes and only
\* messages of the running trial are added.
LEMMA StaleKept ==
  ASSUME NEW n \in Node, NEW a \in Int, Stale(n, a), Calm(n),
         \A s \in schedules'[n] : s \in schedules[n] \/ s.trial = trial[n],
         \A e \in emissions'[n] : e \in emissions[n] \/ e.trial = trial[n]
  PROVE  Stale(n, a)'
  <1>1. Elapsed(n, a)' = Elapsed(n, a)
    BY DEF Elapsed, Calm
  <1>2. \A t, left : Aged(n, a, t, left) => Aged(n, a, t, left)'
    BY <1>1 DEF Aged, Calm
  <1>3. QED
    BY <1>2 DEF Stale, Calm

\* The photons on their way stay as they are.
LEMMA FiberKept ==
  ASSUME NEW n \in Node, NEW a \in Int, NEW c \in Nat, NEW o \in Nat,
         InFiber(n, a, c, o), Calm(n), fiber'[n] = fiber[n]
  PROVE  InFiber(n, a, c, o)'
  BY DEF InFiber, InSlot, Calm

\* What n awaits is still what it awaits, as long as its burst outlives it.
LEMMA AwaitingKept ==
  ASSUME NEW n \in Node, NEW a \in Int, Awaiting(n, a), Calm(n),
         Head(inbox[n]).combined,
         Outlives(n, Head(inbox[n]).in) => Outlives(n, Head(inbox[n]).in)'
  PROVE  Awaiting(n, a)'
  BY DEF Awaiting, Calm

\* A message on its way and a burst are kept by a step that leaves the tables
\* of an end alone, but for memories that are set free.
LEMMA PaceKept ==
  ASSUME NEW n \in Node, NEW a \in Int, NEW c \in Nat, NEW o \in Nat,
         EndInv(n, a, c, o), Calm(n),
         schedules'[n] = schedules[n], emissions'[n] = emissions[n],
         Free(n, busy) \subseteq Free(n, busy'),
         fiber[n] = <<>> => fiber'[n] = <<>>, NEW p \in Nat,
         tracker[n] # <<>> /\ Marked(n, o) => Marked(n, p)'
  PROVE  /\ inbox'[n] # <<>> => Awaiting(n, a)'
         /\ inbox'[n] = <<>> => Running(n, a, p)'
  <1>1. /\ Plans(n)' = Plans(n) /\ Asks(n)' = Asks(n)
        /\ tracker'[n] = tracker[n] /\ inbox'[n] = inbox[n]
    BY DEF Plans, Asks, Calm
  <1>2. \A x, first : Planned(n, x, first) => Planned(n, x, first)'
    BY <1>1 DEF Planned
  <1>3. Free(n, busy)' = {} => Free(n, busy) = {}
    BY DEF Free
  <1>4. /\ BurstOver(n) => BurstOver(n)'
        /\ BurstDue(n) => BurstDue(n)'
        /\ \A x \in Nat : BurstRuns(n, x) => BurstRuns(n, x)'
    BY <1>1, <1>2, <1>3 DEF BurstOver, BurstDue, BurstRuns
  <1>5. CASE inbox[n] = <<>>
    <2>1. CASE BurstOver(n) /\ (tracker[n] # <<>> => Marked(n, o))
      BY <1>1, <1>4, <1>5, <2>1 DEF EndInv, Running
    <2>2. CASE /\ BurstDue(n)
               /\ IF tracker[n] = <<>>
                  THEN a = Lead - Delay[n]
                  ELSE /\ Slot(a, Len(tracker[n])) = Delay[n]
                       /\ Free(n, busy) = {} => Marked(n, o)
      BY <1>1, <1>3, <1>4, <1>5, <2>2 DEF EndInv, Running
    <2>3. ASSUME NEW x \in Nat, BurstRuns(n, x),
                 x + Delay[n] = Slot(a, Len(tracker[n]) + 1)
          PROVE  Running(n, a, p)'
      BY <1>1, <1>4, <1>5, <2>3 DEF EndInv, Running
    <2>4. QED
      BY <1>1, <1>5, <2>1, <2>2, <2>3 DEF EndInv, Running
  <1>6. CASE inbox[n] # <<>>
    <2>1. \A left : Outlives(n, left) => Outlives(n, left)'
      BY <1>4 DEF Outlives
    <2>2. QED
      BY <1>1, <1>6, <2>1 DEF EndInv, Awaiting
  <1>7. QED
    BY <1>5, <1>6

\* An end that a step leaves alone, but for memories that are set free.
LEMMA EndKept ==
  ASSUME NEW n \in Node, NEW a \in Int, NEW c \in Nat, NEW o \in Nat,
         EndInv(n, a, c, o), Calm(n), fiber'[n] = fiber[n],
         schedules'[n] = schedules[n], emissions'[n] = emissions[n],
         Free(n, busy) \subseteq Free(n, busy'),
         tracker[n] # <<>> /\ Marked(n, o) => Marked(n, o)'
  PROVE  EndInv(n, a, c, o)'
  <1>1. InFiber(n, a, c, o)' /\ Stale(n, a)'
    BY FiberKept, StaleKept DEF EndInv
  <1>2. /\ inbox'[n] # <<>> => Awaiting(n, a)'
        /\ inbox'[n] = <<>> => Running(n, a, o)'
    BY PaceKept
  <1>3. QED
    BY <1>1, <1>2 DEF EndInv

\* The burst of an end is over, due or running, and an end that awaits the
\* start of its first trial has no self-messages.
LEMMA EndBursts ==
  ASSUME NEW n \in Node, NEW a \in Int, NEW c \in Nat, NEW o \in Nat,
         EndInv(n, a, c, o)
  PROVE  /\ Burst(n)
         /\ inbox[n] # <<>> /\ schedules[n] \cup emissions[n] # {}
              => Head(inbox[n]).combined
  <1>1. Outlives(n, Head(inbox[n]).in) => Burst(n)
    BY DEF Outlives, Burst
  <1>2. Running(n, a, o) => Burst(n)
    BY DEF Running, Burst
  <1>3. schedules[n] = {} /\ emissions[n] = {} => BurstOver(n)
    BY DEF BurstOver, Plans, Asks
  <1>4. Awaiting(n, a) =>
          \/ Outlives(n, Head(inbox[n]).in) /\ Head(inbox[n]).combined
          \/ schedules[n] = {} /\ emissions[n] = {}
    BY DEF Awaiting
  <1>5. QED
    BY <1>1, <1>2, <1>3, <1>4 DEF EndInv, Burst

\* What the messages and photons of an end are.
LEMMA EndTypes ==
  ASSUME TypeOK, NEW n \in Node
  PROVE  /\ inbox[n] \in Seq(Notice) /\ fiber[n] \in Seq(FlyingPhoton)
         /\ tracker[n] \in Seq(Memory)
         /\ Len(tracker[n]) \in Nat /\ Len(fiber[n]) \in Nat
         /\ tracker[n] = <<>> <=> Len(tracker[n]) = 0
         /\ inbox[n] # <<>> => /\ Head(inbox[n]) \in Notice
                               /\ Head(inbox[n]).in \in Nat
                               /\ Head(inbox[n]).failed \in Seq(BOOLEAN)
                               /\ Len(Head(inbox[n]).failed) \in Nat
         /\ \A i \in 1 .. Len(fiber[n]) : /\ fiber[n][i] \in FlyingPhoton
                                          /\ fiber[n][i].in \in Nat
         /\ \A s \in schedules[n] : s.in \in Nat /\ s.trial \in Trial
         /\ \A e \in emissions[n] : e.in \in Nat /\ e.trial \in Trial
  <1>1. /\ inbox[n] \in Seq(Notice) /\ fiber[n] \in Seq(FlyingPhoton)
        /\ tracker[n] \in Seq(Memory)
    BY DEF TypeOK, HoMTypeOK, EmissionTypeOK
  <1>2. inbox[n] # <<>> => Head(inbox[n]) \in Notice
    BY <1>1
  <1>3. \A i \in 1 .. Len(fiber[n]) : fiber[n][i] \in FlyingPhoton
    BY <1>1, ElementOfSeq
  <1>4. /\ \A s \in schedules[n] : s.in \in Nat /\ s.trial \in Trial
        /\ \A e \in emissions[n] : e.in \in Nat /\ e.trial \in Trial
    BY RequestTypes DEF TypeOK, ScheduleMsg, EmitMsg
  <1>5. \A y \in Notice : /\ y.in \in Nat /\ y.failed \in Seq(BOOLEAN)
                          /\ Len(y.failed) \in Nat
    BY DEF Notice
  <1>6. \A y \in FlyingPhoton : y.in \in Nat
    BY DEF FlyingPhoton
  <1>7. /\ Len(tracker[n]) \in Nat /\ Len(fiber[n]) \in Nat
        /\ tracker[n] = <<>> <=> Len(tracker[n]) = 0
    BY <1>1, EmptySeq
  <1>8. QED
    BY <1>1, <1>2, <1>3, <1>4, <1>5, <1>6, <1>7

\* The self-messages of an end keep it in time.
LEMMA ScheduleKeepsEnd ==
  ASSUME TypeOK, NEW n \in Node, NEW a \in Int, NEW c \in Nat, NEW o \in Nat,
         EndInv(n, a, c, o), Schedule(n)
  PROVE  EndInv(n, a, c, o)'
  <1>1. /\ tracker' = tracker /\ trial' = trial
        /\ lastDetected' = lastDetected /\ inbox' = inbox /\ fiber' = fiber
        /\ trialDone' = trialDone /\ reports' = reports
    BY DEF Schedule, DropSchedule, EndBurst, ShootPhoton, DropEmission,
       analyzerVars, homVars
  <1>2. Calm(n) /\ fiber'[n] = fiber[n]
    BY <1>1 DEF Calm
  <1>3. InFiber(n, a, c, o)'
    BY <1>2, FiberKept DEF EndInv
  <1>4. Marked(n, o)' <=> Marked(n, o)
    BY <1>1 DEF Marked, LastMarked, Concluded
  <1>5. Burst(n) /\ (inbox[n] # <<>> => Head(inbox[n]).combined)
    <2>1. schedules[n] \cup emissions[n] # {}
      BY DEF Schedule, DropSchedule, EndBurst, ShootPhoton, DropEmission,
         DueSchedules, DueEmissions
    <2>2. QED
      BY <2>1, EndBursts
  <1>6. ASSUME inbox[n] # <<>>,
               Outlives(n, Head(inbox[n]).in) => Outlives(n, Head(inbox[n]).in)',
               Stale(n, a)'
        PROVE  EndInv(n, a, c, o)'
    <2>1. Awaiting(n, a)'
      BY <1>2, <1>5, <1>6, AwaitingKept DEF EndInv
    <2>2. QED
      BY <1>1, <1>3, <1>6, <2>1 DEF EndInv
  <1>7. ASSUME inbox[n] = <<>>, Running(n, a, o)', Stale(n, a)'
        PROVE  EndInv(n, a, c, o)'
    BY <1>1, <1>3, <1>7 DEF EndInv
  <1>8. CASE DropSchedule(n) \/ DropEmission(n)
    <2>1. /\ schedules'[n] \subseteq schedules[n]
          /\ emissions'[n] \subseteq emissions[n]
      BY <1>8 DEF DropSchedule, DropEmission, TypeOK, EmissionTypeOK
    <2>2. Stale(n, a)'
      BY <1>2, <2>1, StaleKept DEF EndInv
    <2>3. /\ BurstOver(n) => BurstOver(n)'
          /\ BurstDue(n) => BurstDue(n)'
          /\ \A x \in Nat : BurstRuns(n, x) => BurstRuns(n, x)'
      BY <1>8, DropKeepsBurst
    <2>4. \A left : Outlives(n, left) => Outlives(n, left)'
      BY <2>3 DEF Outlives
    <2>5. Free(n, busy)' = Free(n, busy)
      BY <1>8 DEF DropSchedule, DropEmission, Free
    <2>6. Running(n, a, o) => Running(n, a, o)'
      BY <1>1, <1>4, <2>3, <2>5 DEF Running
    <2>7. QED
      BY <1>1, <1>6, <1>7, <2>2, <2>4, <2>6 DEF EndInv
  <1>9. CASE EndBurst(n)
    <2>1. BurstDue(n) /\ BurstOver(n)'
      BY <1>5, <1>9, EndKeepsBurst
    <2>2. /\ schedules'[n] \subseteq schedules[n]
          /\ emissions'[n] \subseteq emissions[n]
      BY <1>9 DEF EndBurst, TypeOK, EmissionTypeOK
    <2>3. Stale(n, a)'
      BY <1>2, <2>2, StaleKept DEF EndInv
    <2>4. \A left : Outlives(n, left)'
      BY <2>1 DEF Outlives
    <2>5. ~ BurstOver(n) /\ \A x \in Nat : ~ BurstRuns(n, x)
      BY <2>1 DEF BurstOver, BurstDue, BurstRuns, Planned, Plans, Asks
    <2>6. Free(n, busy) = {} /\ tracker[n] # <<>>
      BY <1>9, <2>1 DEF EndBurst, BurstDue
    <2>7. Running(n, a, o) => Running(n, a, o)'
      BY <1>1, <1>4, <2>1, <2>5, <2>6 DEF Running
    <2>8. QED
      BY <1>1, <1>6, <1>7, <2>3, <2>4, <2>7 DEF EndInv
  <1>10. CASE ShootPhoton(n)
    <2>1. PICK wait \in Nat :
            /\ BurstDue(n) /\ BurstRuns(n, wait)'
            /\ wait = IF tracker[n] = <<>> THEN StartTiming(n) ELSE Interval
      BY <1>5, <1>10, ShootKeepsBurst
    <2>2. /\ Len(tracker[n]) \in Nat
          /\ tracker[n] = <<>> <=> Len(tracker[n]) = 0
      BY EndTypes
    <2>3. Stale(n, a)'
      <3>1. \A s \in schedules'[n] : s \in schedules[n] \/ s.trial = trial[n]
        <4>1. PICK s \in DueSchedules(n), m \in MemoryOf(n) :
                LET pause == IF s.first THEN s.timing ELSE Interval
                IN  /\ ~ Outdated(n, s)
                    /\ schedules' = [schedules EXCEPT ![n] = (@ \ {s}) \cup
                         {[s EXCEPT !.in = pause, !.first = FALSE]}]
          BY <1>10 DEF ShootPhoton
        <4>2. s \in ScheduleMsg /\ s.trial = trial[n]
          BY <4>1, RequestTypes DEF Outdated, DueSchedules, TypeOK
        <4>3. \A w : [s EXCEPT !.in = w, !.first = FALSE].trial = trial[n]
          BY <4>2 DEF ScheduleMsg
        <4>4. QED
          BY <4>1, <4>3 DEF TypeOK, EmissionTypeOK
      <3>2. \A e \in emissions'[n] : e \in emissions[n] \/ e.trial = trial[n]
        BY <1>10 DEF ShootPhoton, Outdated, TypeOK, EmissionTypeOK
      <3>3. QED
        BY <1>2, <3>1, <3>2, StaleKept DEF EndInv
    <2>4. ~ BurstOver(n) /\ \A x \in Nat : ~ BurstRuns(n, x)
      BY <2>1 DEF BurstOver, BurstDue, BurstRuns, Planned, Plans, Asks
    <2>5. CASE inbox[n] = <<>>
      <3>1. Running(n, a, o)
        BY <2>5 DEF EndInv
      <3>2. /\ a <= Lead - Delay[n]
            /\ tracker[n] = <<>> => a = Lead - Delay[n]
            /\ tracker[n] # <<>> => Slot(a, Len(tracker[n])) = Delay[n]
        BY <2>4, <3>1 DEF Running
      <3>3. wait + Delay[n] = Slot(a, Len(tracker[n]) + 1)
        <4>1. CASE tracker[n] = <<>>
          <5>1. Slot(a, Len(tracker[n]) + 1) = a
            BY <2>2, <4>1, Slots
          <5>2. QED
            BY <2>1, <3>2, <4>1, <5>1, Parameters, SMTT(30)
        <4>2. CASE tracker[n] # <<>>
          <5>1. Slot(a, Len(tracker[n]) + 1) = Delay[n] + Interval
            <6>1. Slot(a, Len(tracker[n]) + 1) = Slot(a, Len(tracker[n])) + Interval
              BY <2>2, Slots
            <6>2. QED
              BY <3>2, <4>2, <6>1
          <5>2. QED
            BY <2>1, <4>2, <5>1, Parameters
        <4>3. QED
          BY <4>1, <4>2
      <3>4. Running(n, a, o)'
        BY <1>1, <2>1, <3>2, <3>3 DEF Running
      <3>5. QED
        BY <1>7, <2>3, <2>5, <3>4
    <2>6. CASE inbox[n] # <<>>
      <3>1. PICK left \in Nat : left = Head(inbox[n]).in
        BY <2>6, EndTypes
      <3>2. /\ Outlives(n, left)
            /\ Len(Head(inbox[n]).failed) <= Len(tracker[n])
            /\ Len(Head(inbox[n]).failed) >= 1
        BY <1>5, <2>6, <3>1 DEF EndInv, Awaiting
      <3>3. tracker[n] # <<>>
        BY <2>6, <3>2, EndTypes, SMTT(30)
      <3>4. Slack(n, left)
        BY <2>4, <3>2 DEF Outlives
      <3>5. Slack(n, left - Interval)
        <4>1. ASSUME Off(left) PROVE Off(left - 1 * Interval)
          BY <3>1, <4>1, OffShift
        <4>2. 1 * Interval = Interval
          BY Parameters
        <4>3. QED
          BY <3>4, <4>1, <4>2 DEF Slack
      <3>6. wait = Interval /\ wait > 0
        BY <2>1, <3>3, Parameters
      <3>7. Outlives(n, left)'
        BY <2>1, <3>5, <3>6 DEF Outlives, Slack
      <3>8. Outlives(n, Head(inbox[n]).in)'
        BY <1>1, <3>1, <3>7
      <3>9. QED
        BY <1>6, <2>3, <2>6, <3>8
    <2>7. QED
      BY <2>5, <2>6
  <1>11. QED
    BY <1>8, <1>9, <1>10 DEF Schedule

\* A photon departs in time.
LEMMA EmitKeepsEnd ==
  ASSUME TypeOK, NEW n \in Node, NEW a \in Int, NEW c \in Nat, NEW o \in Nat,
         EndInv(n, a, c, o), EmitPhoton(n)
  PROVE  /\ inbox[n] = <<>> => EndInv(n, a, c, o)'
         /\ inbox[n] # <<>> => EndInv(n, a, c, o + 1)'
  <1>1. PICK e \in emissions[n], jitter \in 0 .. Jitter :
          /\ Emit(n, e)
          /\ fiber' = [fiber EXCEPT ![n] = Append(@,
               [in |-> Delay[n] + jitter, qubit |-> e.qubit,
                first |-> e.first, last |-> e.last])]
    BY DEF EmitPhoton
  <1> DEFINE photon == [in |-> Delay[n] + jitter, qubit |-> e.qubit,
                        first |-> e.first, last |-> e.last]
  <1>0. PICK k \in Nat, l \in Nat : k = Len(fiber[n]) /\ l = Len(tracker[n])
    BY EndTypes
  <1>2. /\ e \in EmitMsg /\ Delay[n] + jitter \in Nat /\ jitter \in Nat
        /\ jitter <= Jitter
    BY RequestTypes, Parameters, SMTT(30) DEF TypeOK
  <1>3. /\ photon.in = Delay[n] + jitter /\ photon.qubit = e.qubit
        /\ photon.first = e.first /\ photon.last = e.last
        /\ photon \in FlyingPhoton
    BY <1>2 DEF EmitMsg, FlyingPhoton
  <1>4. /\ trial' = trial /\ inbox' = inbox /\ lastDetected' = lastDetected
        /\ trialDone' = trialDone /\ reports' = reports /\ busy' = busy
        /\ schedules' = schedules
        /\ emissions'[n] = emissions[n] \ {e}
        /\ tracker'[n] = Append(tracker[n], e.qubit)
        /\ fiber'[n] = Append(fiber[n], photon)
    BY <1>1 DEF EmitPhoton, Emit, analyzerVars, homVars, TypeOK, EmissionTypeOK
  <1>5. /\ Len(fiber'[n]) = k + 1 /\ k \in Nat
        /\ fiber'[n][k + 1] = photon
        /\ \A i \in 1 .. k : fiber'[n][i] = fiber[n][i]
        /\ Len(tracker'[n]) = l + 1 /\ l \in Nat
        /\ tracker'[n][l + 1] = e.qubit
        /\ \A i \in 1 .. l : tracker'[n][i] = tracker[n][i]
    <2>1. fiber[n] \in Seq(FlyingPhoton) /\ tracker[n] \in Seq(Memory)
      BY EndTypes
    <2>2. e.qubit \in Memory
      BY <1>2 DEF EmitMsg
    <2> HIDE DEF photon
    <2>3. QED
      BY <1>0, <1>3, <1>4, <2>1, <2>2, SMTT(30)
  <1> HIDE DEF photon
  <1>6. Burst(n) /\ (inbox[n] # <<>> => Head(inbox[n]).combined)
    BY EndBursts
  <1>7. /\ BurstRuns(n, 0) /\ Asks(n) = {e} /\ BurstDue(n)'
        /\ tracker'[n] # <<>>
    BY <1>1, <1>6, EmitKeepsBurst
  <1>8. ~ BurstOver(n) /\ ~ BurstDue(n)
    BY <1>7 DEF BurstOver, BurstDue
  <1>9. \A x \in Nat : BurstRuns(n, x) => x = 0
    BY <1>7 DEF BurstRuns
  <1>10. /\ e.first = (tracker[n] = <<>>) /\ (Free(n, busy) = {} => e.last)
    BY <1>7 DEF BurstRuns
  <1>11. Stale(n, a)'
    <2>1. Elapsed(n, a)' = Elapsed(n, a)
      BY <1>4 DEF Elapsed
    <2>2. \A t, left : Aged(n, a, t, left) => Aged(n, a, t, left)'
      BY <1>4, <2>1 DEF Aged
    <2>3. QED
      BY <1>4, <2>2 DEF Stale, EndInv
  <1>12. CASE inbox[n] = <<>>
    <2>1. Running(n, a, o) /\ InFiber(n, a, c, o)
      BY <1>12 DEF EndInv
    <2>2. a <= Lead - Delay[n] /\ Slot(a, l + 1) = Delay[n]
      <3>1. a <= Lead - Delay[n]
            /\ \E x \in Nat : BurstRuns(n, x) /\ x + Delay[n] = Slot(a, l + 1)
        BY <1>0, <1>8, <2>1 DEF Running
      <3>2. QED
        BY <1>9, <3>1, Parameters
    <2>3. o <= k /\ l = c + k - o
      BY <1>0, <1>12, <2>1 DEF InFiber
    <2>4. LastMarked(n, o)' = e.last
      <3>1. k + 1 > o
        BY <1>5, <2>3
      <3>2. QED
        BY <1>3, <1>5, <3>1 DEF LastMarked
    <2>5. Running(n, a, o)'
      <3>1. Slot(a, Len(tracker[n]))' = Delay[n]
        BY <1>5, <2>2
      <3>2. Free(n, busy)' = {} => Marked(n, o)'
        BY <1>4, <1>10, <2>4 DEF Marked, Free
      <3>3. QED
        BY <1>7, <2>2, <3>1, <3>2 DEF Running
    <2>6. InFiber(n, a, c, o)'
      <3>1. o <= k + 1 /\ l + 1 = c + (k + 1) - o
        BY <1>5, <2>3
      <3>2. \A i \in 1 .. o : fiber'[n][i].in < a /\ ~ fiber'[n][i].first
        <4>1. \A i \in 1 .. o : i \in 1 .. k
          BY <1>5, <2>3
        <4>2. QED
          BY <1>5, <2>1, <4>1 DEF InFiber
      <3>3. \A i \in (o + 1) .. (k + 1) :
              InSlot(n, a, fiber[n][i], c + i - o)'
        <4> SUFFICES ASSUME NEW i \in (o + 1) .. (k + 1)
                     PROVE  InSlot(n, a, fiber[n][i], c + i - o)'
          OBVIOUS
        <4>1. CASE i = k + 1
          <5>1. c + i - o = l + 1
            BY <1>5, <2>3, <4>1
          <5>2. (l + 1 = 1) <=> (tracker[n] = <<>>)
            BY <1>0, EndTypes
          <5>3. InSlot(n, a, fiber[n][i], l + 1)'
            <6>1. fiber'[n][i] = photon /\ tracker'[n][l + 1] = e.qubit
              BY <1>5, <4>1
            <6>2. /\ Slot(a, l + 1) <= photon.in
                  /\ photon.in <= Slot(a, l + 1) + Jitter
                  /\ Slot(a, l + 1) <= Delay[n]
              BY <1>2, <1>3, <2>2, Parameters
            <6>3. photon.first = (l + 1 = 1)
              BY <1>3, <1>10, <5>2
            <6>4. QED
              BY <1>3, <6>1, <6>2, <6>3 DEF InSlot
          <5>4. QED
            BY <5>1, <5>3
        <4>2. CASE i # k + 1
          <5>1. i \in (o + 1) .. k /\ i \in 1 .. k /\ c + i - o \in 1 .. l
            <6>1. \A x, y, z \in Nat : \A v \in Nat, w \in (z + 1) .. (x + 1) :
                    w # x + 1 /\ z <= x /\ y = v + x - z =>
                      /\ w \in (z + 1) .. x /\ w \in 1 .. x
                      /\ v + w - z \in 1 .. y
              OBVIOUS
            <6>2. QED
              BY <2>3, <4>2, <6>1, Zenon
          <5>2. InSlot(n, a, fiber[n][i], c + i - o)
            BY <1>0, <2>1, <5>1 DEF InFiber
          <5>3. fiber'[n][i] = fiber[n][i]
                /\ tracker'[n][c + i - o] = tracker[n][c + i - o]
            BY <1>5, <5>1
          <5>4. QED
            BY <5>2, <5>3 DEF InSlot
        <4>3. QED
          BY <4>1, <4>2
      <3>4. QED
        BY <1>4, <1>5, <1>12, <3>1, <3>2, <3>3 DEF InFiber
    <2>7. QED
      BY <1>4, <1>11, <1>12, <2>5, <2>6 DEF EndInv
  <1>13. CASE inbox[n] # <<>>
    <2>1. Awaiting(n, a) /\ InFiber(n, a, c, o)
      BY <1>13 DEF EndInv
    <2>2. PICK left \in Nat : left = Head(inbox[n]).in
      BY <1>13, EndTypes
    <2>3. Outlives(n, left) /\ a = left + Lead - Delay[n]
      BY <1>6, <1>13, <2>1, <2>2 DEF Awaiting
    <2>4. Delay[n] # 0 /\ Off(left)
      <3>1. PICK x \in Nat : /\ BurstRuns(n, x) /\ Slack(n, left - x)
                             /\ Delay[n] = 0 => x > 0
        BY <1>8, <2>3 DEF Outlives
      <3>2. x = 0 /\ left - x = left
        BY <1>9, <2>2, <3>1
      <3>3. QED
        BY <3>1, <3>2 DEF Slack
    <2>5. photon.in < a
      <3>1. Jitter < left
        BY <2>4, OffPositive
      <3>2. QED
        BY <1>2, <1>3, <2>3, <3>1, Parameters
    <2>6. Outlives(n, left)'
      BY <1>7, <2>4 DEF Outlives, Slack
    <2>7. Awaiting(n, a)'
      <3>1. Len(Head(inbox[n]).failed) <= l + 1
        BY <1>0, <1>5, <1>6, <1>13, <2>1, EndTypes, SMTT(30) DEF Awaiting
      <3>2. QED
        BY <1>4, <1>5, <1>6, <1>13, <2>1, <2>2, <2>6, <3>1 DEF Awaiting
    <2>8. InFiber(n, a, c, o + 1)'
      <3>1. c = 0 /\ o = k
        BY <1>0, <1>13, <2>1 DEF InFiber
      <3>2. Len(Head(inbox[n]).failed) >= 1
              /\ Len(Head(inbox[n]).failed) <= l
        BY <1>0, <1>6, <1>13, <2>1 DEF Awaiting
      <3>3. tracker[n] # <<>>
        BY <1>0, <1>13, <3>2, EndTypes, SMTT(30)
      <3>4. \A i \in 1 .. o + 1 : fiber'[n][i].in < a /\ ~ fiber'[n][i].first
        <4>1. \A i \in 1 .. k : fiber[n][i].in < a /\ ~ fiber[n][i].first
          BY <2>1, <3>1 DEF InFiber
        <4>2. \A i \in 1 .. o + 1 : i \in 1 .. k \/ i = k + 1
          BY <1>5, <3>1
        <4>3. ~ photon.first
          BY <1>3, <1>10, <3>3
        <4>4. QED
          BY <1>5, <2>5, <4>1, <4>2, <4>3
      <3>5. (o + 2) .. (k + 1) = {}
        BY <1>5, <3>1
      <3>6. o + 1 + 1 = o + 2
        OBVIOUS
      <3>7. QED
        BY <1>4, <1>5, <1>13, <3>1, <3>4, <3>5, <3>6 DEF InFiber
    <2>9. QED
      BY <1>4, <1>11, <1>13, <2>7, <2>8 DEF EndInv
  <1>14. QED
    BY <1>12, <1>13

\* What a tick does to the messages and photons of an end.
LEMMA TickEnd ==
  ASSUME TypeOK, NEW n \in Node, Tick
  PROVE  /\ tracker' = tracker /\ trial' = trial /\ busy' = busy
         /\ lastDetected' = lastDetected /\ trialDone' = trialDone
         /\ reports' = reports /\ reports = <<>>
         /\ Len(fiber'[n]) = Len(fiber[n]) /\ Len(inbox'[n]) = Len(inbox[n])
         /\ inbox'[n] = <<>> <=> inbox[n] = <<>>
         /\ \A i \in 1 .. Len(fiber[n]) :
              /\ fiber'[n][i].in = fiber[n][i].in - 1
              /\ fiber'[n][i].qubit = fiber[n][i].qubit
              /\ fiber'[n][i].first = fiber[n][i].first
              /\ fiber'[n][i].last = fiber[n][i].last
         /\ \A i \in 1 .. Len(inbox[n]) :
              /\ inbox[n][i].in > 0
              /\ inbox'[n][i].in = inbox[n][i].in - 1
              /\ inbox'[n][i].timing = inbox[n][i].timing
              /\ inbox'[n][i].combined = inbox[n][i].combined
              /\ inbox'[n][i].failed = inbox[n][i].failed
  <1>1. /\ tracker' = tracker /\ trial' = trial /\ busy' = busy
        /\ lastDetected' = lastDetected /\ trialDone' = trialDone
        /\ reports' = reports /\ reports = <<>>
        /\ fiber'[n] = [i \in 1 .. Len(fiber[n]) |-> Sooner(fiber[n][i])]
        /\ inbox'[n] = [i \in 1 .. Len(inbox[n]) |-> Sooner(inbox[n][i])]
        /\ \A i \in 1 .. Len(inbox[n]) : inbox[n][i].in > 0
    BY DEF Tick, Quiet
  <1>2. /\ Len(fiber[n]) \in Nat /\ Len(inbox[n]) \in Nat
        /\ inbox[n] \in Seq(Notice)
        /\ \A i \in 1 .. Len(fiber[n]) : fiber[n][i] \in FlyingPhoton
        /\ \A i \in 1 .. Len(inbox[n]) : inbox[n][i] \in Notice
    <2>1. inbox[n] \in Seq(Notice) /\ fiber[n] \in Seq(FlyingPhoton)
      BY EndTypes
    <2>2. QED
      BY <2>1, ElementOfSeq
  <1>3. \A f \in FlyingPhoton : /\ Sooner(f).in = f.in - 1
                                /\ Sooner(f).qubit = f.qubit
                                /\ Sooner(f).first = f.first
                                /\ Sooner(f).last = f.last
    BY DEF Sooner, FlyingPhoton
  <1>4. \A y \in Notice : /\ Sooner(y).in = y.in - 1
                          /\ Sooner(y).timing = y.timing
                          /\ Sooner(y).combined = y.combined
                          /\ Sooner(y).failed = y.failed
    BY DEF Sooner, Notice
  <1>5. Len(fiber'[n]) = Len(fiber[n]) /\ Len(inbox'[n]) = Len(inbox[n])
    BY <1>1, <1>2
  <1>6. inbox'[n] = <<>> <=> inbox[n] = <<>>
    <2>1. inbox[n] = <<>> <=> Len(inbox[n]) = 0
      BY <1>2, EmptySeq
    <2>2. Len(inbox[n]) = 0 => inbox'[n] = <<>>
      BY <1>1
    <2>3. inbox'[n] = <<>> => Len(inbox'[n]) = 0
      OBVIOUS
    <2>4. QED
      BY <1>5, <2>1, <2>2, <2>3
  <1>7. QED
    BY <1>1, <1>2, <1>3, <1>4, <1>5, <1>6

\* Time passes for what an end has on its way and for what it has planned.
LEMMA TickKeepsEnd ==
  ASSUME TypeOK, NEW n \in Node, NEW a \in Int, NEW c \in Nat, NEW o \in Nat,
         EndInv(n, a, c, o), Tick
  PROVE  EndInv(n, a - 1, c, o)'
  <1>0. PICK k \in Nat, l \in Nat : k = Len(fiber[n]) /\ l = Len(tracker[n])
    BY EndTypes
  <1>p. /\ Delay[n] \in Nat /\ Lead \in Nat /\ Delay[n] <= Lead
        /\ Interval \in Nat /\ Jitter \in Nat /\ TrialWrap \in Nat
    BY Parameters
  <1>1. /\ tracker' = tracker /\ trial' = trial /\ busy' = busy
        /\ lastDetected' = lastDetected /\ ~ Concluded
        /\ Len(fiber'[n]) = k /\ Len(inbox'[n]) = Len(inbox[n])
        /\ inbox'[n] = <<>> <=> inbox[n] = <<>>
    BY <1>0, TickEnd DEF Concluded
  <1>2. \A i \in 1 .. k :
          /\ fiber'[n][i].in = fiber[n][i].in - 1
          /\ fiber'[n][i].qubit = fiber[n][i].qubit
          /\ fiber'[n][i].first = fiber[n][i].first
          /\ fiber'[n][i].last = fiber[n][i].last
          /\ fiber[n][i].in \in Nat
    BY <1>0, TickEnd, EndTypes
  <1>3. /\ ~ BurstDue(n)
        /\ BurstOver(n) => BurstOver(n)'
        /\ \A x \in Nat : BurstRuns(n, x) => x > 0 /\ BurstRuns(n, x - 1)'
    BY TickKeepsBurst
  <1>4. \A j \in Nat : Slot(a, j) \in Int /\ Slot(a - 1, j) = Slot(a, j) - 1
    BY Slots
  <1>5. inbox[n] # <<>> =>
          /\ Len(inbox[n]) = 1
          /\ Head(inbox[n]).in \in Nat /\ Head(inbox[n]).in > 0
          /\ Head(inbox'[n]).in = Head(inbox[n]).in - 1
          /\ Head(inbox'[n]).timing = Head(inbox[n]).timing
          /\ Head(inbox'[n]).combined = Head(inbox[n]).combined
          /\ Head(inbox'[n]).failed = Head(inbox[n]).failed
    <2> SUFFICES ASSUME inbox[n] # <<>>
                 PROVE  /\ Len(inbox[n]) = 1
                        /\ Head(inbox[n]).in \in Nat /\ Head(inbox[n]).in > 0
                        /\ Head(inbox'[n]).in = Head(inbox[n]).in - 1
                        /\ Head(inbox'[n]).timing = Head(inbox[n]).timing
                        /\ Head(inbox'[n]).combined = Head(inbox[n]).combined
                        /\ Head(inbox'[n]).failed = Head(inbox[n]).failed
      OBVIOUS
    <2>1. Len(inbox[n]) = 1 /\ 1 \in 1 .. Len(inbox[n])
      BY DEF EndInv, Awaiting
    <2>2. Head(inbox[n]) = inbox[n][1]
      BY EndTypes
    <2>3. Head(inbox'[n]) = inbox'[n][1]
      <3>1. inbox' \in [Node -> Seq(Notice)]
        BY TickTypeOK DEF TypeOK, HoMTypeOK
      <3>2. inbox'[n] \in Seq(Notice)
        BY <3>1
      <3>3. QED
        BY <1>1, <3>2
    <2>4. QED
      BY <2>1, <2>2, <2>3, TickEnd, EndTypes
  <1>6. Running(n, a, o) => Running(n, a - 1, o)'
    <2> SUFFICES ASSUME Running(n, a, o) PROVE Running(n, a - 1, o)'
      OBVIOUS
    <2>1. a - 1 <= Lead - Delay[n]
      BY <1>p DEF Running
    <2>2. CASE BurstOver(n) /\ (tracker[n] # <<>> => Marked(n, o))
      <3>1. LastMarked(n, o) => LastMarked(n, o)'
        <4>1. CASE k > o
          <5>1. k \in 1 .. k
            BY <4>1
          <5>2. fiber'[n][k].last = fiber[n][k].last
            BY <1>2, <5>1
          <5>3. QED
            BY <1>0, <1>1, <4>1, <5>2 DEF LastMarked
        <4>2. CASE ~ (k > o)
          BY <1>0, <1>1, <4>2 DEF LastMarked
        <4>3. QED
          BY <4>1, <4>2
      <3>2. QED
        BY <1>1, <1>3, <2>1, <2>2, <3>1 DEF Running, Marked
    <2>3. ASSUME NEW x \in Nat, BurstRuns(n, x),
                 x + Delay[n] = Slot(a, Len(tracker[n]) + 1)
          PROVE  Running(n, a - 1, o)'
      <3>1. x - 1 \in Nat /\ BurstRuns(n, x - 1)'
        BY <1>3, <2>3
      <3>2. (x - 1) + Delay[n] = Slot(a - 1, l + 1)
        <4>1. Slot(a - 1, l + 1) = Slot(a, l + 1) - 1 /\ Slot(a, l + 1) \in Int
          BY <1>4
        <4>2. QED
          BY <1>0, <1>p, <2>3, <4>1, SMTT(30)
      <3>3. QED
        BY <1>0, <1>1, <2>1, <3>1, <3>2 DEF Running
    <2>4. QED
      BY <1>3, <2>2, <2>3 DEF Running
  <1>7. inbox[n] # <<>> => Awaiting(n, a - 1)'
    <2> SUFFICES ASSUME inbox[n] # <<>> PROVE Awaiting(n, a - 1)'
      OBVIOUS
    <2>1. Awaiting(n, a)
      BY DEF EndInv
    <2>2. PICK left \in Nat : left = Head(inbox[n]).in /\ left > 0
      BY <1>5
    <2>3. Delay[n] # 0 /\ a = left + Lead - Delay[n]
      BY <2>1, <2>2, <1>p DEF Awaiting
    <2>7. /\ Head(inbox'[n]).in = left - 1
          /\ left - 1 <= Delay[n] /\ a - 1 = (left - 1) + Lead - Delay[n]
          /\ Len(inbox'[n]) = 1 /\ Head(inbox'[n]).timing = StartTiming(n)
          /\ Head(inbox'[n]).combined = Head(inbox[n]).combined
          /\ Head(inbox'[n]).failed = Head(inbox[n]).failed
      <3>1. left <= Delay[n] /\ Head(inbox[n]).timing = StartTiming(n)
        BY <2>1, <2>2 DEF Awaiting
      <3>2. left - 1 <= Delay[n] /\ a - 1 = (left - 1) + Lead - Delay[n]
        BY <1>p, <2>3, <3>1, SMTT(30)
      <3>3. QED
        BY <1>1, <1>5, <2>2, <3>1, <3>2
    <2>4. CASE Head(inbox[n]).combined
      <3>1. Outlives(n, left)
        BY <2>1, <2>2, <2>4 DEF Awaiting
      <3>2. Outlives(n, left - 1)'
        <4>1. ASSUME NEW x \in Nat, BurstRuns(n, x), Slack(n, left - x)
              PROVE  Outlives(n, left - 1)'
          <5>1. x - 1 \in Nat /\ BurstRuns(n, x - 1)'
            BY <1>3, <4>1
          <5>2. (left - 1) - (x - 1) = left - x
            OBVIOUS
          <5>3. QED
            BY <2>3, <4>1, <5>1, <5>2 DEF Outlives, Slack
        <4>2. QED
          BY <1>3, <3>1, <4>1 DEF Outlives
      <3>3. QED
        <4>1. /\ Len(Head(inbox[n]).failed) >= 1
              /\ Len(Head(inbox[n]).failed) <= Len(tracker[n])
          BY <2>1, <2>4 DEF Awaiting
        <4>2. QED
          BY <1>1, <2>4, <2>7, <3>2, <4>1 DEF Awaiting
    <2>5. CASE ~ Head(inbox[n]).combined
      <3>1. /\ tracker[n] = <<>> /\ fiber[n] = <<>>
            /\ schedules[n] = {} /\ emissions[n] = {}
        BY <2>1, <2>5 DEF Awaiting
      <3>2. schedules'[n] = {} /\ emissions'[n] = {} /\ fiber'[n] = <<>>
        BY <3>1 DEF Tick
      <3>3. QED
        BY <1>1, <2>5, <2>7, <3>1, <3>2 DEF Awaiting
    <2>6. QED
      BY <2>4, <2>5
  <1>8. InFiber(n, a - 1, c, o)'
    <2>1. /\ o <= k
          /\ IF inbox[n] = <<>> THEN l = c + k - o ELSE c = 0 /\ o = k
          /\ \A i \in 1 .. o : fiber[n][i].in < a /\ ~ fiber[n][i].first
          /\ \A i \in (o + 1) .. k : InSlot(n, a, fiber[n][i], c + i - o)
      BY <1>0 DEF EndInv, InFiber
    <2>2. \A i \in 1 .. o : fiber'[n][i].in < a - 1 /\ ~ fiber'[n][i].first
      <3> SUFFICES ASSUME NEW i \in 1 .. o
                   PROVE  fiber'[n][i].in < a - 1 /\ ~ fiber'[n][i].first
        OBVIOUS
      <3>1. i \in 1 .. k
        BY <2>1
      <3>2. QED
        BY <1>2, <2>1, <3>1
    <2>3. \A i \in (o + 1) .. k : InSlot(n, a - 1, fiber[n][i], c + i - o)'
      <3> SUFFICES ASSUME NEW i \in (o + 1) .. k
                   PROVE  InSlot(n, a - 1, fiber[n][i], c + i - o)'
        OBVIOUS
      <3>1. i \in 1 .. k
        OBVIOUS
      <3>2. PICK j \in Nat : j = c + i - o
        OBVIOUS
      <3>3. InSlot(n, a, fiber[n][i], j)
        BY <2>1, <3>2
      <3>4. Slot(a - 1, j) = Slot(a, j) - 1 /\ Slot(a, j) \in Int
        BY <1>4
      <3>5. /\ fiber'[n][i].in = fiber[n][i].in - 1
            /\ fiber'[n][i].qubit = fiber[n][i].qubit
            /\ fiber'[n][i].first = fiber[n][i].first
            /\ fiber[n][i].in \in Nat
        BY <1>2, <3>1
      <3>6. /\ Slot(a - 1, j) <= fiber'[n][i].in
            /\ fiber'[n][i].in <= Slot(a - 1, j) + Jitter
            /\ Slot(a - 1, j) <= Delay[n]
        BY <1>p, <3>3, <3>4, <3>5 DEF InSlot
      <3>7. QED
        BY <1>1, <3>2, <3>3, <3>5, <3>6 DEF InSlot
    <2>4. QED
      BY <1>0, <1>1, <2>1, <2>2, <2>3 DEF InFiber
  <1>9. Stale(n, a - 1)'
    <2>1. /\ schedules'[n] = {Sooner(s) : s \in schedules[n]}
          /\ emissions'[n] = {Sooner(e) : e \in emissions[n]}
      BY DEF Tick
    <2>2. /\ \A s \in schedules[n] : /\ Sooner(s).in = s.in - 1 /\ s.in \in Nat
                                     /\ Sooner(s).trial = s.trial
          /\ \A e \in emissions[n] : /\ Sooner(e).in = e.in - 1 /\ e.in \in Nat
                                     /\ Sooner(e).trial = e.trial
      BY RequestTypes DEF Sooner, TypeOK, ScheduleMsg, EmitMsg
    <2>3. Elapsed(n, a) \in Int /\ Elapsed(n, a - 1)' = Elapsed(n, a) + 1
      <3>1. CASE inbox[n] = <<>>
        BY <1>1, <1>p, <3>1 DEF Elapsed
      <3>2. CASE inbox[n] # <<>>
        <4>1. PICK left \in Nat :
                left = Head(inbox[n]).in /\ Head(inbox'[n]).in = left - 1
          BY <1>5, <3>2
        <4>2. Elapsed(n, a) = Lead - left
          BY <3>2, <4>1 DEF Elapsed
        <4>3. Elapsed(n, a - 1)' = Lead - (left - 1)
          BY <1>1, <3>2, <4>1 DEF Elapsed
        <4>4. QED
          BY <1>p, <4>2, <4>3
      <3>3. QED
        BY <3>1, <3>2
    <2>4. ASSUME NEW t, NEW left \in Nat, Aged(n, a, t, left)
          PROVE  Aged(n, a - 1, t, left - 1)'
      <3>1. PICK d \in Nat :
              /\ d >= 1 /\ d < TrialWrap
              /\ trial[n] = t + d \/ trial[n] = t + d - TrialWrap
              /\ left <= Interval - (d - 1) * Lead - Elapsed(n, a)
        BY <2>4 DEF Aged
      <3>2. (d - 1) * Lead \in Int
        BY <1>p
      <3>3. left - 1 <= Interval - (d - 1) * Lead - (Elapsed(n, a) + 1)
        BY <2>3, <3>1, <3>2, <1>p
      <3>4. QED
        BY <1>1, <2>3, <3>1, <3>3 DEF Aged
    <2>5. Stale(n, a)
      BY DEF EndInv
    <2>6. QED
      BY <1>1, <2>1, <2>2, <2>4, <2>5 DEF Stale
  <1>10. QED
    BY <1>1, <1>6, <1>7, <1>8, <1>9 DEF EndInv

\* A message is due: the burst of an earlier trial is out of its way, and the
\* first photons of the new trial are as far as they can be.
LEMMA DueEnd ==
  ASSUME TypeOK, NEW n \in Node, NEW a \in Int, NEW c \in Nat, NEW o \in Nat,
         EndInv(n, a, c, o), MessageDue(n), Deliver(n)
  PROVE  /\ inbox[n] # <<>> /\ inbox'[n] = <<>>
         /\ a = Lead - Delay[n] /\ Elapsed(n, a) = Lead /\ Elapsed(n, a)' = 0
         /\ Head(inbox[n]).timing = StartTiming(n)
         /\ c = 0 /\ o = Len(fiber[n])
         /\ \A i \in 1 .. o : fiber[n][i].in < a /\ ~ fiber[n][i].first
  <1>p. Delay[n] \in Nat /\ Lead \in Nat
    BY Parameters
  <1>1. inbox[n] # <<>> /\ Head(inbox[n]).in = 0 /\ Awaiting(n, a)
    BY DEF MessageDue, EndInv
  <1>2. inbox[n] \in Seq(Notice) /\ Len(inbox[n]) = 1
    BY <1>1, EndTypes DEF Awaiting
  <1>3. inbox'[n] = <<>>
    <2>1. inbox'[n] = Tail(inbox[n])
      BY DEF Deliver, TypeOK, HoMTypeOK
    <2>2. Tail(inbox[n]) \in Seq(Notice) /\ Len(Tail(inbox[n])) = 0
      BY <1>1, <1>2
    <2>3. QED
      BY <2>1, <2>2, EmptySeq
  <1>4. a = Lead - Delay[n]
    <2>1. a = 0 + Lead - Delay[n]
      BY <1>1 DEF Awaiting
    <2>2. QED
      BY <1>p, <2>1
  <1>5. Elapsed(n, a) = Lead /\ Elapsed(n, a)' = 0
    <2>1. Elapsed(n, a) = Lead - 0
      BY <1>1 DEF Elapsed
    <2>2. Elapsed(n, a)' = Lead - Delay[n] - a
      BY <1>3 DEF Elapsed
    <2>3. QED
      BY <1>p, <1>4, <2>1, <2>2
  <1>6. /\ c = 0 /\ o = Len(fiber[n])
        /\ \A i \in 1 .. o : fiber[n][i].in < a /\ ~ fiber[n][i].first
    BY <1>1 DEF EndInv, InFiber
  <1>7. QED
    BY <1>1, <1>3, <1>4, <1>5, <1>6 DEF Awaiting

\* A new trial of n, as far as the photons on their way are concerned.
LEMMA NewTrialEnd ==
  ASSUME TypeOK, NEW n \in Node, NEW a \in Int, NEW c \in Nat, NEW o \in Nat,
         inbox'[n] = <<>>, fiber'[n] = fiber[n], tracker'[n] = <<>>,
         a = Lead - Delay[n], c = 0, o = Len(fiber[n]),
         \A i \in 1 .. o : fiber[n][i].in < a /\ ~ fiber[n][i].first,
         BurstOver(n)' \/ BurstDue(n)', Stale(n, a)'
  PROVE  EndInv(n, a, c, o)'
  <1>1. Running(n, a, o)'
    <2>1. a <= Lead - Delay[n]
      BY Parameters
    <2>2. QED
      BY <2>1 DEF Running
  <1>2. InFiber(n, a, c, o)'
    <2>1. (o + 1) .. Len(fiber[n]) = {}
      OBVIOUS
    <2>2. Len(tracker[n])' = c + Len(fiber[n]) - o
      OBVIOUS
    <2>3. QED
      BY <2>1, <2>2 DEF InFiber
  <1>3. QED
    BY <1>1, <1>2 DEF EndInv

\* The first trial starts in time.
LEMMA ReceiveTimingKeepsEnd ==
  ASSUME TypeOK, NEW n \in Node, NEW a \in Int, NEW c \in Nat, NEW o \in Nat,
         EndInv(n, a, c, o), ReceiveTiming(n)
  PROVE  EndInv(n, a, c, o)'
  <1>1. /\ MessageDue(n) /\ Deliver(n) /\ ~ Head(inbox[n]).combined
        /\ StartTrial(n, Head(inbox[n]).timing)
        /\ fiber' = fiber /\ busy' = busy /\ trial' = trial
        /\ tracker' = tracker /\ emissions' = emissions
    BY DEF ReceiveTiming, StartTrial
  <1>2. /\ inbox[n] # <<>> /\ inbox'[n] = <<>> /\ a = Lead - Delay[n]
        /\ Head(inbox[n]).timing = StartTiming(n)
        /\ c = 0 /\ o = Len(fiber[n])
        /\ \A i \in 1 .. o : fiber[n][i].in < a /\ ~ fiber[n][i].first
    BY <1>1, DueEnd
  <1>3. /\ tracker[n] = <<>> /\ schedules[n] = {} /\ emissions[n] = {}
    BY <1>1, <1>2 DEF EndInv, Awaiting
  <1>4. schedules'[n] = {} \cup
          {s \in {[in |-> 0, trial |-> trial'[n],
                   timing |-> Head(inbox[n]).timing, first |-> TRUE]} :
             Free(n, busy') # {}}
    BY <1>1, <1>3 DEF StartTrial, ScheduleFirst, TypeOK, EmissionTypeOK
  <1>5. BurstOver(n)' \/ BurstDue(n)'
    <2>1. PICK timing : timing = Head(inbox[n]).timing
      OBVIOUS
    <2>2. TypeOK'
      BY NextTypeOK DEF Next, Event
    <2>3. trial[n]' \in Trial
      BY <2>2 DEF TypeOK, EmissionTypeOK
    <2>4. QED
      BY <1>1, <1>2, <1>3, <1>4, <2>1, <2>2, <2>3, StartKeepsBurst
  <1>6. Stale(n, a)'
    <2>1. \A s \in schedules'[n] : s.trial = trial'[n]
      BY <1>4
    <2>2. QED
      BY <1>1, <1>3, <2>1 DEF Stale
  <1>7. QED
    BY <1>1, <1>2, <1>3, <1>5, <1>6, NewTrialEnd

\* A self-message some trials old is one trial older when a trial ends, and
\* never taken for one of the new trial.
LEMMA AgedNext ==
  ASSUME CounterWide, NEW t \in Trial, NEW u \in Trial, NEW left \in Nat,
         NEW d \in Nat, d < TrialWrap, u = t + d \/ u = t + d - TrialWrap,
         left <= Interval - d * Lead
  PROVE  /\ d + 1 < TrialWrap
         /\ NextTrial(u) = t + (d + 1) \/ NextTrial(u) = t + (d + 1) - TrialWrap
         /\ t # NextTrial(u)
  <1>p. /\ Interval \in Nat /\ TrialWrap \in Nat /\ Lead \in Nat
        /\ TrialWrap > 1
    BY Parameters
  <1>1. d + 1 < TrialWrap
    <2>1. CASE d = TrialWrap - 1
      <3>1. d * Lead = (TrialWrap - 1) * Lead
        BY <2>1
      <3>2. d * Lead \in Int /\ Interval < d * Lead
        BY <1>p, <3>1 DEF CounterWide
      <3>3. QED
        BY <1>p, <3>2
    <2>2. QED
      BY <1>p, <2>1
  <1>2. /\ t \in Nat /\ t < TrialWrap /\ u \in Nat /\ u < TrialWrap
        /\ NextTrial(u) = IF u + 1 = TrialWrap THEN 0 ELSE u + 1
    BY Counting
  <1>3. QED
    BY <1>p, <1>1, <1>2

\* The next trial of n starts in time, and every self-message of the trial
\* that is over is outdated.
LEMMA ReceiveResultsKeepsEnd ==
  ASSUME CounterWide, TypeOK, NEW n \in Node, NEW a \in Int, NEW c \in Nat,
         NEW o \in Nat, EndInv(n, a, c, o), ReceiveResults(n)
  PROVE  EndInv(n, a, c, o)'
  <1>p. /\ Interval \in Nat /\ TrialWrap \in Nat /\ Lead \in Nat
        /\ TrialWrap > 1
    BY Parameters
  <1>1. PICK consumed, timing :
          /\ timing = Head(inbox[n]).timing
          /\ MessageDue(n) /\ Deliver(n) /\ Head(inbox[n]).combined
          /\ EndTrial(n, timing, Head(inbox[n]).failed, consumed)
          /\ fiber' = fiber /\ emissions' = emissions
    BY DEF ReceiveResults, EndTrial
  <1>2. /\ inbox[n] # <<>> /\ inbox'[n] = <<>> /\ a = Lead - Delay[n]
        /\ Elapsed(n, a) = Lead /\ Elapsed(n, a)' = 0
        /\ timing = StartTiming(n)
        /\ c = 0 /\ o = Len(fiber[n])
        /\ \A i \in 1 .. o : fiber[n][i].in < a /\ ~ fiber[n][i].first
    BY <1>1, DueEnd
  <1>3. /\ tracker'[n] = <<>> /\ trial'[n] = NextTrial(trial[n])
        /\ \/ schedules'[n] = schedules[n]
           \/ schedules'[n] = schedules[n] \cup
                {s \in {[in |-> 0, trial |-> trial'[n], timing |-> timing,
                         first |-> TRUE]} : Free(n, busy') # {}}
    BY <1>1 DEF EndTrial, ScheduleFirst, TypeOK, EmissionTypeOK
  <1>4. trial[n] \in Trial /\ trial'[n] \in Trial
    BY <1>3, RequestTypes, NextTrialTyped DEF TypeOK
  <1>5. /\ Outlives(n, 0) /\ tracker[n] # <<>>
    <2>1. /\ Outlives(n, Head(inbox[n]).in) /\ Head(inbox[n]).in = 0
          /\ Len(Head(inbox[n]).failed) >= 1
          /\ Len(Head(inbox[n]).failed) <= Len(tracker[n])
      BY <1>1, <1>2 DEF EndInv, Awaiting, MessageDue
    <2>2. QED
      BY <1>2, <2>1, EndTypes
  <1>6. /\ \A s \in schedules[n] : s.trial = trial[n] => s.in <= Interval
        /\ \A e \in emissions[n] : e.trial = trial[n] => e.in <= Interval
    <2>1. CASE BurstOver(n)
      BY <2>1 DEF BurstOver, Plans, Asks
    <2>2. CASE BurstDue(n)
      BY <1>p, <2>2 DEF BurstDue, Planned, Plans, Asks
    <2>3. ASSUME NEW x \in Nat, BurstRuns(n, x)
          PROVE  /\ \A s \in Plans(n) : s.in <= Interval
                 /\ \A e \in Asks(n) : e.in <= Interval
      BY <1>5, <2>3 DEF BurstRuns, Planned
    <2>4. QED
      BY <1>5, <2>1, <2>2, <2>3 DEF Outlives, Plans, Asks
  <1>7. ASSUME NEW t \in Trial, NEW left \in Nat,
               t # trial[n] => Aged(n, a, t, left),
               t = trial[n] => left <= Interval
        PROVE  t # trial'[n] /\ Aged(n, a, t, left)'
    <2>1. PICK d \in Nat : /\ d < TrialWrap
                           /\ trial[n] = t + d \/ trial[n] = t + d - TrialWrap
                           /\ left <= Interval - d * Lead
      <3>1. CASE t = trial[n]
        <4>1. /\ 0 < TrialWrap /\ trial[n] = t + 0
              /\ left <= Interval - 0 * Lead
          BY <1>p, <1>4, <1>7, <3>1, Counting
        <4>2. QED
          BY <4>1
      <3>2. CASE t # trial[n]
        <4>1. PICK d \in Nat :
                /\ d >= 1 /\ d < TrialWrap
                /\ trial[n] = t + d \/ trial[n] = t + d - TrialWrap
                /\ left <= Interval - (d - 1) * Lead - Lead
          BY <1>2, <1>7, <3>2 DEF Aged
        <4>2. (d - 1) * Lead = d * Lead - Lead /\ d * Lead \in Int
          BY <1>p
        <4>3. left <= Interval - d * Lead
          BY <1>p, <4>1, <4>2
        <4>4. QED
          BY <4>1, <4>3
      <3>3. QED
        BY <3>1, <3>2
    <2>2. /\ d + 1 < TrialWrap /\ t # trial'[n]
          /\ trial'[n] = t + (d + 1) \/ trial'[n] = t + (d + 1) - TrialWrap
      BY <1>3, <1>4, <2>1, AgedNext
    <2>3. left <= Interval - ((d + 1) - 1) * Lead - 0
      <3>1. (d + 1) - 1 = d /\ d * Lead \in Int
        BY <1>p
      <3>2. QED
        BY <1>p, <2>1, <3>1
    <2>4. d + 1 \in Nat /\ d + 1 >= 1
      OBVIOUS
    <2>5. QED
      BY <1>2, <2>2, <2>3, <2>4 DEF Aged
  <1>8. /\ \A s \in schedules[n] :
             s.trial # trial'[n] /\ Aged(n, a, s.trial, s.in)'
        /\ \A e \in emissions[n] :
             e.trial # trial'[n] /\ Aged(n, a, e.trial, e.in)'
    <2>1. Stale(n, a)
      BY DEF EndInv
    <2>2. ASSUME NEW s \in schedules[n]
          PROVE  s.trial # trial'[n] /\ Aged(n, a, s.trial, s.in)'
      <3>1. s.trial \in Trial /\ s.in \in Nat
        BY EndTypes
      <3>2. PICK t \in Trial, left \in Nat : t = s.trial /\ left = s.in
        BY <3>1
      <3>3. QED
        BY <1>6, <1>7, <2>1, <3>2 DEF Stale
    <2>3. ASSUME NEW e \in emissions[n]
          PROVE  e.trial # trial'[n] /\ Aged(n, a, e.trial, e.in)'
      <3>1. e.trial \in Trial /\ e.in \in Nat
        BY EndTypes
      <3>2. PICK t \in Trial, left \in Nat : t = e.trial /\ left = e.in
        BY <3>1
      <3>3. QED
        BY <1>6, <1>7, <2>1, <3>2 DEF Stale
    <2>4. QED
      BY <2>2, <2>3
  <1>9. Stale(n, a)'
    <2>1. \A s \in schedules'[n] : s \in schedules[n] \/ s.trial = trial'[n]
      BY <1>3
    <2>2. QED
      BY <1>1, <1>8, <2>1 DEF Stale
  <1>10. BurstOver(n)' \/ BurstDue(n)'
    <2>1. TypeOK'
      BY ReceiveResultsTypeOK
    <2>2. QED
      BY <1>1, <1>2, <1>3, <1>4, <1>8, <2>1, StartKeepsBurst
  <1>11. QED
    BY <1>1, <1>2, <1>3, <1>9, <1>10, NewTrialEnd

\* The first photon on its way has arrived.
LEMMA ArriveKeepsEnd ==
  ASSUME TypeOK, NEW n \in Node, NEW a \in Int, NEW c \in Nat, NEW o \in Nat,
         EndInv(n, a, c, o), Calm(n), fiber[n] # <<>>,
         fiber'[n] = Tail(fiber[n]), busy' = busy,
         schedules'[n] = schedules[n], emissions'[n] = emissions[n],
         NEW c1 \in Nat, NEW o1 \in Nat,
         IF o > 0 THEN c1 = c /\ o1 = o - 1 ELSE c1 = c + 1 /\ o1 = 0,
         tracker[n] # <<>> /\ Marked(n, o) => Marked(n, o1)'
  PROVE  EndInv(n, a, c1, o1)'
  <1>0. PICK k \in Nat, l \in Nat : k = Len(fiber[n]) /\ l = Len(tracker[n])
    BY EndTypes
  <1>1. /\ k >= 1 /\ Len(fiber'[n]) = k - 1
        /\ \A i \in 1 .. k - 1 : fiber'[n][i] = fiber[n][i + 1]
    <2>1. fiber[n] \in Seq(FlyingPhoton)
      BY EndTypes
    <2>2. QED
      BY <1>0, <2>1
  <1>2. tracker'[n] = tracker[n] /\ inbox'[n] = inbox[n]
    BY DEF Calm
  <1>3. /\ inbox'[n] # <<>> => Awaiting(n, a)'
        /\ inbox'[n] = <<>> => Running(n, a, o1)'
    BY PaceKept
  <1>4. Stale(n, a)'
    BY StaleKept DEF EndInv
  <1>5. InFiber(n, a, c1, o1)'
    <2>1. /\ o <= k
          /\ IF inbox[n] = <<>> THEN l = c + k - o ELSE c = 0 /\ o = k
          /\ \A i \in 1 .. o : fiber[n][i].in < a /\ ~ fiber[n][i].first
          /\ \A i \in (o + 1) .. k : InSlot(n, a, fiber[n][i], c + i - o)
      BY <1>0 DEF EndInv, InFiber
    <2>2. /\ o1 <= k - 1
          /\ IF inbox[n] = <<>> THEN l = c1 + (k - 1) - o1
                                ELSE c1 = 0 /\ o1 = k - 1
      <3>1. CASE o > 0
        <4>1. c1 = c /\ o1 = o - 1
          BY <3>1
        <4>2. o1 <= k - 1 /\ c1 + (k - 1) - o1 = c + k - o
          BY <2>1, <4>1
        <4>3. QED
          BY <2>1, <4>1, <4>2
      <3>2. CASE o = 0
        <4>1. c1 = c + 1 /\ o1 = 0
          BY <3>2
        <4>2. o1 <= k - 1 /\ c1 + (k - 1) - o1 = c + k - o
          BY <1>1, <3>2, <4>1
        <4>3. inbox[n] = <<>>
          BY <1>1, <2>1, <3>2
        <4>4. QED
          BY <2>1, <4>2, <4>3
      <3>3. QED
        BY <3>1, <3>2
    <2>3. ASSUME NEW i \in 1 .. o1
          PROVE  fiber'[n][i].in < a /\ ~ fiber'[n][i].first
      <3>1. i + 1 \in 1 .. o /\ i \in 1 .. k - 1
        BY <2>1, SMTT(30)
      <3>2. QED
        BY <1>1, <2>1, <3>1
    <2>4. ASSUME NEW i \in (o1 + 1) .. (k - 1)
          PROVE  InSlot(n, a, fiber[n][i], c1 + i - o1)'
      <3>1. i + 1 \in (o + 1) .. k /\ i \in 1 .. k - 1
            /\ c + (i + 1) - o = c1 + i - o1
        BY <2>1
      <3>2. InSlot(n, a, fiber[n][i + 1], c1 + i - o1)
        BY <2>1, <3>1
      <3>3. fiber'[n][i] = fiber[n][i + 1]
        BY <1>1, <3>1
      <3>4. QED
        BY <1>2, <3>2, <3>3 DEF InSlot
    <2>5. QED
      BY <1>0, <1>1, <1>2, <2>2, <2>3, <2>4 DEF InFiber
  <1>6. QED
    BY <1>3, <1>4, <1>5 DEF EndInv

\* The controller has sent the results of a trial to n: its photons that are
\* still on their way come before the next trial, and those that are still
\* planned depart away from the results.
LEMMA FinishKeepsEnd ==
  ASSUME CounterWide, TypeOK, NEW n \in Node, NEW a \in Int, NEW c \in Nat,
         EndInv(n, a, c, 0), inbox[n] = <<>>,
         NEW o \in Nat, o = Len(fiber[n]), NEW r \in Nat, r >= 1, r <= c,
         0 - Jitter <= Slot(a, r), Slot(a, r) <= 0,
         NEW failed \in Seq(BOOLEAN), Len(failed) = r,
         inbox'[n] = <<[in |-> Delay[n], timing |-> StartTiming(n),
                        combined |-> TRUE, failed |-> failed]>>,
         tracker' = tracker, trial' = trial, schedules' = schedules,
         emissions' = emissions, fiber' = fiber, busy' = busy
  PROVE  EndInv(n, Lead, 0, o)'
  <1>p. /\ Interval \in Nat /\ Lead \in Nat /\ Lead > 0 /\ Jitter \in Nat
        /\ Jitter < Interval
        /\ Delay[n] \in Nat /\ 2 * Delay[n] <= Lead
    BY Parameters, LeadPositive
  <1>s. \A j \in Nat : Slot(a, j) \in Int
    BY Slots
  <1>0. PICK k \in Nat, l \in Nat : k = Len(fiber[n]) /\ l = Len(tracker[n])
    BY EndTypes
  <1>1. /\ inbox'[n] # <<>> /\ Len(inbox'[n]) = 1
        /\ Head(inbox'[n]).in = Delay[n] /\ Head(inbox'[n]).combined
        /\ Head(inbox'[n]).timing = StartTiming(n)
        /\ Head(inbox'[n]).failed = failed
    OBVIOUS
  <1>2. l = c + k /\ \A i \in 1 .. k : InSlot(n, a, fiber[n][i], c + i)
    <2>1. l = c + k - 0
          /\ \A i \in (0 + 1) .. k : InSlot(n, a, fiber[n][i], c + i - 0)
      BY <1>0 DEF EndInv, InFiber
    <2>2. QED
      BY <2>1
  <1>3. l >= r /\ tracker[n] # <<>>
    <2>1. l >= r
      BY <1>2
    <2>2. QED
      BY <1>0, <2>1, EndTypes
  \* A photon of a slot from r on departs away from the results.
  <1>4. ASSUME NEW j \in Nat, j >= r, Delay[n] # 0
        PROVE  Off(2 * Delay[n] - Slot(a, j))
    <2>1. PICK w \in 0 .. Jitter : w = 0 - Slot(a, r)
      <3>1. Slot(a, r) \in Int
        BY <1>s
      <3>2. 0 - Slot(a, r) \in 0 .. Jitter
        BY <1>p, <3>1, SMTT(30)
      <3>3. QED
        BY <3>2
    <2>2. PICK v \in Int : v = 2 * Delay[n] + w /\ Off(v)
      <3>1. 2 * Delay[n] + w \in Int
        BY <1>p, SMTT(30)
      <3>2. Off(2 * Delay[n] + w)
        BY <1>4, ResultsOff
      <3>3. QED
        BY <3>1, <3>2
    <2>3. PICK d \in Nat : Slot(a, j) = Slot(a, r) + d * Interval
      BY <1>4, SlotsApart
    <2>4. PICK e \in Int : e = d * Interval
      BY <1>p
    <2>5. Off(v - e)
      BY <2>2, <2>4, OffShift
    <2>6. 2 * Delay[n] - Slot(a, j) = v - e
      <3>1. PICK g \in Int, h \in Int : g = Slot(a, r) /\ h = Slot(a, j)
        BY <1>s
      <3>2. PICK delay \in Nat : delay = Delay[n]
        BY <1>p
      <3>3. h = g + e /\ w = 0 - g /\ v = 2 * delay + w
        BY <2>1, <2>2, <2>3, <2>4, <3>1, <3>2
      <3>4. 2 * delay - h = v - e
        BY <3>3
      <3>5. QED
        BY <3>1, <3>2, <3>4
    <2>7. QED
      BY <2>5, <2>6
  <1>5. \A x \in Nat : BurstRuns(n, x) <=> BurstRuns(n, x)'
    BY DEF BurstRuns, Planned, Plans, Asks, Free
  <1>6. /\ BurstOver(n)' <=> BurstOver(n)
        /\ BurstDue(n)' <=> BurstDue(n)
    BY DEF BurstOver, BurstDue, Planned, Plans, Asks, Free
  <1>7. Outlives(n, Delay[n])'
    <2>1. Running(n, a, 0)
      BY DEF EndInv
    <2>2. CASE BurstOver(n)
      BY <1>6, <2>2 DEF Outlives
    <2>3. CASE BurstDue(n) /\ Slot(a, l) = Delay[n]
      <3>1. Slack(n, Delay[n])
        <4>1. ASSUME Delay[n] # 0 PROVE Off(Delay[n])
          <5>1. Off(2 * Delay[n] - Slot(a, l))
            BY <1>3, <1>4, <4>1
          <5>2. 2 * Delay[n] - Slot(a, l) = Delay[n]
            BY <1>p, <2>3
          <5>3. QED
            BY <5>1, <5>2
        <4>2. QED
          BY <4>1 DEF Slack
      <3>2. QED
        BY <1>6, <2>3, <3>1 DEF Outlives, Slack
    <2>4. ASSUME NEW x \in Nat, BurstRuns(n, x),
                 x + Delay[n] = Slot(a, l + 1)
          PROVE  Outlives(n, Delay[n])'
      <3>1. Slack(n, Delay[n] - x)
        <4>1. ASSUME Delay[n] # 0 PROVE Off(Delay[n] - x)
          <5>1. Off(2 * Delay[n] - Slot(a, l + 1))
            BY <1>3, <1>4, <4>1
          <5>2. 2 * Delay[n] - Slot(a, l + 1) = Delay[n] - x
            BY <1>p, <2>4, SMTT(30)
          <5>3. QED
            BY <5>1, <5>2
        <4>2. QED
          BY <4>1 DEF Slack
      <3>2. Delay[n] = 0 => x > 0
        <4>1. /\ Slot(a, r) + Interval <= Slot(a, l + 1)
              /\ Slot(a, r) \in Int /\ Slot(a, l + 1) \in Int
          <5>1. l + 1 \in Nat /\ r <= l + 1 /\ r < l + 1
            BY <1>3
          <5>2. PICK j \in Nat : j = l + 1
            BY <5>1
          <5>3. Slot(a, r) + Interval <= Slot(a, j)
            BY <5>1, <5>2, SlotsApart
          <5>4. QED
            BY <1>s, <5>2, <5>3
        <4>2. QED
          BY <1>p, <2>4, <4>1
      <3>3. QED
        BY <1>5, <2>4, <3>1, <3>2 DEF Outlives, Slack
    <2>5. QED
      BY <1>0, <1>3, <2>1, <2>2, <2>3, <2>4 DEF Running
  <1>8. Awaiting(n, Lead)'
    <2>1. Lead = Delay[n] + Lead - Delay[n] /\ Delay[n] <= Delay[n]
      BY <1>p, SMTT(30)
    <2>2. Len(failed) >= 1 /\ Len(failed) <= Len(tracker[n])
      BY <1>0, <1>3
    <2>3. QED
      BY <1>1, <1>7, <2>1, <2>2 DEF Awaiting
  <1>9. ASSUME NEW i \in 1 .. k
        PROVE  fiber[n][i].in < Lead /\ ~ fiber[n][i].first
    <2>1. PICK j \in Nat : j = c + i /\ j >= r /\ j # 1
      OBVIOUS
    <2>2. InSlot(n, a, fiber[n][i], j)
      BY <1>2, <2>1
    <2>3. PICK left \in Nat : left = fiber[n][i].in /\ Slot(a, j) \in Int
      BY <1>0, <1>s, EndTypes
    <2>4. /\ left <= Slot(a, j) + Jitter /\ Slot(a, j) <= Delay[n]
          /\ fiber[n][i].first = (j = 1)
      BY <2>2, <2>3 DEF InSlot
    <2>5. CASE Delay[n] = 0
      <3>1. Jitter = 0
        <4>1. ASSUME Jitter # 0 PROVE FALSE
          <5>1. (2 * Delay[n] + 0) % Interval > Jitter
            BY <1>p, <4>1, TimingAssumption DEF TimingAssumption
          <5>2. (2 * Delay[n] + 0) % Interval = 0
            BY <1>p, <2>5
          <5>3. QED
            BY <1>p, <5>1, <5>2
        <4>2. QED
          BY <4>1
      <3>2. QED
        <4>1. left <= 0
          BY <2>3, <2>4, <2>5, <3>1, SMTT(30)
        <4>2. ~ fiber[n][i].first
          BY <2>1, <2>4
        <4>3. QED
          BY <1>p, <2>3, <4>1, <4>2, SMTT(30)
    <2>6. CASE Delay[n] # 0
      <3>1. Off(2 * Delay[n] - Slot(a, j))
        BY <1>4, <2>1, <2>6
      <3>2. 2 * Delay[n] - Slot(a, j) \in Nat
        <4>1. PICK g \in Int, delay \in Nat :
                g = Slot(a, j) /\ delay = Delay[n] /\ g <= delay
          BY <1>p, <2>3, <2>4
        <4>2. 2 * delay - g \in Nat
          BY <4>1, SMTT(30)
        <4>3. QED
          BY <4>1, <4>2
      <3>3. Jitter < 2 * Delay[n] - Slot(a, j)
        BY <3>1, <3>2, OffPositive
      <3>4. QED
        <4>1. left < Lead
          <5>1. PICK h \in Int, delay \in Nat :
                  h = Slot(a, j) /\ delay = Delay[n]
            BY <1>p, <2>3
          <5>2. /\ Jitter < 2 * delay - h /\ left <= h + Jitter
                /\ 2 * delay <= Lead
            BY <1>p, <2>4, <3>3, <5>1
          <5>3. QED
            BY <1>p, <5>2
        <4>2. ~ fiber[n][i].first
          BY <2>1, <2>4
        <4>3. QED
          BY <2>3, <4>1, <4>2
    <2>7. QED
      BY <2>5, <2>6
  <1>10. o = k
    BY <1>0
  <1>11. InFiber(n, Lead, 0, o)'
    <2>1. (o + 1) .. Len(fiber[n]) = {}
      OBVIOUS
    <2>2. QED
      BY <1>0, <1>1, <1>9, <1>10, <2>1 DEF InFiber
  <1>12. Stale(n, Lead)'
    <2>1. a <= 0
      <3>1. Slot(a, 1) = a /\ Slot(a, 1) <= Slot(a, r) /\ Slot(a, r) \in Int
        BY SlotsApart, Slots
      <3>2. QED
        BY <3>1
    <2>2. /\ Elapsed(n, a) = Lead - Delay[n] - a
          /\ Elapsed(n, Lead)' = Lead - Delay[n]
      BY <1>1 DEF Elapsed
    <2>3. ASSUME NEW t, NEW left \in Nat, Aged(n, a, t, left)
          PROVE  Aged(n, Lead, t, left)'
      <3>1. PICK d \in Nat :
              /\ d >= 1 /\ d < TrialWrap
              /\ trial[n] = t + d \/ trial[n] = t + d - TrialWrap
              /\ left <= Interval - (d - 1) * Lead - Elapsed(n, a)
        BY <2>3 DEF Aged
      <3>2. (d - 1) * Lead \in Int
        BY <1>p
      <3>3. left <= Interval - (d - 1) * Lead - (Lead - Delay[n])
        <4>1. PICK w \in Int : w = (d - 1) * Lead
          BY <3>2
        <4>2. left <= Interval - w - (Lead - Delay[n] - a)
          BY <2>2, <3>1, <4>1
        <4>3. left <= Interval - w - (Lead - Delay[n])
          BY <1>p, <2>1, <4>2, SMTT(30)
        <4>4. QED
          BY <4>1, <4>3
      <3>4. QED
        BY <2>2, <3>1, <3>3 DEF Aged
    <2>4. Stale(n, a)
      BY DEF EndInv
    <2>5. QED
      BY <2>3, <2>4, EndTypes DEF Stale
  <1>13. QED
    BY <1>1, <1>8, <1>11, <1>12 DEF EndInv

\* The controller has sent n the timing of its first trial.
LEMMA BootKeepsEnd ==
  ASSUME TypeOK, NEW n \in Node,
         tracker[n] = <<>>, fiber[n] = <<>>, schedules[n] = {},
         emissions[n] = {},
         inbox'[n] = <<[in |-> Delay[n], timing |-> StartTiming(n),
                        combined |-> FALSE, failed |-> <<>>]>>,
         tracker' = tracker, schedules' = schedules, emissions' = emissions,
         fiber' = fiber
  PROVE  EndInv(n, Lead, 0, 0)'
  <1>p. Lead \in Nat /\ Delay[n] \in Nat
    BY Parameters
  <1>1. /\ inbox'[n] # <<>> /\ Len(inbox'[n]) = 1
        /\ Head(inbox'[n]).in = Delay[n] /\ ~ Head(inbox'[n]).combined
        /\ Head(inbox'[n]).timing = StartTiming(n)
    OBVIOUS
  <1>2. Lead = Delay[n] + Lead - Delay[n] /\ Delay[n] <= Delay[n]
    BY <1>p
  <1>3. Awaiting(n, Lead)'
    BY <1>1, <1>2 DEF Awaiting
  <1>4. InFiber(n, Lead, 0, 0)'
    <2>1. Len(fiber'[n]) = 0
      OBVIOUS
    <2>2. QED
      BY <1>1, <2>1 DEF InFiber
  <1>5. Stale(n, Lead)'
    BY DEF Stale
  <1>6. QED
    BY <1>1, <1>3, <1>4, <1>5 DEF EndInv
-----------------------------------------------------------------------------
(* The phases of a trial at the analyzer and its controller.               *)

\* The verdicts on the running trial that are with the analyzer or with the
\* controller, and the memory of the i-th photon of an end.
Judged == Len(results) + Len(reports)

\* No photon waits for the other one of its pair; or one of p does.
Even(c) ==
  \A n \in Node : arrived[n] = "no" /\ c[n] = Judged /\ ~ lastDetected[n]
Waits(p, a, c) ==
  /\ arrived[p] # "no" /\ arrived[Peer(p)] = "no"
  /\ c[Peer(p)] = Judged /\ c[p] > Judged /\ ~ lastDetected[Peer(p)]
  /\ origin[p] = tracker[p][c[p]]
  /\ Slot(a, c[p]) <= 0 /\ (arrived[p] = "before" => Slot(a, c[p]) < 0)
  /\ \/ c[p] = Judged + 1
     \/ BurstOver(Peer(p)) /\ tracker[Peer(p)] = <<>>

\* The analyzer pairs the photons of a trial.
Measuring(a, c, o) ==
  /\ ~ trialDone
  /\ \A n \in Node : o[n] = 0
  /\ \A n \in Node : inbox[n] # <<>> => ~ Head(inbox[n]).combined
  /\ \A i \in 1 .. Len(reports) : ~ reports[i].finish
  /\ sendResult <=> \E n \in Node : lastDetected[n]
  /\ Judged > 0 => a <= 0
  /\ Even(c) \/ \E p \in Node : Waits(p, a, c)

\* It has closed the trial, of which it still has reports.
Ending(a, c, o) ==
  /\ trialDone /\ reports # <<>>
  /\ \A i \in 1 .. Len(reports) : reports[i].finish <=> i = Len(reports)
  /\ \A n \in Node : o[n] = 0 /\ Judged <= c[n] /\ inbox[n] = <<>>
  /\ 0 - Jitter <= Slot(a, Judged) /\ Slot(a, Judged) <= 0

\* The results are sent, and no photon of the next trial has come.
Settled(c) ==
  /\ trialDone /\ results = <<>> /\ reports = <<>>
  /\ \A n \in Node : c[n] = 0

Phase(a, c, o) == Measuring(a, c, o) \/ Ending(a, c, o) \/ Settled(c)

\* The trial n runs, or starts with the message on its way.
Upcoming(n) ==
  IF inbox[n] # <<>> /\ Head(inbox[n]).combined THEN NextTrial(trial[n])
                                                ELSE trial[n]

\* The controller has not started: nothing has happened.
Resting ==
  /\ results = <<>> /\ reports = <<>> /\ ~ trialDone /\ ~ sendResult
  /\ \A n \in Node : /\ inbox[n] = <<>> /\ fiber[n] = <<>>
                     /\ tracker[n] = <<>> /\ trial[n] = 0
                     /\ schedules[n] = {} /\ emissions[n] = {}
                     /\ arrived[n] = "no" /\ ~ lastDetected[n]

TimeInv(a, c, o) ==
  /\ booting => Resting
  /\ ~ booting => /\ \A n \in Node : EndInv(n, a, c[n], o[n])
                  /\ Phase(a, c, o)
                  /\ Upcoming("left") = Upcoming("right")

\* The times are history: the first photons of the newest trial are due at
\* the analyzer in a ticks, it has taken in c[n] photons of the trial that n
\* runs, and o[n] photons of the trial before are on their way from n.
Timely ==
  \E a \in Int : \E c, o \in [Node -> Nat] : TimeInv(a, c, o)

\* What is told of the analyzer stays true of a step that leaves it, the
\* controller and the arrivals alone.
LEMMA PhaseKept ==
  ASSUME NEW a \in Int, NEW c \in [Node -> Nat], NEW o \in [Node -> Nat],
         NEW q \in [Node -> Nat],
         Phase(a, c, o), UNCHANGED <<analyzerVars, results>>,
         \A n \in Node : inbox'[n] = inbox[n] \/ inbox'[n] = <<>>,
         Measuring(a, c, o) \/ Ending(a, c, o) => \A n \in Node : q[n] = o[n],
         \A n \in Node : Waits(n, a, c) =>
           /\ tracker'[n][c[n]] = tracker[n][c[n]]
           /\ BurstOver(Peer(n)) /\ tracker[Peer(n)] = <<>> =>
                BurstOver(Peer(n))' /\ tracker'[Peer(n)] = <<>>
  PROVE  Phase(a, c, q)'
  <1>1. /\ arrived' = arrived /\ origin' = origin /\ reports' = reports
        /\ lastDetected' = lastDetected /\ sendResult' = sendResult
        /\ trialDone' = trialDone /\ results' = results
        /\ Judged' = Judged
    BY DEF analyzerVars, Judged
  <1>2. CASE Measuring(a, c, o)
    <2>1. Even(c) => Even(c)'
      BY <1>1 DEF Even
    <2>2. \A p \in Node : Waits(p, a, c) => Waits(p, a, c)'
      BY <1>1 DEF Waits
    <2>3. Even(c)' \/ \E p \in Node : Waits(p, a, c)'
      BY <1>2, <2>1, <2>2 DEF Measuring
    <2>4. \A n \in Node : q[n] = 0
      BY <1>2 DEF Measuring
    <2>5. Measuring(a, c, q)'
      BY <1>1, <1>2, <2>3, <2>4 DEF Measuring
    <2>6. QED
      BY <2>5 DEF Phase
  <1>3. CASE Ending(a, c, o)
    BY <1>1, <1>3 DEF Phase, Ending
  <1>4. CASE Settled(c)
    BY <1>1, <1>4 DEF Phase, Settled
  <1>5. QED
    BY <1>2, <1>3, <1>4 DEF Phase

\* An end that is not part of a step, which the analyzer is not part of
\* either, but for memories that are set free.
LEMMA AsideKept ==
  ASSUME NEW n \in Node, NEW a \in Int, NEW c \in Nat, NEW o \in Nat,
         EndInv(n, a, c, o), Calm(n), fiber'[n] = fiber[n],
         schedules'[n] = schedules[n], emissions'[n] = emissions[n],
         Free(n, busy) \subseteq Free(n, busy'),
         UNCHANGED analyzerVars
  PROVE  EndInv(n, a, c, o)'
  <1>1. Marked(n, o)' <=> Marked(n, o)
    BY DEF Marked, LastMarked, Concluded, analyzerVars
  <1>2. QED
    BY <1>1, EndKept

\* Both ends from one and its peer.
LEMMA BothEnds ==
  ASSUME NEW n \in Node, NEW a, NEW c, NEW o,
         EndInv(n, a, c[n], o[n]),
         EndInv(Peer(n), a, c[Peer(n)], o[Peer(n)])
  PROVE  \A m \in Node : EndInv(m, a, c[m], o[m])
  BY Ends

\* The trials of the ends, told from one.
LEMMA UpcomingEnds ==
  ASSUME NEW n \in Node
  PROVE  Upcoming("left") = Upcoming("right") <=>
           Upcoming(n) = Upcoming(Peer(n))
  BY DEF Node, Peer

\* When the first photons are due, or have been, no message is on its way and
\* no photon of an earlier trial is.
LEMMA Undisturbed ==
  ASSUME CounterWide, TypeOK, NEW n \in Node, NEW a \in Int, NEW c \in Nat,
         NEW o \in Nat, EndInv(n, a, c, o), a <= 0
  PROVE  inbox[n] = <<>> /\ o = 0
  <1>p. Lead \in Nat /\ Lead > 0 /\ Delay[n] \in Nat /\ 2 * Delay[n] <= Lead
    BY Parameters, LeadPositive
  <1>1. inbox[n] = <<>>
    <2>1. ASSUME inbox[n] # <<>> PROVE FALSE
      <3>1. PICK left \in Nat : left = Head(inbox[n]).in
        BY <2>1, EndTypes
      <3>2. a = left + Lead - Delay[n]
        BY <2>1, <3>1 DEF EndInv, Awaiting
      <3>3. QED
        BY <1>p, <3>1, <3>2
    <2>2. QED
      BY <2>1
  <1>2. o = 0
    <2>1. ASSUME o > 0 PROVE FALSE
      <3>1. o <= Len(fiber[n]) /\ fiber[n][1].in < a
        BY <2>1 DEF EndInv, InFiber
      <3>2. Len(fiber[n]) \in Nat
        BY EndTypes
      <3>3. 1 \in 1 .. Len(fiber[n])
        BY <2>1, <3>1, <3>2
      <3>4. fiber[n][1].in \in Nat
        BY <3>3, EndTypes
      <3>5. PICK left \in Nat : left = fiber[n][1].in
        BY <3>4
      <3>6. QED
        BY <3>1, <3>5
    <2>2. QED
      BY <2>1
  <1>3. QED
    BY <1>1, <1>2

\* Initially nothing has happened.
LEMMA InitTimely == Init => Timely
  <1> SUFFICES ASSUME Init PROVE Timely
    OBVIOUS
  <1>1. booting /\ Resting
    BY DEF Init, EmissionInit, AnalyzerInit, HoMInit, Resting
  <1>2. PICK c \in [Node -> Nat] : c = [n \in Node |-> 0]
    OBVIOUS
  <1>3. TimeInv(0, c, c)
    BY <1>1 DEF TimeInv
  <1>4. QED
    BY <1>3 DEF Timely

\* While the controller has not started, nothing can happen at the ends.
LEMMA Asleep ==
  ASSUME Resting, NEW n \in Node
  PROVE  /\ ~ Schedule(n) /\ ~ EmitPhoton(n) /\ ~ PhotonArrives(n)
         /\ ~ ReceiveTiming(n) /\ ~ ReceiveResults(n) /\ ~ ControllerReceives
  <1>1. /\ schedules[n] = {} /\ emissions[n] = {} /\ fiber[n] = <<>>
        /\ inbox[n] = <<>> /\ reports = <<>>
    BY DEF Resting
  <1>2. DueSchedules(n) = {} /\ DueEmissions(n) = {}
    BY <1>1 DEF DueSchedules, DueEmissions
  <1>3. ~ Schedule(n)
    BY <1>2 DEF Schedule, DropSchedule, EndBurst, ShootPhoton, DropEmission
  <1>4. ~ EmitPhoton(n)
    BY <1>1 DEF EmitPhoton
  <1>5. ~ ReceiveTiming(n) /\ ~ ReceiveResults(n)
    BY <1>1 DEF ReceiveTiming, ReceiveResults, MessageDue
  <1>6. ~ PhotonArrives(n) /\ ~ ControllerReceives
    BY <1>1 DEF PhotonArrives, ControllerReceives
  <1>7. QED
    BY <1>3, <1>4, <1>5, <1>6

\* A photon that waits came in its slot: the first ones have been due.
LEMMA WaitsSince ==
  ASSUME CounterWide, TypeOK, NEW p \in Node, NEW a \in Int,
         NEW c \in [Node -> Nat], NEW o \in [Node -> Nat], Waits(p, a, c),
         EndInv(p, a, c[p], o[p])
  PROVE  /\ a <= 0 /\ c[p] \in Nat /\ c[p] >= 1 /\ c[p] <= Len(tracker[p])
  <1>1. PICK j \in Nat : j = c[p]
    OBVIOUS
  <1>2. Judged \in Nat
    BY DEF Judged, TypeOK, HoMTypeOK, AnalyzerTypeOK
  <1>3. j >= 1 /\ Slot(a, j) <= 0
    BY <1>1, <1>2 DEF Waits
  <1>4. a <= 0
    <2>1. Slot(a, 1) <= Slot(a, j) /\ Slot(a, 1) = a
      BY <1>3, SlotsApart, Slots
    <2>2. Slot(a, j) \in Int
      BY Slots
    <2>3. QED
      BY <1>3, <2>1, <2>2
  <1>5. j <= Len(tracker[p])
    <2>1. PICK k \in Nat, l \in Nat : k = Len(fiber[p]) /\ l = Len(tracker[p])
      BY EndTypes
    <2>2. inbox[p] = <<>> /\ o[p] = 0
      BY <1>4, Undisturbed
    <2>3. l = j + k - 0
      BY <1>1, <2>1, <2>2 DEF EndInv, InFiber
    <2>4. QED
      BY <1>1, <2>1, <2>3
  <1>6. QED
    BY <1>1, <1>3, <1>4, <1>5

\* Self-messages leave the ends in time.
LEMMA ScheduleTimely ==
  ASSUME TypeOK, NEW a \in Int, NEW c \in [Node -> Nat],
         NEW o \in [Node -> Nat], TimeInv(a, c, o), NEW n \in Node, Schedule(n)
  PROVE  Timely'
  <1>1. ~ booting
    BY Asleep DEF TimeInv
  <1>2. /\ \A m \in Node : EndInv(m, a, c[m], o[m])
        /\ Phase(a, c, o) /\ Upcoming("left") = Upcoming("right")
    BY <1>1 DEF TimeInv
  <1>3. /\ tracker' = tracker /\ trial' = trial /\ inbox' = inbox
        /\ fiber' = fiber /\ results' = results /\ booting' = booting
        /\ schedules'[Peer(n)] = schedules[Peer(n)]
        /\ emissions'[Peer(n)] = emissions[Peer(n)]
        /\ UNCHANGED analyzerVars
    <2>1. Peer(n) \in Node /\ Peer(n) # n
      BY Ends
    <2>2. QED
      BY <2>1 DEF Schedule, DropSchedule, EndBurst, ShootPhoton, DropEmission,
         homVars, TypeOK, EmissionTypeOK
  <1>4. Free(Peer(n), busy) \subseteq Free(Peer(n), busy')
    <2>1. busy' = busy \/ \E x \in MemoryOf(n) : busy' = busy \cup {x}
      BY DEF Schedule, DropSchedule, EndBurst, ShootPhoton, DropEmission
    <2>2. MemoryOf(n) \cap MemoryOf(Peer(n)) = {}
      BY Ends
    <2>3. QED
      BY <2>1, <2>2 DEF Free
  <1>5. \A m \in Node : Calm(m)
    BY <1>3 DEF Calm
  <1>6. EndInv(Peer(n), a, c[Peer(n)], o[Peer(n)])'
    BY <1>2, <1>3, <1>4, <1>5, Ends, AsideKept
  <1>7. EndInv(n, a, c[n], o[n])'
    BY <1>2, ScheduleKeepsEnd
  <1>8. \A m \in Node : EndInv(m, a, c[m], o[m])'
    BY <1>6, <1>7, Ends
  <1>9. \A m \in Node : BurstOver(m) => BurstOver(m)'
    <2>1. BurstOver(Peer(n)) => BurstOver(Peer(n))'
      BY <1>3 DEF BurstOver, Plans, Asks
    <2>2. BurstOver(n) => BurstOver(n)'
      <3>1. Burst(n)
        BY <1>2, EndBursts
      <3>2. EndBurst(n) \/ ShootPhoton(n) => ~ BurstOver(n)
        BY <3>1, EndKeepsBurst, ShootKeepsBurst DEF BurstOver, BurstDue, Planned
      <3>3. QED
        BY <3>2, DropKeepsBurst DEF Schedule
    <2>3. QED
      BY <2>1, <2>2, Ends
  <1>10. Phase(a, c, o)'
    BY <1>2, <1>3, <1>9, Ends, PhaseKept
  <1>11. Upcoming("left")' = Upcoming("right")'
    BY <1>2, <1>3 DEF Upcoming
  <1>12. TimeInv(a, c, o)'
    BY <1>1, <1>3, <1>8, <1>10, <1>11 DEF TimeInv
  <1>13. QED
    BY <1>12 DEF Timely

\* Nor does a photon that departs.
LEMMA EmitTimely ==
  ASSUME CounterWide, TypeOK, NEW a \in Int, NEW c \in [Node -> Nat],
         NEW o \in [Node -> Nat], TimeInv(a, c, o), NEW n \in Node,
         EmitPhoton(n)
  PROVE  Timely'
  <1>1. ~ booting
    BY Asleep DEF TimeInv
  <1>2. /\ \A m \in Node : EndInv(m, a, c[m], o[m])
        /\ Phase(a, c, o) /\ Upcoming("left") = Upcoming("right")
    BY <1>1 DEF TimeInv
  <1>e. PICK e \in emissions[n] : Emit(n, e)
    BY DEF EmitPhoton
  <1>3. /\ trial' = trial /\ inbox' = inbox /\ busy' = busy
        /\ results' = results /\ booting' = booting
        /\ schedules'[Peer(n)] = schedules[Peer(n)]
        /\ emissions'[Peer(n)] = emissions[Peer(n)]
        /\ fiber'[Peer(n)] = fiber[Peer(n)]
        /\ tracker'[Peer(n)] = tracker[Peer(n)]
        /\ tracker'[n] = Append(tracker[n], e.qubit)
        /\ UNCHANGED analyzerVars
    <2>1. Peer(n) \in Node /\ Peer(n) # n
      BY Ends
    <2>2. QED
      BY <1>e, <2>1 DEF EmitPhoton, Emit, homVars, TypeOK, EmissionTypeOK
  <1>4. Calm(Peer(n))
    BY <1>3 DEF Calm
  <1>5. EndInv(Peer(n), a, c[Peer(n)], o[Peer(n)])'
    <2>1. Free(Peer(n), busy) \subseteq Free(Peer(n), busy')
      BY <1>3
    <2>2. QED
      BY <1>2, <1>3, <1>4, <2>1, Ends, AsideKept
  <1>6. PICK q \in [Node -> Nat] :
          q = IF inbox[n] = <<>> THEN o ELSE [o EXCEPT ![n] = o[n] + 1]
    <2>1. [o EXCEPT ![n] = o[n] + 1] \in [Node -> Nat]
      OBVIOUS
    <2>2. QED
      BY <2>1
  <1>7. EndInv(n, a, c[n], q[n])'
    <2>1. CASE inbox[n] = <<>>
      BY <1>2, <1>6, <2>1, EmitKeepsEnd
    <2>2. CASE inbox[n] # <<>>
      <3>1. q[n] = o[n] + 1
        BY <1>6, <2>2
      <3>2. EndInv(n, a, c[n], o[n] + 1)'
        BY <1>2, <2>2, EmitKeepsEnd
      <3>3. QED
        BY <3>1, <3>2
    <2>3. QED
      BY <2>1, <2>2
  <1>8. \A m \in Node : EndInv(m, a, c[m], q[m])'
    <2>1. q[Peer(n)] = o[Peer(n)]
      BY <1>6, Ends
    <2>2. EndInv(Peer(n), a, c[Peer(n)], q[Peer(n)])'
      BY <1>5, <2>1
    <2>3. QED
      BY <1>7, <2>2, Ends
  <1>9. Measuring(a, c, o) \/ Ending(a, c, o) => \A m \in Node : q[m] = o[m]
    <2>1. inbox[n] # <<>> => Head(inbox[n]).combined
      BY <1>2, <1>e, EndBursts
    <2>2. Measuring(a, c, o) \/ Ending(a, c, o) => inbox[n] = <<>>
      BY <2>1 DEF Measuring, Ending
    <2>3. QED
      BY <1>6, <2>2
  <1>10. ASSUME NEW m \in Node, Waits(m, a, c)
         PROVE  /\ tracker'[m][c[m]] = tracker[m][c[m]]
                /\ BurstOver(Peer(m)) /\ tracker[Peer(m)] = <<>> =>
                     BurstOver(Peer(m))' /\ tracker'[Peer(m)] = <<>>
    <2>1. c[m] \in Nat /\ c[m] >= 1 /\ c[m] <= Len(tracker[m])
      BY <1>2, <1>10, WaitsSince
    <2>2. tracker'[m][c[m]] = tracker[m][c[m]]
      <3>1. CASE m = Peer(n)
        BY <1>3, <3>1
      <3>2. CASE m = n
        <4>1. tracker[n] \in Seq(Memory)
          BY EndTypes
        <4>2. QED
          BY <1>3, <2>1, <3>2, <4>1, SMTT(30)
      <3>3. QED
        BY <3>1, <3>2, Ends
    <2>3. ~ BurstOver(n)
      <3>1. Burst(n)
        BY <1>2, EndBursts
      <3>2. Asks(n) = {e}
        BY <1>e, <3>1, EmitKeepsBurst
      <3>3. QED
        BY <3>2 DEF BurstOver
    <2>4. BurstOver(Peer(n)) => BurstOver(Peer(n))'
      BY <1>3 DEF BurstOver, Plans, Asks
    <2>5. Peer(m) = n \/ Peer(m) = Peer(n)
      BY Ends
    <2>6. QED
      BY <1>3, <2>2, <2>3, <2>4, <2>5
  <1>11. Phase(a, c, q)'
    BY <1>2, <1>3, <1>9, <1>10, PhaseKept
  <1>12. Upcoming("left")' = Upcoming("right")'
    BY <1>2, <1>3 DEF Upcoming
  <1>13. TimeInv(a, c, q)'
    BY <1>1, <1>3, <1>8, <1>11, <1>12 DEF TimeInv
  <1>14. QED
    BY <1>13 DEF Timely

\* A message that is handled, of whichever kind.
LEMMA ReceiveTimely ==
  ASSUME CounterWide, TypeOK, NEW a \in Int, NEW c \in [Node -> Nat],
         NEW o \in [Node -> Nat], TimeInv(a, c, o), NEW n \in Node,
         ReceiveTiming(n) \/ ReceiveResults(n)
  PROVE  Timely'
  <1>1. ~ booting
    BY Asleep DEF TimeInv
  <1>2. /\ \A m \in Node : EndInv(m, a, c[m], o[m])
        /\ Phase(a, c, o) /\ Upcoming("left") = Upcoming("right")
    BY <1>1 DEF TimeInv
  <1>3. MessageDue(n) /\ Deliver(n) /\ fiber' = fiber /\ UNCHANGED analyzerVars
    BY DEF ReceiveTiming, ReceiveResults
  <1>4. Peer(n) \in Node /\ Peer(n) # n
    BY Ends
  <1>5. /\ inbox'[Peer(n)] = inbox[Peer(n)]
        /\ booting' = booting /\ results' = results
    BY <1>3, <1>4 DEF Deliver, TypeOK, HoMTypeOK
  <1>6. /\ schedules'[Peer(n)] = schedules[Peer(n)] /\ emissions' = emissions
        /\ tracker'[Peer(n)] = tracker[Peer(n)]
        /\ trial'[Peer(n)] = trial[Peer(n)] /\ busy' \subseteq busy
    <2>1. CASE ReceiveTiming(n)
      BY <1>4, <2>1 DEF ReceiveTiming, StartTrial, ScheduleFirst, TypeOK,
         EmissionTypeOK
    <2>2. CASE ReceiveResults(n)
      <3>1. PICK timing, failed, consumed :
              EndTrial(n, timing, failed, consumed)
        BY <2>2 DEF ReceiveResults
      <3>2. QED
        BY <1>4, <3>1 DEF EndTrial, ScheduleFirst, TypeOK, EmissionTypeOK
    <2>3. QED
      BY <2>1, <2>2
  <1>7. EndInv(Peer(n), a, c[Peer(n)], o[Peer(n)])'
    <2>1. Calm(Peer(n)) /\ fiber'[Peer(n)] = fiber[Peer(n)]
      BY <1>3, <1>5, <1>6 DEF Calm
    <2>2. Free(Peer(n), busy) \subseteq Free(Peer(n), busy')
      BY <1>6 DEF Free
    <2>3. QED
      BY <1>2, <1>3, <1>4, <1>6, <2>1, <2>2, AsideKept
  <1>8. EndInv(n, a, c[n], o[n])'
    BY <1>2, ReceiveTimingKeepsEnd, ReceiveResultsKeepsEnd
  <1>9. \A m \in Node : EndInv(m, a, c[m], o[m])'
    BY <1>7, <1>8, Ends
  <1>10. inbox[n] # <<>> /\ inbox'[n] = <<>> /\ a > 0
    <2>1. inbox[n] # <<>> /\ inbox'[n] = <<>> /\ a = Lead - Delay[n]
      BY <1>2, <1>3, DueEnd
    <2>2. Lead \in Nat /\ Lead > 0 /\ Delay[n] \in Nat /\ 2 * Delay[n] <= Lead
      BY Parameters, LeadPositive
    <2>3. QED
      BY <2>1, <2>2
  <1>11. \A m \in Node : ~ Waits(m, a, c)
    BY <1>2, <1>10, WaitsSince, SMTT(30)
  <1>12. Phase(a, c, o)'
    <2>1. \A m \in Node : inbox'[m] = inbox[m] \/ inbox'[m] = <<>>
      BY <1>5, <1>10, Ends
    <2>2. UNCHANGED <<analyzerVars, results>>
      BY <1>3, <1>5
    <2>3. QED
      BY <1>2, <1>11, <2>1, <2>2, PhaseKept
  <1>13. Upcoming(n)' = Upcoming(n)
    <2>1. Upcoming(n)' = trial'[n]
      BY <1>10 DEF Upcoming
    <2>2. CASE ReceiveTiming(n)
      BY <1>10, <2>1, <2>2 DEF ReceiveTiming, StartTrial, Upcoming
    <2>3. CASE ReceiveResults(n)
      <3>1. PICK timing, failed, consumed :
              EndTrial(n, timing, failed, consumed)
        BY <2>3 DEF ReceiveResults
      <3>2. trial'[n] = NextTrial(trial[n])
        BY <3>1 DEF EndTrial, TypeOK, EmissionTypeOK
      <3>3. QED
        BY <1>10, <2>1, <2>3, <3>2 DEF ReceiveResults, Upcoming
    <2>4. QED
      BY <2>2, <2>3
  <1>14. Upcoming(Peer(n))' = Upcoming(Peer(n))
    BY <1>5, <1>6 DEF Upcoming
  <1>15. Upcoming("left")' = Upcoming("right")'
    BY <1>2, <1>13, <1>14 DEF Node, Peer
  <1>16. TimeInv(a, c, o)'
    BY <1>1, <1>5, <1>9, <1>12, <1>15 DEF TimeInv
  <1>17. QED
    BY <1>16 DEF Timely

\* Neither rules that consume a resource nor a stop matter to the timing.
LEMMA AsideTimely ==
  ASSUME Timely, busy' \subseteq busy,
         UNCHANGED <<analyzerVars, homVars, fiber, trial, tracker, schedules,
                     emissions>>
  PROVE  Timely'
  <1>1. PICK a \in Int, c \in [Node -> Nat], o \in [Node -> Nat] :
          TimeInv(a, c, o)
    BY DEF Timely
  <1>2. /\ booting' = booting /\ results' = results /\ inbox' = inbox
        /\ UNCHANGED analyzerVars
        /\ \A n \in Node : Calm(n)
    BY DEF homVars, Calm
  <1>3. CASE booting
    <2>1. Resting'
      BY <1>1, <1>2, <1>3 DEF TimeInv, Resting, analyzerVars
    <2>2. TimeInv(a, c, o)'
      BY <1>2, <1>3, <2>1 DEF TimeInv
    <2>3. QED
      BY <2>2 DEF Timely
  <1>4. CASE ~ booting
    <2>1. /\ \A m \in Node : EndInv(m, a, c[m], o[m])
          /\ Phase(a, c, o) /\ Upcoming("left") = Upcoming("right")
      BY <1>1, <1>4 DEF TimeInv
    <2>2. ASSUME NEW m \in Node PROVE EndInv(m, a, c[m], o[m])'
      <3>1. Free(m, busy) \subseteq Free(m, busy')
        BY DEF Free
      <3>2. QED
        BY <1>2, <2>1, <3>1, AsideKept
    <2>3. \A m \in Node : BurstOver(m) => BurstOver(m)'
      BY DEF BurstOver, Plans, Asks
    <2>4. Phase(a, c, o)'
      BY <1>2, <2>1, <2>3, Ends, PhaseKept
    <2>5. Upcoming("left")' = Upcoming("right")'
      BY <1>2, <2>1 DEF Upcoming
    <2>6. TimeInv(a, c, o)'
      BY <1>2, <1>4, <2>2, <2>4, <2>5 DEF TimeInv
    <2>7. QED
      BY <2>6 DEF Timely
  <1>5. QED
    BY <1>3, <1>4

\* The first message to an end is the only one.
LEMMA OnlyNotice ==
  ASSUME NEW x \in Notice
  PROVE  Append(<<>>, x) = <<x>>
  BY <<>> \in Seq(Notice)

\* What the controller tells an end is a message.
LEMMA TellsNotice ==
  ASSUME NEW n \in Node, NEW combined \in BOOLEAN, NEW failed \in Seq(BOOLEAN),
         inbox[n] = <<>>, Notify(combined, failed)
  PROVE  /\ inbox'[n] = <<[in |-> Delay[n], timing |-> StartTiming(n),
                           combined |-> combined, failed |-> failed]>>
         /\ inbox'[n] # <<>> /\ Head(inbox'[n]).combined = combined
  <1>1. [in |-> Delay[n], timing |-> StartTiming(n),
         combined |-> combined, failed |-> failed] \in Notice
    BY Ticks DEF Notice
  <1>2. inbox'[n] = <<[in |-> Delay[n], timing |-> StartTiming(n),
                       combined |-> combined, failed |-> failed]>>
    BY <1>1, OnlyNotice DEF Notify
  <1>3. QED
    BY <1>2

\* The passing of time leaves the ends in time.
LEMMA TickTimely ==
  ASSUME TypeOK, NEW a \in Int, NEW c \in [Node -> Nat],
         NEW o \in [Node -> Nat], TimeInv(a, c, o), Tick
  PROVE  Timely'
  <1>1. ~ booting
    BY DEF Tick, Quiet
  <1>2. /\ \A m \in Node : EndInv(m, a, c[m], o[m])
        /\ Phase(a, c, o) /\ Upcoming("left") = Upcoming("right")
    BY <1>1 DEF TimeInv
  <1>3. /\ reports = <<>> /\ reports' = reports /\ results' = results
        /\ trialDone' = trialDone /\ sendResult' = sendResult
        /\ lastDetected' = lastDetected /\ origin' = origin
        /\ tracker' = tracker /\ trial' = trial /\ booting' = booting
        /\ Judged' = Judged
    BY DEF Tick, Quiet, Judged
  <1>4. \A m \in Node :
          /\ arrived'[m] = "no" <=> arrived[m] = "no"
          /\ arrived'[m] # "now"
    BY DEF Tick, AgeArrivals, TypeOK, AnalyzerTypeOK
  <1>5. ASSUME NEW m \in Node
        PROVE  /\ EndInv(m, a - 1, c[m], o[m])'
               /\ inbox'[m] = <<>> <=> inbox[m] = <<>>
               /\ inbox[m] # <<>> =>
                    Head(inbox'[m]).combined = Head(inbox[m]).combined
    <2>1. EndInv(m, a - 1, c[m], o[m])'
      BY <1>2, TickKeepsEnd
    <2>2. /\ inbox'[m] = <<>> <=> inbox[m] = <<>>
          /\ Len(inbox'[m]) = Len(inbox[m])
          /\ \A i \in 1 .. Len(inbox[m]) :
               inbox'[m][i].combined = inbox[m][i].combined
      BY TickEnd
    <2>3. ASSUME inbox[m] # <<>>
          PROVE  Head(inbox'[m]).combined = Head(inbox[m]).combined
      <3>1. Len(inbox[m]) = 1
        BY <1>2, <2>3 DEF EndInv, Awaiting
      <3>2. inbox'[m][1].combined = inbox[m][1].combined
        BY <2>2, <3>1
      <3>3. Head(inbox'[m]) = inbox'[m][1] /\ Head(inbox[m]) = inbox[m][1]
        BY <2>2, <2>3
      <3>4. QED
        BY <3>2, <3>3
    <2>4. QED
      BY <2>1, <2>2, <2>3
  <1>6. \A i \in Nat : Slot(a, i) \in Int /\ Slot(a - 1, i) = Slot(a, i) - 1
    BY Slots
  <1>7. Phase(a - 1, c, o)'
    <2>1. CASE Measuring(a, c, o)
      <3>1. Even(c) => Even(c)'
        BY <1>3, <1>4 DEF Even
      <3>2. ASSUME NEW p \in Node, Waits(p, a, c) PROVE Waits(p, a - 1, c)'
        <4>1. PICK j \in Nat : j = c[p]
          OBVIOUS
        <4>2. Slot(a, j) \in Int /\ Slot(a - 1, j) = Slot(a, j) - 1
          BY <1>6
        <4>3. Slot(a, j) <= 0
          BY <3>2, <4>1 DEF Waits
        <4>4. Slot(a - 1, c[p]) < 0 /\ Slot(a - 1, c[p]) <= 0
          BY <4>1, <4>2, <4>3
        <4>5. BurstOver(Peer(p)) => BurstOver(Peer(p))'
          BY Ends, TickKeepsBurst
        <4>6. Peer(p) \in Node
          BY Ends
        <4>7. \/ c[p] = Judged' + 1
              \/ BurstOver(Peer(p))' /\ tracker'[Peer(p)] = <<>>
          BY <1>3, <3>2, <4>5 DEF Waits
        <4>8. QED
          BY <1>3, <1>4, <3>2, <4>4, <4>6, <4>7 DEF Waits
      <3>3. Judged > 0 => a - 1 <= 0
        BY <2>1 DEF Measuring
      <3>4. \A n \in Node : inbox'[n] # <<>> => ~ Head(inbox'[n]).combined
        BY <1>5, <2>1 DEF Measuring
      <3>5. Measuring(a - 1, c, o)'
        BY <1>3, <2>1, <3>1, <3>2, <3>3, <3>4 DEF Measuring
      <3>6. QED
        BY <3>5 DEF Phase
    <2>2. CASE Ending(a, c, o)
      BY <1>3, <2>2 DEF Ending
    <2>3. CASE Settled(c)
      BY <1>3, <2>3 DEF Settled, Phase
    <2>4. QED
      BY <1>2, <2>1, <2>2, <2>3 DEF Phase
  <1>8. \A n \in Node : Upcoming(n)' = Upcoming(n)
    BY <1>3, <1>5 DEF Upcoming
  <1>9. Upcoming("left")' = Upcoming("right")'
    BY <1>2, <1>8 DEF Node
  <1>10. TimeInv(a - 1, c, o)'
    BY <1>1, <1>3, <1>5, <1>7, <1>9 DEF TimeInv
  <1>11. QED
    BY <1>10 DEF Timely

\* The controller starts: the first trial is on its way to both ends.
LEMMA BootTimely ==
  ASSUME TypeOK, NEW a \in Int, NEW c \in [Node -> Nat],
         NEW o \in [Node -> Nat], TimeInv(a, c, o), ControllerBoots
  PROVE  Timely'
  <1>1. booting /\ Resting /\ ~ booting'
    BY DEF ControllerBoots, Boot, TimeInv
  <1>2. /\ tracker' = tracker /\ schedules' = schedules /\ trial' = trial
        /\ emissions' = emissions /\ fiber' = fiber /\ results' = results
        /\ UNCHANGED analyzerVars
    BY DEF ControllerBoots, Boot, emissionVars
  <1>3. \A n \in Node :
          /\ inbox'[n] = <<[in |-> Delay[n], timing |-> StartTiming(n),
                            combined |-> FALSE, failed |-> <<>>]>>
          /\ inbox'[n] # <<>> /\ Head(inbox'[n]).combined = FALSE
    <2>1. Notify(FALSE, <<>>)
      BY DEF ControllerBoots, Boot
    <2>2. <<>> \in Seq(BOOLEAN)
      OBVIOUS
    <2>3. QED
      BY <1>1, <2>1, <2>2, TellsNotice DEF Resting
  <1>4. PICK z \in [Node -> Nat] : z = [n \in Node |-> 0]
    OBVIOUS
  <1>5. \A n \in Node : EndInv(n, Lead, z[n], z[n])'
    <2>1. ASSUME NEW n \in Node PROVE EndInv(n, Lead, 0, 0)'
      BY <1>1, <1>2, <1>3, BootKeepsEnd DEF Resting
    <2>2. \A n \in Node : z[n] = 0
      BY <1>4
    <2>3. QED
      BY <2>1, <2>2
  <1>6. \A n \in Node : inbox'[n] # <<>> /\ ~ Head(inbox'[n]).combined
    BY <1>3
  <1>7. Judged' = 0
    BY <1>1, <1>2 DEF Judged, Resting, analyzerVars
  <1>8. /\ \A n \in Node : arrived'[n] = "no" /\ ~ lastDetected'[n]
        /\ ~ trialDone' /\ reports' = <<>> /\ ~ sendResult'
    BY <1>1, <1>2 DEF Resting, analyzerVars
  <1>9. Measuring(Lead, z, z)'
    BY <1>4, <1>6, <1>7, <1>8 DEF Measuring, Even
  <1>10. Upcoming("left")' = Upcoming("right")'
    BY <1>1, <1>2, <1>6 DEF Upcoming, Resting, Node
  <1>11. TimeInv(Lead, z, z)'
    BY <1>1, <1>5, <1>9, <1>10 DEF TimeInv, Phase
  <1>12. QED
    <2>1. Lead \in Int
      BY Parameters
    <2>2. QED
      BY <1>11, <2>1 DEF Timely

\* The last report of a trial ends it at both ends.
LEMMA FinishTimely ==
  ASSUME CounterWide, TypeOK, NEW a \in Int, NEW c \in [Node -> Nat],
         NEW o \in [Node -> Nat], TimeInv(a, c, o), ControllerReceives,
         Head(reports).finish
  PROVE  Timely'
  <1>1. ~ booting
    BY Asleep, Ends DEF TimeInv, Node
  <1>2. /\ \A m \in Node : EndInv(m, a, c[m], o[m])
        /\ Phase(a, c, o) /\ Upcoming("left") = Upcoming("right")
    BY <1>1 DEF TimeInv
  <1>3. /\ reports \in Seq(Report) /\ reports # <<>>
        /\ results \in Seq(BOOLEAN)
    BY DEF ControllerReceives, TypeOK, AnalyzerTypeOK, HoMTypeOK
  <1>4. PICK k \in Nat, l \in Nat : k = Len(reports) /\ l = Len(results)
    BY <1>3
  <1>5. k >= 1 /\ reports[1].finish
    BY <1>3, <1>4
  <1>6. Ending(a, c, o) /\ k = 1
    <2>1. ~ Measuring(a, c, o)
      BY <1>4, <1>5 DEF Measuring
    <2>2. ~ Settled(c)
      BY <1>3 DEF Settled
    <2>3. Ending(a, c, o)
      BY <1>2, <2>1, <2>2 DEF Phase
    <2>4. QED
      BY <1>4, <1>5, <2>3 DEF Ending
  <1>7. PICK r \in Nat : r = l + 1 /\ r = Judged
    BY <1>4, <1>6 DEF Judged
  <1>8. PICK failed \in Seq(BOOLEAN) :
          /\ failed = Append(results, Head(reports).failed)
          /\ Len(failed) = r
    <2>1. Head(reports).failed \in BOOLEAN
      <3>1. Head(reports) \in Report
        BY <1>3
      <3>2. QED
        BY <3>1 DEF Report
    <2>2. /\ Append(results, Head(reports).failed) \in Seq(BOOLEAN)
          /\ Len(Append(results, Head(reports).failed)) = Len(results) + 1
      BY <1>3, <2>1
    <2>3. QED
      BY <1>4, <1>7, <2>2
  <1>9. /\ booting' = booting /\ results' = <<>>
        /\ tracker' = tracker /\ trial' = trial /\ schedules' = schedules
        /\ emissions' = emissions /\ fiber' = fiber /\ busy' = busy
        /\ trialDone' = trialDone /\ reports' = Tail(reports)
        /\ Notify(TRUE, failed)
    BY <1>8 DEF ControllerReceives, Finish, emissionVars
  <1>10. \A n \in Node : /\ o[n] = 0 /\ r <= c[n] /\ inbox[n] = <<>>
                         /\ 0 - Jitter <= Slot(a, r) /\ Slot(a, r) <= 0
    BY <1>6, <1>7 DEF Ending
  <1>11. \A n \in Node :
           /\ inbox'[n] = <<[in |-> Delay[n], timing |-> StartTiming(n),
                             combined |-> TRUE, failed |-> failed]>>
           /\ inbox'[n] # <<>> /\ Head(inbox'[n]).combined = TRUE
    BY <1>9, <1>10, TellsNotice
  <1>12. PICK z \in [Node -> Nat], q \in [Node -> Nat] :
           z = [n \in Node |-> 0] /\ q = [n \in Node |-> Len(fiber[n])]
    BY EndTypes
  <1>13. ASSUME NEW n \in Node PROVE EndInv(n, Lead, z[n], q[n])'
    <2>1. PICK j \in Nat : j = c[n]
      OBVIOUS
    <2>2. EndInv(n, a, j, 0) /\ r <= j /\ r >= 1
      BY <1>2, <1>7, <1>10, <2>1
    <2>3. PICK h \in Nat : h = Len(fiber[n])
      BY EndTypes
    <2>4. EndInv(n, Lead, 0, h)'
      BY <1>8, <1>9, <1>10, <1>11, <2>2, <2>3, FinishKeepsEnd
    <2>5. z[n] = 0 /\ q[n] = h
      BY <1>12, <2>3
    <2>6. QED
      BY <2>4, <2>5
  <1>14. Settled(z)'
    <2>1. Tail(reports) = <<>>
      <3>1. Len(reports) = 1
        BY <1>4, <1>6
      <3>2. Tail(reports) \in Seq(Report) /\ Len(Tail(reports)) = 0
        BY <1>3, <3>1
      <3>3. QED
        BY <3>2, EmptySeq
    <2>2. QED
      BY <1>6, <1>9, <1>12, <2>1 DEF Settled, Ending
  <1>15. Upcoming("left")' = Upcoming("right")'
    <2>1. \A n \in Node : Upcoming(n)' = NextTrial(trial[n])
      BY <1>9, <1>11 DEF Upcoming
    <2>2. trial["left"] = trial["right"]
      BY <1>2, <1>10 DEF Upcoming, Node
    <2>3. QED
      BY <2>1, <2>2 DEF Node
  <1>16. TimeInv(Lead, z, q)'
    BY <1>1, <1>9, <1>13, <1>14, <1>15 DEF TimeInv, Phase
  <1>17. QED
    <2>1. Lead \in Int
      BY Parameters
    <2>2. QED
      BY <1>16, <2>1 DEF Timely

\* Any other report is put aside.
LEMMA AccumulateTimely ==
  ASSUME TypeOK, NEW a \in Int, NEW c \in [Node -> Nat],
         NEW o \in [Node -> Nat], TimeInv(a, c, o), ControllerReceives,
         ~ Head(reports).finish
  PROVE  Timely'
  <1>1. ~ booting
    BY Asleep, Ends DEF TimeInv, Node
  <1>2. /\ \A m \in Node : EndInv(m, a, c[m], o[m])
        /\ Phase(a, c, o) /\ Upcoming("left") = Upcoming("right")
    BY <1>1 DEF TimeInv
  <1>3. /\ reports \in Seq(Report) /\ reports # <<>>
        /\ results \in Seq(BOOLEAN)
    BY DEF ControllerReceives, TypeOK, AnalyzerTypeOK, HoMTypeOK
  <1>4. PICK k \in Nat, l \in Nat : k = Len(reports) /\ l = Len(results)
    BY <1>3
  <1>5. /\ booting' = booting /\ inbox' = inbox
        /\ tracker' = tracker /\ trial' = trial /\ schedules' = schedules
        /\ emissions' = emissions /\ fiber' = fiber /\ busy' = busy
        /\ trialDone' = trialDone /\ reports' = Tail(reports)
        /\ arrived' = arrived /\ origin' = origin
        /\ lastDetected' = lastDetected /\ sendResult' = sendResult
        /\ results' = Append(results, Head(reports).failed)
    BY DEF ControllerReceives, Accumulate, emissionVars
  <1>6. /\ Len(reports') = k - 1 /\ Len(results') = l + 1
        /\ \A i \in 1 .. k - 1 : reports'[i] = reports[i + 1]
    <2>1. Head(reports).failed \in BOOLEAN
      <3>1. Head(reports) \in Report
        BY <1>3
      <3>2. QED
        BY <3>1 DEF Report
    <2>2. QED
      BY <1>3, <1>4, <1>5, <2>1
  <1>7. Judged' = Judged /\ k >= 1 /\ ~ reports[1].finish
    BY <1>3, <1>4, <1>6 DEF Judged
  <1>8. Concluded => Concluded'
    <2>1. ASSUME Concluded PROVE k >= 2
      <3>1. ~ Measuring(a, c, o) /\ ~ Settled(c)
        BY <1>3, <2>1 DEF Concluded, Measuring, Settled
      <3>2. Ending(a, c, o)
        BY <1>2, <3>1 DEF Phase
      <3>3. k # 1
        BY <1>4, <1>7, <3>2 DEF Ending
      <3>4. QED
        BY <1>7, <3>3
    <2>2. k >= 2 => reports' # <<>>
      BY <1>6
    <2>3. QED
      BY <1>5, <2>1, <2>2 DEF Concluded
  <1>9. ASSUME NEW n \in Node PROVE EndInv(n, a, c[n], o[n])'
    <2>1. Calm(n) /\ Free(n, busy) \subseteq Free(n, busy')
      BY <1>5 DEF Calm
    <2>2. Marked(n, o[n]) => Marked(n, o[n])'
      BY <1>5, <1>8 DEF Marked, LastMarked
    <2>3. QED
      BY <1>2, <1>5, <2>1, <2>2, EndKept
  <1>10. \A m \in Node : BurstOver(m) => BurstOver(m)'
    BY <1>5 DEF BurstOver, Plans, Asks
  <1>11. Phase(a, c, o)'
    <2>1. CASE Measuring(a, c, o)
      <3>1. Even(c) => Even(c)'
        BY <1>5, <1>7 DEF Even
      <3>2. \A p \in Node : Waits(p, a, c) => Waits(p, a, c)'
        BY <1>5, <1>7, <1>10, Ends DEF Waits
      <3>3. \A i \in 1 .. Len(reports') : ~ reports'[i].finish
        BY <1>4, <1>6, <2>1 DEF Measuring
      <3>4. Measuring(a, c, o)'
        BY <1>5, <1>7, <2>1, <3>1, <3>2, <3>3 DEF Measuring
      <3>5. QED
        BY <3>4 DEF Phase
    <2>2. CASE Ending(a, c, o)
      <3>1. k # 1
        BY <1>4, <1>7, <2>2 DEF Ending
      <3>2. reports' # <<>>
        BY <1>6, <1>7, <3>1
      <3>3. \A i \in 1 .. Len(reports') : reports'[i].finish <=> i = Len(reports')
        BY <1>4, <1>6, <2>2 DEF Ending
      <3>4. Ending(a, c, o)'
        BY <1>5, <1>7, <2>2, <3>2, <3>3 DEF Ending
      <3>5. QED
        BY <3>4 DEF Phase
    <2>3. ~ Settled(c)
      BY <1>3 DEF Settled
    <2>4. QED
      BY <1>2, <2>1, <2>2, <2>3 DEF Phase
  <1>12. Upcoming("left")' = Upcoming("right")'
    BY <1>2, <1>5 DEF Upcoming
  <1>13. TimeInv(a, c, o)'
    BY <1>1, <1>5, <1>9, <1>11, <1>12 DEF TimeInv
  <1>14. QED
    BY <1>13 DEF Timely

\* A photon that arrives leaves the tables of the ends and the controller
\* alone, and the analyzer acts on it.
LEMMA ArrivalFrame ==
  ASSUME TypeOK, NEW p \in Node, PhotonArrives(p)
  PROVE  /\ fiber[p] # <<>> /\ Head(fiber[p]) = fiber[p][1]
         /\ Head(fiber[p]) \in FlyingPhoton
         /\ fiber[p][1].in = 0 /\ Len(fiber[p]) \in Nat /\ Len(fiber[p]) >= 1
         /\ fiber'[p] = Tail(fiber[p]) /\ fiber'[Peer(p)] = fiber[Peer(p)]
         /\ AnalyzerActs(p, fiber[p][1])
         /\ UNCHANGED <<emissionVars, homVars>>
         /\ \A n \in Node : Calm(n) /\ schedules'[n] = schedules[n]
                                    /\ emissions'[n] = emissions[n]
         /\ busy' = busy /\ booting' = booting /\ results' = results
         /\ inbox' = inbox /\ tracker' = tracker /\ trial' = trial
  <1>1. /\ fiber[p] \in Seq(FlyingPhoton) /\ fiber[p] # <<>>
        /\ Head(fiber[p]).in = 0
        /\ fiber' = [fiber EXCEPT ![p] = Tail(@)]
        /\ UNCHANGED <<emissionVars, homVars>>
    BY FiberTyped DEF PhotonArrives
  <1>2. /\ Head(fiber[p]) = fiber[p][1] /\ Head(fiber[p]) \in FlyingPhoton
        /\ Len(fiber[p]) \in Nat /\ Len(fiber[p]) >= 1
    BY <1>1
  <1>3. AnalyzerActs(p, Head(fiber[p]))
    BY DEF PhotonArrives, AnalyzerActs
  <1>4. fiber'[p] = Tail(fiber[p]) /\ fiber'[Peer(p)] = fiber[Peer(p)]
    <2>1. Peer(p) \in Node /\ Peer(p) # p
      BY Ends
    <2>2. QED
      BY <1>1, <2>1 DEF TypeOK
  <1>5. /\ busy' = busy /\ booting' = booting /\ results' = results
        /\ inbox' = inbox /\ tracker' = tracker /\ trial' = trial
        /\ schedules' = schedules /\ emissions' = emissions
    BY <1>1 DEF emissionVars, homVars
  <1>6. QED
    BY <1>1, <1>2, <1>3, <1>4, <1>5 DEF Calm

\* A last photon that the analyzer takes in is noted as such, unless photons
\* behind it are on their way.
LEMMA LastTaken ==
  ASSUME TypeOK, NEW p \in Node, PhotonArrives(p), NEW o \in Nat, NEW o1 \in Nat,
         o <= Len(fiber[p]), IF o > 0 THEN o1 = o - 1 ELSE o1 = 0,
         fiber[p][1].first => o = 0,
         lastDetected'[p] =
           (fiber[p][1].last \/ (~ fiber[p][1].first /\ lastDetected[p]))
  PROVE  LastMarked(p, o) => LastMarked(p, o1)'
  <1>1. PICK k \in Nat : k = Len(fiber[p]) /\ k >= 1 /\ o <= k
    <2>1. Len(fiber[p]) \in Nat /\ Len(fiber[p]) >= 1
      BY ArrivalFrame
    <2>2. QED
      BY <2>1
  <1>2. fiber[p] \in Seq(FlyingPhoton) /\ fiber'[p] = Tail(fiber[p])
    BY ArrivalFrame, EndTypes
  <1>3. /\ Len(fiber'[p]) = k - 1
        /\ k > 1 => fiber'[p][k - 1] = fiber[p][k]
    BY <1>1, <1>2
  <1>4. CASE o > 0 /\ k = o
    <2>1. LastMarked(p, o) => lastDetected[p]
      BY <1>1, <1>4 DEF LastMarked
    <2>2. lastDetected[p] => lastDetected'[p]
      <3>1. ~ fiber[p][1].first
        BY <1>4
      <3>2. QED
        BY <3>1
    <2>3. Len(fiber'[p]) = o1
      BY <1>1, <1>3, <1>4
    <2>4. lastDetected'[p] => LastMarked(p, o1)'
      BY <2>3 DEF LastMarked
    <2>5. QED
      BY <2>1, <2>2, <2>4
  <1>5. CASE k > o /\ k > 1
    <2>1. k - 1 > o1
      BY <1>1, <1>5
    <2>2. QED
      BY <1>1, <1>3, <1>5, <2>1 DEF LastMarked
  <1>6. CASE k > o /\ k = 1
    <2>1. Len(fiber[p]) > o /\ Len(fiber[p]) = 1
      BY <1>1, <1>6
    <2>2. LastMarked(p, o) => fiber[p][1].last
      BY <2>1 DEF LastMarked
    <2>3. ~ (Len(fiber'[p]) > o1)
      BY <1>1, <1>3, <1>6
    <2>4. lastDetected'[p] => LastMarked(p, o1)'
      BY <2>3 DEF LastMarked
    <2>5. QED
      BY <2>2, <2>4
  <1>7. \/ o > 0 /\ k = o
        \/ k > o /\ k > 1
        \/ k > o /\ k = 1
    <2>1. \A x, y \in Nat : x >= 1 /\ y <= x =>
            (y > 0 /\ x = y) \/ (x > y /\ x > 1) \/ (x > y /\ x = 1)
      OBVIOUS
    <2>2. QED
      BY <1>1, <2>1, Zenon
  <1>8. QED
    BY <1>4, <1>5, <1>6, <1>7

\* A photon of a trial that is over is dumped.
LEMMA LatePhotonTimely ==
  ASSUME TypeOK, NEW a \in Int, NEW c \in [Node -> Nat],
         NEW o \in [Node -> Nat], TimeInv(a, c, o), NEW p \in Node,
         PhotonArrives(p), o[p] > 0
  PROVE  Timely'
  <1>1. ~ booting
    BY Asleep DEF TimeInv
  <1>2. /\ \A m \in Node : EndInv(m, a, c[m], o[m])
        /\ Phase(a, c, o) /\ Upcoming("left") = Upcoming("right")
    BY <1>1 DEF TimeInv
  <1>3. PICK h \in Nat : h = o[p]
    OBVIOUS
  <1>4. Settled(c)
    BY <1>2 DEF Phase, Measuring, Ending
  <1>5. ~ fiber[p][1].first /\ h <= Len(fiber[p])
    <2>1. InFiber(p, a, c[p], h)
      BY <1>2, <1>3 DEF EndInv
    <2>2. 1 \in 1 .. h
      BY <1>3
    <2>3. QED
      BY <2>1, <2>2 DEF InFiber
  <1>6. Dump(p, fiber[p][1])
    BY <1>4, <1>5, ArrivalFrame DEF AnalyzerActs, Await, Misfire, Coincide,
       Opens, Settled
  <1>7. /\ trialDone' = trialDone /\ reports' = reports
        /\ lastDetected'[p] =
             (fiber[p][1].last \/ (~ fiber[p][1].first /\ lastDetected[p]))
        /\ lastDetected'[Peer(p)] = lastDetected[Peer(p)]
    <2>1. Peer(p) \in Node /\ Peer(p) # p
      BY Ends
    <2>2. lastDetected[Peer(p)] \in BOOLEAN
      BY <2>1 DEF TypeOK, AnalyzerTypeOK
    <2>3. QED
      BY <1>5, <1>6, <2>1, <2>2 DEF Dump, TakeIn, LastSeen, Opens
  <1>8. PICK q \in [Node -> Nat] : q = [o EXCEPT ![p] = h - 1]
    <2>1. h - 1 \in Nat
      BY <1>3
    <2>2. QED
      BY <2>1
  <1>9. q[p] = h - 1 /\ q[Peer(p)] = o[Peer(p)]
    BY <1>8, Ends
  <1>10. EndInv(p, a, c[p], h - 1)'
    <2>1. LastMarked(p, h) => LastMarked(p, h - 1)'
      <3>1. PICK g \in Nat : g = h - 1 /\ h > 0
        BY <1>3
      <3>2. fiber[p][1].first => h = 0
        BY <1>5
      <3>3. LastMarked(p, h) => LastMarked(p, g)'
        BY <1>5, <1>7, <3>1, <3>2, LastTaken
      <3>4. QED
        BY <3>1, <3>3
    <2>2. Marked(p, h) => Marked(p, h - 1)'
      BY <1>7, <2>1 DEF Marked, Concluded
    <2>3. PICK j \in Nat : j = c[p]
      OBVIOUS
    <2>4. EndInv(p, a, j, h) /\ h - 1 \in Nat /\ h > 0
      BY <1>2, <1>3, <2>3
    <2>5. EndInv(p, a, j, h - 1)'
      BY <2>2, <2>4, ArrivalFrame, ArriveKeepsEnd
    <2>6. QED
      BY <2>3, <2>5
  <1>11. EndInv(Peer(p), a, c[Peer(p)], o[Peer(p)])'
    <2>1. Peer(p) \in Node
      BY Ends
    <2>2. fiber'[Peer(p)] = fiber[Peer(p)] /\ busy' = busy
      BY ArrivalFrame
    <2>3. Marked(Peer(p), o[Peer(p)]) => Marked(Peer(p), o[Peer(p)])'
      BY <1>7, <2>2 DEF Marked, LastMarked, Concluded
    <2>4. Free(Peer(p), busy) \subseteq Free(Peer(p), busy')
      BY <2>2
    <2>5. QED
      BY <1>2, <2>1, <2>2, <2>3, <2>4, ArrivalFrame, EndKept
  <1>12. \A m \in Node : EndInv(m, a, c[m], q[m])'
    <2>1. EndInv(p, a, c[p], q[p])'
      BY <1>9, <1>10
    <2>2. EndInv(Peer(p), a, c[Peer(p)], q[Peer(p)])'
      BY <1>9, <1>11
    <2>3. QED
      BY <2>1, <2>2, Ends
  <1>13. Settled(c)'
    BY <1>4, <1>7, ArrivalFrame DEF Settled
  <1>14. Upcoming("left")' = Upcoming("right")'
    BY <1>2, ArrivalFrame DEF Upcoming
  <1>15. TimeInv(a, c, q)'
    BY <1>1, <1>12, <1>13, <1>14, ArrivalFrame DEF TimeInv, Phase
  <1>16. QED
    BY <1>15 DEF Timely

\* A photon of the running trial arrives in its slot, when no message and no
\* photon of an earlier trial is on its way.
LEMMA ArrivesInSlot ==
  ASSUME CounterWide, TypeOK, NEW p \in Node, NEW a \in Int, NEW j \in Nat,
         EndInv(p, a, j, 0), fiber[p] # <<>>, fiber[p][1].in = 0
  PROVE  /\ a <= 0 /\ inbox[p] = <<>>
         /\ InSlot(p, a, fiber[p][1], j + 1)
         /\ 0 - Jitter <= Slot(a, j + 1) /\ Slot(a, j + 1) <= 0
         /\ fiber[p][1].first = (j = 0)
         /\ fiber[p][1].qubit = tracker[p][j + 1]
         /\ tracker[p] # <<>>
  <1>1. PICK k \in Nat, l \in Nat : k = Len(fiber[p]) /\ l = Len(tracker[p])
    BY EndTypes
  <1>2. k >= 1 /\ fiber[p][1].in = 0
    BY <1>1, EndTypes, EmptySeq
  <1>3. InFiber(p, a, j, 0)
    BY DEF EndInv
  <1>4. inbox[p] = <<>> /\ l = j + k - 0
    BY <1>1, <1>2, <1>3 DEF InFiber
  <1>5. InSlot(p, a, fiber[p][1], j + 1)
    <2>1. 1 \in (0 + 1) .. k /\ j + 1 - 0 = j + 1
      BY <1>2
    <2>2. InSlot(p, a, fiber[p][1], j + 1 - 0)
      BY <1>1, <1>3, <2>1 DEF InFiber
    <2>3. QED
      BY <2>1, <2>2
  <1>6. PICK g \in Int : g = Slot(a, j + 1)
    <2>1. j + 1 \in Nat
      OBVIOUS
    <2>2. QED
      BY <2>1, Slots, Zenon
  <1>7. Jitter \in Nat
    BY Parameters
  <1>8. 0 - Jitter <= g /\ g <= 0
    BY <1>2, <1>5, <1>6, <1>7 DEF InSlot
  <1>9. a <= 0
    <2>1. Slot(a, 1) <= Slot(a, j + 1) /\ Slot(a, 1) = a
      BY SlotsApart, Slots
    <2>2. QED
      BY <1>6, <1>8, <2>1
  <1>10. fiber[p][1].first = (j = 0)
    BY <1>5 DEF InSlot
  <1>11. tracker[p] # <<>>
    <2>1. Len(tracker[p]) # 0
      BY <1>1, <1>2, <1>4
    <2>2. QED
      BY <2>1, EndTypes
  <1>12. QED
    BY <1>4, <1>5, <1>6, <1>8, <1>9, <1>10, <1>11 DEF InSlot

\* When the next photon of one end arrives while one of it waits, the burst
\* of the other end is over without it.
LEMMA Overtaken ==
  ASSUME CounterWide, TypeOK, NEW q \in Node, NEW a \in Int, NEW j \in Nat,
         EndInv(q, a, j, 0), a <= 0, ~ trialDone, ~ lastDetected[q],
         Slot(a, j + 2) <= 0
  PROVE  BurstOver(q) /\ tracker[q] = <<>>
  <1>p. /\ Interval \in Nat /\ Jitter \in Nat /\ Jitter < Interval
        /\ Delay[q] \in Nat /\ Lead \in Nat /\ Lead > 0
        /\ 2 * Delay[q] <= Lead
    BY Parameters, LeadPositive
  <1>1. PICK k \in Nat, l \in Nat : k = Len(fiber[q]) /\ l = Len(tracker[q])
    BY EndTypes
  <1>2. PICK g \in Int, e \in Int :
          g = Slot(a, j + 1) /\ e = Slot(a, j) /\ Slot(a, j + 2) = g + Interval
          /\ g = e + Interval
    <2>1. j + 1 \in Nat /\ (j + 1) + 1 = j + 2
      OBVIOUS
    <2>2. Slot(a, (j + 1) + 1) = Slot(a, j + 1) + Interval
      BY <2>1, Slots
    <2>3. Slot(a, j + 1) = Slot(a, j) + Interval
      BY Slots
    <2>4. Slot(a, j + 1) \in Int /\ Slot(a, j) \in Int
      BY <2>1, Slots
    <2>5. QED
      BY <2>1, <2>2, <2>3, <2>4
  <1>3. g + Jitter < 0 /\ g < 0 /\ e < 0
    BY <1>p, <1>2
  <1>4. inbox[q] = <<>>
    BY Undisturbed
  <1>5. k = 0
    <2>1. ASSUME k >= 1 PROVE FALSE
      <3>1. 1 \in (0 + 1) .. k /\ j + 1 - 0 = j + 1
        BY <2>1
      <3>2. InSlot(q, a, fiber[q][1], j + 1 - 0)
        BY <1>1, <3>1 DEF EndInv, InFiber
      <3>3. fiber[q][1].in <= Slot(a, j + 1) + Jitter
        BY <3>1, <3>2 DEF InSlot
      <3>4. PICK left \in Nat : left = fiber[q][1].in
        <4>1. 1 \in 1 .. Len(fiber[q])
          BY <1>1, <2>1
        <4>2. QED
          BY <4>1, EndTypes
      <3>5. QED
        BY <1>p, <1>2, <1>3, <3>3, <3>4
    <2>2. QED
      BY <2>1
  <1>6. l = j
    <2>1. l = j + k - 0
      BY <1>1, <1>4 DEF EndInv, InFiber
    <2>2. QED
      BY <1>5, <2>1
  <1>7. ~ Marked(q, 0)
    BY <1>1, <1>5 DEF Marked, LastMarked, Concluded
  <1>8. Running(q, a, 0)
    BY <1>4 DEF EndInv
  <1>9. ASSUME NEW x \in Nat, x + Delay[q] = Slot(a, Len(tracker[q]) + 1)
        PROVE  FALSE
    <2>1. Len(tracker[q]) + 1 = j + 1
      BY <1>1, <1>6
    <2>2. x + Delay[q] = g
      BY <1>2, <1>9, <2>1
    <2>3. QED
      BY <1>p, <1>3, <2>2
  <1>10. a # Lead - Delay[q]
    BY <1>p
  <1>11. Slot(a, Len(tracker[q])) # Delay[q]
    BY <1>p, <1>1, <1>2, <1>3, <1>6, SMTT(30)
  <1>12. QED
    BY <1>7, <1>8, <1>9, <1>10, <1>11 DEF Running

\* Where everything is when a photon of the running trial arrives.
LEMMA Arriving ==
  ASSUME CounterWide, TypeOK, NEW a \in Int, NEW c \in [Node -> Nat],
         NEW o \in [Node -> Nat], TimeInv(a, c, o), NEW p \in Node,
         PhotonArrives(p), o[p] = 0
  PROVE  /\ ~ booting /\ Phase(a, c, o) /\ Upcoming("left") = Upcoming("right")
         /\ a <= 0
         /\ \A n \in Node : /\ EndInv(n, a, c[n], 0) /\ o[n] = 0
                            /\ inbox[n] = <<>>
         /\ 0 - Jitter <= Slot(a, c[p] + 1) /\ Slot(a, c[p] + 1) <= 0
         /\ fiber[p][1].first = (c[p] = 0)
         /\ fiber[p][1].qubit = tracker[p][c[p] + 1]
         /\ tracker[p] # <<>>
  <1>1. ~ booting
    BY Asleep DEF TimeInv
  <1>2. /\ \A m \in Node : EndInv(m, a, c[m], o[m])
        /\ Phase(a, c, o) /\ Upcoming("left") = Upcoming("right")
    BY <1>1 DEF TimeInv
  <1>3. EndInv(p, a, c[p], 0)
    <2>1. EndInv(p, a, c[p], o[p])
      BY <1>2
    <2>2. QED
      BY <2>1
  <1>4. PICK j \in Nat : j = c[p]
    OBVIOUS
  <1>5. /\ a <= 0
        /\ 0 - Jitter <= Slot(a, j + 1) /\ Slot(a, j + 1) <= 0
        /\ fiber[p][1].first = (j = 0)
        /\ fiber[p][1].qubit = tracker[p][j + 1]
        /\ tracker[p] # <<>>
    BY <1>3, <1>4, ArrivalFrame, ArrivesInSlot
  <1>6. \A n \in Node : inbox[n] = <<>> /\ o[n] = 0
    BY <1>2, <1>5, Undisturbed
  <1>7. ASSUME NEW n \in Node PROVE EndInv(n, a, c[n], 0)
    <2>1. EndInv(n, a, c[n], o[n]) /\ o[n] = 0
      BY <1>2, <1>6
    <2>2. QED
      BY <2>1
  <1>8. QED
    BY <1>1, <1>2, <1>4, <1>5, <1>6, <1>7

LEMMA ArrivingEnds ==
  ASSUME CounterWide, TypeOK, NEW a \in Int, NEW c \in [Node -> Nat],
         NEW o \in [Node -> Nat], TimeInv(a, c, o), NEW p \in Node,
         PhotonArrives(p), o[p] = 0, NEW n \in Node
  PROVE  EndInv(n, a, c[n], 0) /\ o[n] = 0 /\ inbox[n] = <<>>
  BY Arriving

\* A photon of the running trial that arrives leaves the ends in time, when
\* the analyzer does not forget a last photon and keeps to its phases.
LEMMA ArrivalTimely ==
  ASSUME CounterWide, TypeOK, NEW a \in Int, NEW c \in [Node -> Nat],
         NEW o \in [Node -> Nat], TimeInv(a, c, o), NEW p \in Node,
         PhotonArrives(p), o[p] = 0, NEW c1 \in [Node -> Nat],
         c1[p] = c[p] + 1, c1[Peer(p)] = c[Peer(p)],
         lastDetected'[p] =
           (fiber[p][1].last \/ (~ fiber[p][1].first /\ lastDetected[p])),
         Concluded => Concluded',
         tracker[Peer(p)] # <<>> /\ LastMarked(Peer(p), 0) =>
           Marked(Peer(p), 0)',
         Phase(a, c1, o)'
  PROVE  Timely'
  <1>1. /\ ~ booting /\ Upcoming("left") = Upcoming("right") /\ a <= 0
        /\ \A n \in Node : EndInv(n, a, c[n], 0) /\ o[n] = 0
    <2>1. ~ booting /\ Upcoming("left") = Upcoming("right")
      BY Arriving
    <2>2. a <= 0
      BY Arriving
    <2>3. \A n \in Node : EndInv(n, a, c[n], 0) /\ o[n] = 0
      BY ArrivingEnds, ZenonT(40)
    <2>4. QED
      BY <2>1, <2>2, <2>3
  <1>2. EndInv(p, a, c1[p], 0)'
    <2>1. PICK j \in Nat : j = c[p]
      OBVIOUS
    <2>2. EndInv(p, a, j, 0)
      BY <1>1, <2>1
    <2>3. 0 <= Len(fiber[p])
      BY EndTypes
    <2>4. LastMarked(p, 0) => LastMarked(p, 0)'
      BY <2>3, LastTaken
    <2>5. Marked(p, 0) => Marked(p, 0)'
      BY <2>4 DEF Marked
    <2>6. EndInv(p, a, j + 1, 0)'
      BY <2>2, <2>5, ArrivalFrame, ArriveKeepsEnd
    <2>7. c1[p] = j + 1
      BY <2>1
    <2>8. QED
      BY <2>6, <2>7
  <1>3. EndInv(Peer(p), a, c1[Peer(p)], 0)'
    <2>1. PICK q \in Node : q = Peer(p)
      BY Ends
    <2>2. PICK j \in Nat : j = c[q] /\ j = c1[q]
      BY <2>1
    <2>3. EndInv(q, a, j, 0)
      BY <1>1, <2>2
    <2>4. Marked(q, 0) /\ tracker[q] # <<>> => Marked(q, 0)'
      BY <2>1 DEF Marked
    <2>5. fiber'[q] = fiber[q] /\ Free(q, busy) \subseteq Free(q, busy')
      BY <2>1, ArrivalFrame
    <2>6. EndInv(q, a, j, 0)'
      BY <2>3, <2>4, <2>5, ArrivalFrame, EndKept
    <2>7. QED
      BY <2>1, <2>2, <2>6
  <1>4. \A m \in Node : EndInv(m, a, c1[m], o[m])'
    <2>1. EndInv(p, a, c1[p], o[p])'
      BY <1>1, <1>2
    <2>2. o[Peer(p)] = 0
      BY <1>1, Ends
    <2>3. EndInv(Peer(p), a, c1[Peer(p)], o[Peer(p)])'
      BY <1>3, <2>2
    <2>4. QED
      BY <2>1, <2>3, Ends, SMTT(30)
  <1>5. Upcoming("left")' = Upcoming("right")'
    BY <1>1, ArrivalFrame DEF Upcoming
  <1>6. TimeInv(a, c1, o)'
    BY <1>1, <1>4, <1>5, ArrivalFrame DEF TimeInv
  <1>7. QED
    BY <1>6 DEF Timely

\* The photon comes after the round is over, but before its results are sent.
LEMMA SurplusTimely ==
  ASSUME CounterWide, TypeOK, NEW a \in Int, NEW c \in [Node -> Nat],
         NEW o \in [Node -> Nat], TimeInv(a, c, o), NEW p \in Node,
         PhotonArrives(p), o[p] = 0, NEW c1 \in [Node -> Nat],
         c1[p] = c[p] + 1, c1[Peer(p)] = c[Peer(p)], Ending(a, c, o)
  PROVE  Timely'
  <1>1. Judged \in Nat /\ Judged >= 1
    <2>1. reports \in Seq(Report) /\ reports # <<>> /\ results \in Seq(BOOLEAN)
      BY DEF Ending, TypeOK, AnalyzerTypeOK, HoMTypeOK
    <2>2. Len(reports) \in Nat /\ Len(reports) >= 1 /\ Len(results) \in Nat
      BY <2>1
    <2>3. QED
      BY <2>2 DEF Judged
  <1>2. ~ fiber[p][1].first
    <2>1. Judged <= c[p]
      BY DEF Ending
    <2>2. c[p] # 0
      BY <1>1, <2>1
    <2>3. QED
      BY <2>2, Arriving, ZenonT(40)
  <1>3. Dump(p, fiber[p][1])
    BY <1>2, ArrivalFrame DEF AnalyzerActs, Await, Misfire, Coincide, Opens,
       Ending
  <1>4. /\ trialDone' = trialDone /\ reports' = reports
        /\ lastDetected'[p] =
             (fiber[p][1].last \/ (~ fiber[p][1].first /\ lastDetected[p]))
    BY <1>3 DEF Dump, TakeIn, LastSeen
  <1>5. Concluded /\ Concluded'
    BY <1>4 DEF Concluded, Ending
  <1>6. Judged' = Judged
    BY <1>4, ArrivalFrame DEF Judged
  <1>7. \A n \in Node : c1[n] \in Nat /\ Judged <= c1[n]
    <2>1. \A n \in Node : Judged <= c[n]
      BY DEF Ending
    <2>2. c[p] \in Nat /\ Judged <= c1[p]
      BY <1>1, <2>1
    <2>3. Judged <= c1[Peer(p)]
      BY <2>1, Ends
    <2>4. QED
      BY <2>2, <2>3, Ends, ZenonT(40)
  <1>8. Ending(a, c1, o)'
    BY <1>4, <1>6, <1>7, ArrivalFrame, ZenonT(40) DEF Ending
  <1>9. QED
    BY <1>4, <1>5, <1>8, ArrivalTimely DEF Marked, Phase

\* The photon is the first of its trial, and opens the round.
LEMMA OpeningTimely ==
  ASSUME CounterWide, TypeOK, NEW a \in Int, NEW c \in [Node -> Nat],
         NEW o \in [Node -> Nat], TimeInv(a, c, o), NEW p \in Node,
         PhotonArrives(p), o[p] = 0, NEW c1 \in [Node -> Nat],
         c1[p] = c[p] + 1, c1[Peer(p)] = c[Peer(p)], Settled(c)
  PROVE  Timely'
  <1>q. PICK q \in Node : q = Peer(p) /\ q # p
    BY Ends
  <1>1. /\ c[p] = 0 /\ c[q] = 0 /\ fiber[p][1].first = TRUE
        /\ trialDone /\ results = <<>> /\ reports = <<>>
    BY Arriving, ZenonT(40) DEF Settled
  <1>2. Opens(fiber[p][1])
    BY <1>1 DEF Opens
  <1>3. /\ Seen(p, fiber[p][1])[q] = "no" /\ Seen(p, fiber[p][1])[p] = "now"
        /\ LastSeen(p, fiber[p][1])[q] = FALSE
    BY <1>q, <1>2 DEF Seen, LastSeen
  <1>4. Await(p, fiber[p][1])
    BY <1>q, <1>2, <1>3, ArrivalFrame DEF AnalyzerActs, Dump, Misfire, Coincide
  <1>5. /\ trialDone' = FALSE /\ reports' = <<>>
        /\ lastDetected'[p] =
             (fiber[p][1].last \/ (~ fiber[p][1].first /\ lastDetected[p]))
        /\ lastDetected'[q] = FALSE
        /\ arrived'[p] = "now" /\ arrived'[q] = "no"
        /\ lastDetected' = LastSeen(p, fiber[p][1])
        /\ sendResult' = \E n \in Node : LastSeen(p, fiber[p][1])[n]
    BY <1>1, <1>2, <1>3, <1>4 DEF Await, TakeIn, LastSeen, Closing
  <1>6. origin'[p] = fiber[p][1].qubit
    BY <1>4 DEF Await, TypeOK, AnalyzerTypeOK
  <1>7. Judged' = 0
    <2>1. results' = <<>>
      BY <1>1, ArrivalFrame
    <2>2. QED
      BY <1>5, <2>1 DEF Judged
  <1>8. ~ Concluded
    BY <1>1 DEF Concluded
  <1>9. tracker[q] # <<>> /\ LastMarked(q, 0) => Marked(q, 0)'
    <2>1. EndInv(q, a, 0, 0) /\ inbox[q] = <<>>
      <3>1. EndInv(q, a, c[q], 0) /\ inbox[q] = <<>>
        BY Arriving
      <3>2. QED
        BY <1>1, <3>1
    <2>2. PICK k \in Nat, l \in Nat : k = Len(fiber[q]) /\ l = Len(tracker[q])
      BY EndTypes
    <2>3. l = 0 + k - 0
      BY <2>1, <2>2 DEF EndInv, InFiber
    <2>4. tracker[q] # <<>> => Len(fiber[q]) > 0
      <3>1. tracker[q] # <<>> => l # 0
        BY <2>2, EndTypes
      <3>2. QED
        BY <2>2, <2>3, <3>1
    <2>5. fiber'[q] = fiber[q]
      BY <1>q, ArrivalFrame
    <2>6. QED
      BY <2>4, <2>5 DEF Marked, LastMarked
  <1>10. Waits(p, a, c1)'
    <2>1. c1[p] = 1 /\ c1[q] = 0
      BY <1>q, <1>1
    <2>2. Slot(a, 1) <= 0 /\ fiber[p][1].qubit = tracker[p][1]
      <3>1. c[p] + 1 = 1
        BY <1>1
      <3>2. /\ Slot(a, c[p] + 1) <= 0
            /\ fiber[p][1].qubit = tracker[p][c[p] + 1]
        BY Arriving, ZenonT(40)
      <3>3. QED
        BY <3>1, <3>2
    <2>3. tracker' = tracker
      BY ArrivalFrame
    <2>4. QED
      BY <1>q, <1>5, <1>6, <1>7, <2>1, <2>2, <2>3 DEF Waits
  <1>11. Measuring(a, c1, o)'
    <2>1. sendResult' <=> \E n \in Node : lastDetected'[n]
      BY <1>5, Zenon
    <2>2. \A n \in Node : inbox'[n] = <<>> /\ o[n] = 0
      <3>1. \A n \in Node : inbox[n] = <<>> /\ o[n] = 0
        BY ArrivingEnds, ZenonT(40)
      <3>2. inbox' = inbox
        BY ArrivalFrame
      <3>3. QED
        BY <3>1, <3>2
    <2>3. \A i \in 1 .. Len(reports') : ~ reports'[i].finish
      BY <1>5
    <2>4. QED
      BY <1>5, <1>7, <1>10, <2>1, <2>2, <2>3 DEF Measuring
  <1>12. QED
    BY <1>q, <1>5, <1>8, <1>9, <1>11, ArrivalTimely DEF Phase

\* The photon finds no photon of the other end: it waits.
LEMMA AwaitTimely ==
  ASSUME CounterWide, TypeOK, NEW a \in Int, NEW c \in [Node -> Nat],
         NEW o \in [Node -> Nat], TimeInv(a, c, o), NEW p \in Node,
         PhotonArrives(p), o[p] = 0, NEW c1 \in [Node -> Nat],
         c1[p] = c[p] + 1, c1[Peer(p)] = c[Peer(p)], Measuring(a, c, o),
         Even(c) \/ Waits(p, a, c)
  PROVE  Timely'
  <1>q. PICK q \in Node : q = Peer(p) /\ q # p /\ Node = {p, q}
    BY Ends
  <1>0. PICK j \in Nat : j = c[p]
    OBVIOUS
  <1>1. /\ ~ trialDone /\ arrived[q] = "no" /\ ~ lastDetected[q]
        /\ c[q] = Judged /\ Judged \in Nat
        /\ j >= Judged
        /\ j = Judged => ~ lastDetected[p]
        /\ sendResult <=> \E n \in Node : lastDetected[n]
    <2>1. Judged \in Nat
      BY DEF Judged, TypeOK, HoMTypeOK, AnalyzerTypeOK
    <2>2. /\ arrived[q] = "no" /\ ~ lastDetected[q] /\ c[q] = Judged
          /\ j >= Judged /\ (j = Judged => ~ lastDetected[p])
      <3>1. CASE Even(c)
        BY <1>q, <1>0, <2>1, <3>1 DEF Even
      <3>2. CASE Waits(p, a, c)
        BY <1>q, <1>0, <2>1, <3>2 DEF Waits
      <3>3. QED
        BY <3>1, <3>2
    <2>3. QED
      BY <2>1, <2>2 DEF Measuring
  <1>2. ~ Opens(fiber[p][1])
    BY <1>1 DEF Opens
  <1>3. Seen(p, fiber[p][1])[q] = "no" /\ Seen(p, fiber[p][1])[p] = "now"
    BY <1>q, <1>1, <1>2 DEF Seen
  <1>4. Await(p, fiber[p][1])
    BY <1>q, <1>1, <1>3, ArrivalFrame DEF AnalyzerActs, Dump, Misfire, Coincide
  <1>5. /\ trialDone' = FALSE /\ reports' = reports
        /\ lastDetected' = LastSeen(p, fiber[p][1])
        /\ arrived'[p] = "now" /\ arrived'[q] = "no"
        /\ sendResult' = (sendResult \/ \E n \in Node : LastSeen(p, fiber[p][1])[n])
        /\ origin'[p] = fiber[p][1].qubit
    BY <1>2, <1>3, <1>4 DEF Await, TakeIn, Closing, TypeOK, AnalyzerTypeOK
  <1>6. /\ lastDetected'[p] =
             (fiber[p][1].last \/ (~ fiber[p][1].first /\ lastDetected[p]))
        /\ ~ lastDetected'[q]
    BY <1>q, <1>1, <1>2, <1>5 DEF LastSeen
  <1>7. fiber[p][1].first => j = 0
    BY <1>0, Arriving, ZenonT(40)
  <1>8. lastDetected[p] => lastDetected'[p]
    <2>1. lastDetected[p] => j # 0
      BY <1>1
    <2>2. lastDetected[p] => ~ fiber[p][1].first
      BY <1>7, <2>1
    <2>3. QED
      BY <1>6, <2>2
  <1>9. sendResult' <=> \E n \in Node : lastDetected'[n]
    <2>1. sendResult => \E n \in Node : lastDetected'[n]
      BY <1>q, <1>1, <1>8
    <2>2. sendResult' <=> sendResult \/ \E n \in Node : lastDetected'[n]
      BY <1>5
    <2>3. QED
      BY <2>1, <2>2
  <1>10. Judged' = Judged /\ tracker' = tracker
    <2>1. results' = results /\ tracker' = tracker
      BY ArrivalFrame
    <2>2. QED
      BY <1>5, <2>1 DEF Judged
  <1>11. Slot(a, j + 1) <= 0 /\ fiber[p][1].qubit = tracker[p][j + 1] /\ a <= 0
    <2>1. /\ Slot(a, c[p] + 1) <= 0 /\ a <= 0
          /\ fiber[p][1].qubit = tracker[p][c[p] + 1]
      BY Arriving, ZenonT(40)
    <2>2. QED
      BY <1>0, <2>1
  <1>12. j = Judged \/ (BurstOver(q)' /\ tracker'[q] = <<>>)
    <2>1. ASSUME j > Judged PROVE BurstOver(q) /\ tracker[q] = <<>>
      <3>1. Waits(p, a, c)
        BY <1>0, <1>1, <2>1 DEF Even
      <3>2. CASE BurstOver(q) /\ tracker[q] = <<>>
        BY <3>2
      <3>3. CASE j = Judged + 1
        <4>1. PICK i \in Nat : i = Judged /\ i = c[q]
          BY <1>1
        <4>2. EndInv(q, a, i, 0)
          <5>1. EndInv(q, a, c[q], 0)
            BY ArrivingEnds
          <5>2. QED
            BY <4>1, <5>1
        <4>3. j + 1 = i + 2
          BY <3>3, <4>1
        <4>4. Slot(a, i + 2) <= 0
          BY <1>11, <4>3
        <4>5. QED
          BY <1>1, <1>11, <4>2, <4>4, Overtaken
      <3>4. QED
        BY <1>q, <1>0, <3>1, <3>2, <3>3 DEF Waits
    <2>2. BurstOver(q) => BurstOver(q)'
      <3>1. /\ schedules'[q] = schedules[q] /\ emissions'[q] = emissions[q]
            /\ trial' = trial
        BY ArrivalFrame
      <3>2. QED
        BY <3>1 DEF BurstOver, Plans, Asks
    <2>3. j = Judged \/ j > Judged
      BY <1>1
    <2>4. tracker'[q] = tracker[q]
      BY <1>10
    <2>5. QED
      BY <2>1, <2>2, <2>3, <2>4
  <1>13. Waits(p, a, c1)'
    <2>1. c1[p] = j + 1 /\ c1[q] = Judged /\ j + 1 > Judged
      BY <1>q, <1>0, <1>1
    <2>2. origin'[p] = tracker'[p][c1[p]]
      BY <1>5, <1>10, <1>11, <2>1
    <2>3. Slot(a, c1[p]) <= 0 /\ arrived'[p] = "now"
      BY <1>5, <1>11, <2>1
    <2>4. c1[p] = Judged + 1 \/ (BurstOver(q)' /\ tracker'[q] = <<>>)
      BY <1>12, <2>1
    <2>5. QED
      BY <1>q, <1>5, <1>6, <1>10, <2>1, <2>2, <2>3, <2>4 DEF Waits
  <1>14. Measuring(a, c1, o)'
    <2>1. \A n \in Node : inbox'[n] = <<>> /\ o[n] = 0
      <3>1. \A n \in Node : inbox[n] = <<>> /\ o[n] = 0
        BY ArrivingEnds, ZenonT(40)
      <3>2. inbox' = inbox
        BY ArrivalFrame
      <3>3. QED
        BY <3>1, <3>2
    <2>2. \A i \in 1 .. Len(reports') : ~ reports'[i].finish
      BY <1>5 DEF Measuring
    <2>3. QED
      BY <1>5, <1>9, <1>11, <1>13, <2>1, <2>2 DEF Measuring
  <1>15. ~ Concluded
    BY <1>1 DEF Concluded
  <1>16. tracker[q] # <<>> /\ LastMarked(q, 0) => Marked(q, 0)'
    <2>1. fiber'[q] = fiber[q]
      BY <1>q, ArrivalFrame
    <2>2. QED
      BY <1>1, <2>1 DEF Marked, LastMarked
  <1>17. QED
    BY <1>q, <1>6, <1>14, <1>15, <1>16, ArrivalTimely DEF Phase

\* The photon finds the one it pairs with: both are reported.
LEMMA PairTimely ==
  ASSUME CounterWide, TypeOK, NEW a \in Int, NEW c \in [Node -> Nat],
         NEW o \in [Node -> Nat], TimeInv(a, c, o), NEW p \in Node,
         PhotonArrives(p), o[p] = 0, NEW c1 \in [Node -> Nat],
         c1[p] = c[p] + 1, c1[Peer(p)] = c[Peer(p)], Measuring(a, c, o),
         Waits(Peer(p), a, c)
  PROVE  Timely'
  <1>q. PICK q \in Node : q = Peer(p) /\ q # p /\ Node = {p, q} /\ p = Peer(q)
    BY Ends DEF Node, Peer
  <1>0. PICK j \in Nat : j = c[p]
    OBVIOUS
  <1>1. /\ ~ trialDone /\ arrived[q] # "no" /\ ~ lastDetected[p]
        /\ j = Judged /\ c[q] = j + 1
        /\ sendResult => lastDetected[q]
    <2>1. tracker[p] # <<>>
      BY Arriving
    <2>2. Waits(q, a, c)
      BY <1>q
    <2>3. QED
      BY <1>q, <1>0, <2>1, <2>2 DEF Waits, Measuring
  <1>2. ~ Opens(fiber[p][1])
    BY <1>1 DEF Opens
  <1>3. Seen(p, fiber[p][1])[q] # "no"
    BY <1>q, <1>1, <1>2 DEF Seen
  <1>4. PICK failed \in BOOLEAN : /\ TakeIn(p, fiber[p][1])
                                  /\ Conclude(p, fiber[p][1], failed)
    BY <1>q, <1>1, <1>3, ArrivalFrame DEF AnalyzerActs, Dump, Await, Misfire,
       Coincide
  <1>5. PICK closed \in BOOLEAN :
          /\ closed = Closing(p, fiber[p][1])
          /\ closed <=> \E n \in Node : lastDetected'[n]
    <2>1. lastDetected' = LastSeen(p, fiber[p][1])
      BY <1>4 DEF TakeIn
    <2>2. lastDetected[q] => LastSeen(p, fiber[p][1])[q]
      BY <1>q, <1>2 DEF LastSeen
    <2>3. QED
      BY <1>q, <1>1, <2>1, <2>2 DEF Closing
  <1>6. /\ trialDone' = closed /\ sendResult' = closed
        /\ reports' = Append(reports, [failed |-> failed, finish |-> closed])
        /\ \A n \in Node : arrived'[n] = "no"
        /\ lastDetected'[p] =
             (fiber[p][1].last \/ (~ fiber[p][1].first /\ lastDetected[p]))
        /\ lastDetected[q] => lastDetected'[q]
    BY <1>q, <1>2, <1>4, <1>5 DEF TakeIn, Conclude, LastSeen
  <1>7. PICK k \in Nat, l \in Nat :
          /\ k = Len(reports) /\ l = Len(results) /\ j = l + k
          /\ reports \in Seq(Report)
    BY <1>1 DEF TypeOK, AnalyzerTypeOK, HoMTypeOK, Judged
  <1>8. /\ Len(reports') = k + 1 /\ reports' # <<>>
        /\ \A i \in 1 .. k : reports'[i] = reports[i]
        /\ reports'[k + 1].finish = closed
    <2>1. [failed |-> failed, finish |-> closed] \in Report
      BY DEF Report
    <2>2. QED
      BY <1>6, <1>7, <2>1, SMTT(30)
  <1>9. Judged' = j + 1
    <2>1. results' = results
      BY ArrivalFrame
    <2>2. QED
      BY <1>7, <1>8, <2>1 DEF Judged
  <1>10. \A n \in Node : inbox'[n] = <<>> /\ o[n] = 0 /\ c1[n] = Judged'
    <2>1. \A n \in Node : inbox[n] = <<>> /\ o[n] = 0
      BY ArrivingEnds, ZenonT(40)
    <2>2. inbox' = inbox
      BY ArrivalFrame
    <2>3. c1[p] = j + 1 /\ c1[q] = j + 1
      BY <1>q, <1>0, <1>1
    <2>4. QED
      BY <1>q, <1>9, <2>1, <2>2, <2>3
  <1>11. 0 - Jitter <= Slot(a, j + 1) /\ Slot(a, j + 1) <= 0 /\ a <= 0
    <2>1. /\ 0 - Jitter <= Slot(a, c[p] + 1) /\ Slot(a, c[p] + 1) <= 0
          /\ a <= 0
      BY Arriving
    <2>2. QED
      BY <1>0, <2>1
  <1>12. \A i \in 1 .. k : ~ reports'[i].finish
    BY <1>7, <1>8 DEF Measuring
  <1>13. CASE closed
    <2>1. \A i \in 1 .. Len(reports') : reports'[i].finish <=> i = Len(reports')
      <3>1. \A i \in 1 .. k + 1 : i \in 1 .. k \/ i = k + 1
        OBVIOUS
      <3>2. \A i \in 1 .. k : i # k + 1
        OBVIOUS
      <3>3. reports'[k + 1].finish
        BY <1>8, <1>13
      <3>4. QED
        BY <1>8, <1>12, <3>1, <3>2, <3>3
    <2>2. \A n \in Node : Judged' <= c1[n]
      BY <1>9, <1>10
    <2>3. 0 - Jitter <= Slot(a, Judged') /\ Slot(a, Judged') <= 0
      BY <1>9, <1>11
    <2>4. trialDone'
      BY <1>6, <1>13
    <2>5. Ending(a, c1, o)'
      BY <1>8, <1>10, <2>1, <2>2, <2>3, <2>4 DEF Ending
    <2>6. Concluded'
      BY <1>8, <2>4 DEF Concluded
    <2>7. QED
      BY <1>6, <2>5, <2>6, ArrivalTimely DEF Phase, Marked
  <1>14. CASE ~ closed
    <2>1. \A n \in Node : ~ lastDetected'[n]
      BY <1>5, <1>14
    <2>2. ~ trialDone' /\ ~ sendResult'
      BY <1>6, <1>14
    <2>3. \A i \in 1 .. Len(reports') : ~ reports'[i].finish
      <3>1. \A i \in 1 .. k + 1 : i \in 1 .. k \/ i = k + 1
        OBVIOUS
      <3>2. ~ reports'[k + 1].finish
        BY <1>8, <1>14
      <3>3. QED
        BY <1>8, <1>12, <3>1, <3>2
    <2>4. Even(c1)'
      BY <1>6, <1>10, <2>1 DEF Even
    <2>5. Measuring(a, c1, o)'
      BY <1>10, <1>11, <2>1, <2>2, <2>3, <2>4 DEF Measuring
    <2>6. ~ Concluded
      BY <1>1 DEF Concluded
    <2>7. LastMarked(q, 0) => Marked(q, 0)'
      <3>1. fiber'[q] = fiber[q]
        BY <1>q, ArrivalFrame
      <3>2. QED
        BY <1>6, <3>1 DEF Marked, LastMarked
    <2>8. QED
      BY <1>q, <1>6, <2>5, <2>6, <2>7, ArrivalTimely DEF Phase
  <1>15. QED
    BY <1>13, <1>14

\* Every photon that arrives leaves the ends in time.
LEMMA ArrivesTimely ==
  ASSUME CounterWide, TypeOK, NEW a \in Int, NEW c \in [Node -> Nat],
         NEW o \in [Node -> Nat], TimeInv(a, c, o), NEW p \in Node,
         PhotonArrives(p)
  PROVE  Timely'
  <1>1. CASE o[p] > 0
    BY <1>1, LatePhotonTimely
  <1>2. CASE o[p] = 0
    <2>1. PICK c1 \in [Node -> Nat] :
            c1[p] = c[p] + 1 /\ c1[Peer(p)] = c[Peer(p)]
      <3>1. [c EXCEPT ![p] = c[p] + 1] \in [Node -> Nat]
        OBVIOUS
      <3>2. QED
        BY <3>1, Ends, ZenonT(40)
    <2>2. CASE Measuring(a, c, o)
      <3>1. \/ Even(c) \/ Waits(p, a, c)
            \/ Waits(Peer(p), a, c)
        <4>1. Even(c) \/ \E n \in Node : Waits(n, a, c)
          BY <2>2, Zenon DEF Measuring
        <4>2. \A n \in Node : n = p \/ n = Peer(p)
          BY Ends
        <4>3. QED
          BY <4>1, <4>2, Zenon
      <3>2. QED
        BY <1>2, <2>1, <2>2, <3>1, AwaitTimely, PairTimely
    <2>3. CASE Ending(a, c, o)
      BY <1>2, <2>1, <2>3, SurplusTimely
    <2>4. CASE Settled(c)
      BY <1>2, <2>1, <2>4, OpeningTimely
    <2>5. Phase(a, c, o)
      BY <1>2, Arriving
    <2>6. QED
      BY <2>2, <2>3, <2>4, <2>5 DEF Phase
  <1>3. o[p] \in Nat
    OBVIOUS
  <1>4. QED
    BY <1>1, <1>2, <1>3

\* Every step leaves the ends in time.
LEMMA NextTimely ==
  ASSUME CounterWide, TypeOK, Timely, [Next]_vars
  PROVE  Timely'
  <1>1. PICK a \in Int, c \in [Node -> Nat], o \in [Node -> Nat] :
          TimeInv(a, c, o)
    BY DEF Timely
  <1>2. CASE ControllerBoots
    BY <1>1, <1>2, BootTimely
  <1>3. CASE ControllerReceives
    BY <1>1, <1>3, FinishTimely, AccumulateTimely
  <1>4. CASE Tick
    BY <1>1, <1>4, TickTimely
  <1>5. ASSUME NEW n \in Node, Schedule(n) PROVE Timely'
    BY <1>1, <1>5, ScheduleTimely
  <1>6. ASSUME NEW n \in Node, EmitPhoton(n) PROVE Timely'
    BY <1>1, <1>6, EmitTimely
  <1>7. ASSUME NEW n \in Node, PhotonArrives(n) PROVE Timely'
    BY <1>1, <1>7, ArrivesTimely
  <1>8. ASSUME NEW n \in Node, ReceiveTiming(n) \/ ReceiveResults(n)
        PROVE  Timely'
    BY <1>1, <1>8, ReceiveTimely
  <1>9. ASSUME NEW n \in Node, ConsumeResource(n) \/ Stop(n) PROVE Timely'
    BY <1>9, AsideTimely DEF ConsumeResource, Consume, Stop, StopEmitting
  <1>10. CASE UNCHANGED vars
    BY <1>10, AsideTimely DEF vars, emissionVars
  <1>11. QED
    BY <1>2, <1>3, <1>4, <1>5, <1>6, <1>7, <1>8, <1>9, <1>10 DEF Next, Event

\* With a counter that does not wrap too soon, the ends stay in time.
LEMMA AlwaysTimely ==
  ASSUME CounterWide
  PROVE  Spec => []Timely
  <1>1. TypeOK /\ Timely /\ [Next]_vars => Timely'
    BY NextTimely
  <1>2. QED
    BY <1>1, InitTimely, TypeCorrect, PTL DEF Spec
-----------------------------------------------------------------------------
(* The verdicts on the running trial.                                      *)

\* The results of its trial are on their way to n.
Told(n) == inbox[n] # <<>> /\ Head(inbox[n]).combined

\* What reports say.
Said(told) == [i \in 1 .. Len(told) |-> told[i].failed]

\* Of one message at most, the lists of results are told by the first.
LEMMA SoleNotice ==
  ASSUME NEW s \in Seq(Notice), Len(s) = 1 \/ s = <<>>
  PROVE  /\ s # <<>> /\ Head(s).combined =>
              /\ {i \in 1 .. Len(s) : s[i].combined} = {1}
              /\ Head(s) = s[1]
         /\ ~ (s # <<>> /\ Head(s).combined) =>
              {i \in 1 .. Len(s) : s[i].combined} = {}
  <1>1. CASE s = <<>>
    BY <1>1
  <1>2. CASE Len(s) = 1
    <2>1. 1 .. 1 = {1}
      OBVIOUS
    <2>2. 1 .. Len(s) = {1}
      BY <1>2, <2>1
    <2>3. s # <<>>
      BY <1>2, EmptySeq
    <2>4. Head(s) = s[1]
      BY <2>3
    <2>5. QED
      BY <2>2, <2>3, <2>4
  <1>3. QED
    BY <1>1, <1>2

\* Where the verdicts are, now and after a step.
LEMMA VerdictsNow ==
  ASSUME NEW n \in Node, inbox[n] \in Seq(Notice),
         Len(inbox[n]) = 1 \/ inbox[n] = <<>>
  PROVE  /\ Told(n) => Combined(n) = {1} /\ Verdicts(n) = Head(inbox[n]).failed
         /\ ~ Told(n) => Combined(n) = {} /\ Verdicts(n) = results \o Said(reports)
  <1>1. CASE Told(n)
    <2>1. Combined(n) = {1} /\ Head(inbox[n]) = inbox[n][1]
      BY <1>1, SoleNotice DEF Told, Combined
    <2>2. (CHOOSE i \in {1} : \A j \in {1} : i <= j) = 1
      OBVIOUS
    <2>3. QED
      BY <1>1, <2>1, <2>2 DEF Verdicts
  <1>2. CASE ~ Told(n)
    <2>1. Combined(n) = {}
      BY <1>2, SoleNotice DEF Told, Combined
    <2>2. QED
      BY <1>2, <2>1 DEF Verdicts, Said
  <1>3. QED
    BY <1>1, <1>2

LEMMA VerdictsNext ==
  ASSUME NEW n \in Node, inbox'[n] \in Seq(Notice),
         Len(inbox'[n]) = 1 \/ inbox'[n] = <<>>
  PROVE  /\ Told(n)' => Verdicts(n)' = Head(inbox'[n]).failed
         /\ ~ Told(n)' => Verdicts(n)' = results' \o Said(reports')
  <1>1. CASE Told(n)'
    <2>1. Combined(n)' = {1} /\ Head(inbox'[n]) = inbox'[n][1]
      BY <1>1, SoleNotice DEF Told, Combined
    <2>2. (CHOOSE i \in {1} : \A j \in {1} : i <= j) = 1
      OBVIOUS
    <2>3. QED
      BY <1>1, <2>1, <2>2 DEF Verdicts
  <1>2. CASE ~ Told(n)'
    <2>1. Combined(n)' = {}
      BY <1>2, SoleNotice DEF Told, Combined
    <2>2. QED
      BY <1>2, <2>1 DEF Verdicts, Said
  <1>3. QED
    BY <1>1, <1>2

\* The verdicts the controller and its analyzer hold, one by one.
LEMMA SaidOnes ==
  ASSUME NEW res \in Seq(BOOLEAN), NEW told \in Seq(Report)
  PROVE  /\ res \o Said(told) \in Seq(BOOLEAN)
         /\ Len(res \o Said(told)) = Len(res) + Len(told)
         /\ \A i \in 1 .. Len(res) : (res \o Said(told))[i] = res[i]
         /\ \A i \in 1 .. Len(told) :
              (res \o Said(told))[Len(res) + i] = told[i].failed
  <1>1. PICK k \in Nat, l \in Nat : k = Len(told) /\ l = Len(res)
    OBVIOUS
  <1>2. \A i \in 1 .. k : told[i].failed \in BOOLEAN
    <2>1. \A i \in 1 .. k : told[i] \in Report
      BY <1>1, ElementOfSeq
    <2>2. QED
      BY <2>1 DEF Report
  <1>3. Said(told) \in Seq(BOOLEAN)
    BY <1>1, <1>2 DEF Said
  <1>4. Len(Said(told)) = k /\ \A i \in 1 .. k : Said(told)[i] = told[i].failed
    BY <1>1 DEF Said
  <1>5. PICK t \in Seq(BOOLEAN) : t = Said(told)
    BY <1>3
  <1>6. Len(t) = k /\ \A i \in 1 .. k : t[i] = told[i].failed
    BY <1>4, <1>5
  <1>7. res \o t \in Seq(BOOLEAN)
    OBVIOUS
  <1>8. Len(res \o t) = l + k
    <2>1. Len(res \o t) = Len(res) + Len(t)
      OBVIOUS
    <2>2. QED
      BY <1>1, <1>6, <2>1, Zenon
  <1>9. /\ \A i \in 1 .. l : (res \o t)[i] = res[i]
        /\ \A i \in 1 .. k : (res \o t)[l + i] = t[i]
    BY <1>1, <1>6
  <1>10. QED
    BY <1>1, <1>5, <1>6, <1>7, <1>8, <1>9, Zenon

\* A report that is put aside says what it said.
LEMMA SaidPutAside ==
  ASSUME NEW res \in Seq(BOOLEAN), NEW told \in Seq(Report), told # <<>>
  PROVE  Append(res, Head(told).failed) \o Said(Tail(told)) = res \o Said(told)
  <1>1. PICK k \in Nat, l \in Nat : k = Len(told) /\ l = Len(res) /\ k >= 1
    OBVIOUS
  <1>2. Head(told) = told[1] /\ told[1] \in Report
    OBVIOUS
  <1>3. told[1].failed \in BOOLEAN
    BY <1>2 DEF Report
  <1> DEFINE more == Append(res, told[1].failed)
             left == res \o Said(told)
             right == more \o Said(Tail(told))
  <1>4. /\ more \in Seq(BOOLEAN) /\ Len(more) = l + 1
        /\ \A i \in 1 .. l : more[i] = res[i]
        /\ more[l + 1] = told[1].failed
    BY <1>1, <1>3
  <1>5. /\ Tail(told) \in Seq(Report) /\ Len(Tail(told)) = k - 1
        /\ \A i \in 1 .. k - 1 : Tail(told)[i] = told[i + 1]
    BY <1>1
  <1>6. /\ left \in Seq(BOOLEAN) /\ Len(left) = l + k
        /\ \A i \in 1 .. l : left[i] = res[i]
        /\ \A i \in 1 .. k : left[l + i] = told[i].failed
    BY <1>1, SaidOnes
  <1> HIDE DEF more, left
  <1>7. /\ right \in Seq(BOOLEAN) /\ Len(right) = l + 1 + (k - 1)
        /\ \A i \in 1 .. l + 1 : right[i] = more[i]
        /\ \A i \in 1 .. k - 1 : right[l + 1 + i] = Tail(told)[i].failed
    <2>1. /\ right \in Seq(BOOLEAN) /\ Len(right) = Len(more) + Len(Tail(told))
          /\ \A i \in 1 .. Len(more) : right[i] = more[i]
          /\ \A i \in 1 .. Len(Tail(told)) :
               right[Len(more) + i] = Tail(told)[i].failed
      BY <1>4, <1>5, SaidOnes
    <2>2. Len(more) = l + 1 /\ Len(Tail(told)) = k - 1
      BY <1>4, <1>5
    <2>3. QED
      BY <2>1, <2>2
  <1> HIDE DEF right
  <1>8. ASSUME NEW j \in 1 .. l + k PROVE left[j] = right[j]
    <2>1. CASE j <= l
      <3>1. j \in 1 .. l /\ j \in 1 .. l + 1
        BY <2>1
      <3>2. QED
        BY <1>4, <1>6, <1>7, <3>1
    <2>2. CASE j = l + 1
      <3>1. 1 \in 1 .. k /\ j \in 1 .. l + 1
        BY <1>1, <2>2
      <3>2. QED
        BY <1>4, <1>6, <1>7, <2>2, <3>1
    <2>3. CASE j > l + 1
      <3>1. PICK i \in Nat : i = j - l - 1 /\ i \in 1 .. k - 1 /\ i + 1 \in 1 .. k
                             /\ j = l + 1 + i /\ j = l + (i + 1)
        <4>1. /\ j - l - 1 \in Nat /\ j - l - 1 \in 1 .. k - 1
              /\ (j - l - 1) + 1 \in 1 .. k
              /\ j = l + 1 + (j - l - 1) /\ j = l + ((j - l - 1) + 1)
          BY <1>1, <2>3
        <4>2. QED
          BY <4>1
      <3>2. right[j] = told[i + 1].failed
        BY <1>5, <1>7, <3>1
      <3>3. left[j] = told[i + 1].failed
        BY <1>6, <3>1
      <3>4. QED
        BY <3>2, <3>3
    <2>4. QED
      BY <1>1, <2>1, <2>2, <2>3
  <1>9. left = right
    <2>1. Len(left) = Len(right)
      BY <1>1, <1>6, <1>7
    <2>2. QED
      BY <1>6, <1>7, <1>8, <2>1, SeqEqual
  <1>10. QED
    BY <1>2, <1>9 DEF left, right, more

\* One report more is one verdict more.
LEMMA SaidOneMore ==
  ASSUME NEW res \in Seq(BOOLEAN), NEW told \in Seq(Report), NEW r \in Report
  PROVE  /\ Len(res \o Said(Append(told, r))) = Len(res \o Said(told)) + 1
         /\ \A i \in 1 .. Len(res \o Said(told)) :
              (res \o Said(Append(told, r)))[i] = (res \o Said(told))[i]
         /\ (res \o Said(Append(told, r)))[Len(res \o Said(told)) + 1] = r.failed
  <1>1. PICK k \in Nat, l \in Nat : k = Len(told) /\ l = Len(res)
    OBVIOUS
  <1> DEFINE more == Append(told, r)
             left == res \o Said(told)
             right == res \o Said(more)
  <1>2. /\ more \in Seq(Report) /\ Len(more) = k + 1
        /\ \A i \in 1 .. k : more[i] = told[i]
        /\ more[k + 1] = r
    BY <1>1
  <1>3. /\ Len(left) = l + k
        /\ \A i \in 1 .. l : left[i] = res[i]
        /\ \A i \in 1 .. k : left[l + i] = told[i].failed
    BY <1>1, SaidOnes
  <1> HIDE DEF more, left
  <1>4. /\ Len(right) = l + (k + 1)
        /\ \A i \in 1 .. l : right[i] = res[i]
        /\ \A i \in 1 .. k + 1 : right[l + i] = more[i].failed
    BY <1>1, <1>2, SaidOnes, SMTT(30)
  <1> HIDE DEF right
  <1>5. ASSUME NEW j \in 1 .. l + k PROVE right[j] = left[j]
    <2>1. CASE j <= l
      BY <1>3, <1>4, <2>1
    <2>2. CASE j > l
      <3>1. PICK i \in Nat : i \in 1 .. k /\ i \in 1 .. k + 1 /\ j = l + i
        <4>1. j - l \in Nat /\ j - l \in 1 .. k /\ j - l \in 1 .. k + 1
              /\ j = l + (j - l)
          BY <2>2
        <4>2. QED
          BY <4>1
      <3>2. QED
        BY <1>2, <1>3, <1>4, <3>1
    <2>3. QED
      BY <2>1, <2>2
  <1>6. k + 1 \in 1 .. k + 1 /\ l + (k + 1) = (l + k) + 1
    BY <1>1
  <1>7. right[(l + k) + 1] = r.failed
    BY <1>2, <1>4, <1>6
  <1>8. /\ Len(right) = Len(left) + 1
        /\ \A i \in 1 .. Len(left) : right[i] = left[i]
        /\ right[Len(left) + 1] = r.failed
    BY <1>3, <1>4, <1>5, <1>6, <1>7
  <1>9. QED
    BY <1>8 DEF right, left, more

\* Every verdict is about a shot, and one list of results at most is on its
\* way to an end.
LEMMA VerdictsSound ==
  ASSUME CounterWide, TypeOK, Timely, NEW n \in Node
  PROVE  /\ inbox[n] \in Seq(Notice) /\ (Len(inbox[n]) = 1 \/ inbox[n] = <<>>)
         /\ Verdicts(n) \in Seq(BOOLEAN) /\ Len(Verdicts(n)) <= Len(tracker[n])
  <1>1. PICK a \in Int, c \in [Node -> Nat], o \in [Node -> Nat] :
          TimeInv(a, c, o)
    BY DEF Timely
  <1>2. inbox[n] \in Seq(Notice)
    BY EndTypes
  <1>3. Len(inbox[n]) = 1 \/ inbox[n] = <<>>
    <2>1. CASE booting
      BY <1>1, <2>1 DEF TimeInv, Resting
    <2>2. CASE ~ booting
      <3>1. EndInv(n, a, c[n], o[n])
        BY <1>1, <2>2 DEF TimeInv
      <3>2. QED
        BY <3>1 DEF EndInv, Awaiting
    <2>3. QED
      BY <2>1, <2>2
  <1>4. PICK k \in Nat, l \in Nat, f \in Nat :
          /\ k = Len(results) + Len(reports) /\ l = Len(tracker[n])
          /\ f = Len(fiber[n])
          /\ results \in Seq(BOOLEAN) /\ reports \in Seq(Report)
    <2>1. /\ results \in Seq(BOOLEAN) /\ reports \in Seq(Report)
          /\ Len(tracker[n]) \in Nat /\ Len(fiber[n]) \in Nat
      BY EndTypes DEF TypeOK, AnalyzerTypeOK, HoMTypeOK
    <2>2. Len(results) + Len(reports) \in Nat
      BY <2>1
    <2>3. QED
      BY <2>1, <2>2
  <1>5. CASE Told(n)
    <2>1. Verdicts(n) = Head(inbox[n]).failed
      BY <1>2, <1>3, <1>5, VerdictsNow
    <2>2. ~ booting
      BY <1>1, <1>5 DEF Told, TimeInv, Resting
    <2>3. EndInv(n, a, c[n], o[n])
      BY <1>1, <2>2 DEF TimeInv
    <2>4. Head(inbox[n]).failed \in Seq(BOOLEAN)
      BY <1>5, EndTypes DEF Told
    <2>5. Len(Head(inbox[n]).failed) <= Len(tracker[n])
      BY <1>5, <2>3 DEF Told, EndInv, Awaiting
    <2>6. QED
      BY <1>2, <1>3, <2>1, <2>4, <2>5
  <1>6. CASE ~ Told(n)
    <2>1. Verdicts(n) = results \o Said(reports)
      BY <1>2, <1>3, <1>6, VerdictsNow
    <2>2. Verdicts(n) \in Seq(BOOLEAN) /\ Len(Verdicts(n)) = k
      BY <1>4, <2>1, SaidOnes
    <2>3. k = Judged
      BY <1>4 DEF Judged
    <2>4. k <= l
      <3>1. CASE k = 0
        BY <3>1
      <3>2. CASE k > 0
        <4>1. ~ booting
          <5>1. ASSUME booting PROVE FALSE
            <6>1. results = <<>> /\ reports = <<>>
              BY <1>1, <5>1 DEF TimeInv, Resting
            <6>2. k = 0
              BY <1>4, <6>1
            <6>3. QED
              BY <3>2, <6>2
          <5>2. QED
            BY <5>1
        <4>2. EndInv(n, a, c[n], o[n]) /\ Phase(a, c, o)
          BY <1>1, <4>1 DEF TimeInv
        <4>3. ~ Settled(c)
          <5>1. ASSUME Settled(c) PROVE k = 0
            BY <1>4, <5>1 DEF Settled
          <5>2. QED
            BY <3>2, <5>1
        <4>4. PICK j \in Nat : j = c[n]
          OBVIOUS
        <4>5. inbox[n] = <<>> /\ o[n] = 0 /\ k <= j
          <5>1. CASE Measuring(a, c, o)
            <6>1. a <= 0
              BY <2>3, <3>2, <5>1 DEF Measuring
            <6>2. inbox[n] = <<>> /\ o[n] = 0
              BY <4>2, <6>1, Undisturbed
            <6>3. k <= j
              <7>1. CASE Even(c)
                BY <2>3, <4>4, <7>1 DEF Even
              <7>2. ASSUME NEW p \in Node, Waits(p, a, c) PROVE k <= j
                <8>1. c[Peer(p)] = k /\ c[p] > k
                  BY <2>3, <7>2 DEF Waits
                <8>2. n = p \/ n = Peer(p)
                  BY Ends
                <8>3. QED
                  BY <4>4, <8>1, <8>2
              <7>3. QED
                BY <5>1, <7>1, <7>2 DEF Measuring
            <6>4. QED
              BY <6>2, <6>3
          <5>2. CASE Ending(a, c, o)
            BY <2>3, <4>4, <5>2 DEF Ending
          <5>3. QED
            BY <4>2, <4>3, <5>1, <5>2 DEF Phase
        <4>6. l = j + f - 0
          BY <1>4, <4>2, <4>4, <4>5 DEF EndInv, InFiber
        <4>7. QED
          BY <4>5, <4>6
      <3>3. QED
        BY <3>1, <3>2
    <2>5. QED
      BY <1>2, <1>3, <1>4, <2>2, <2>4
  <1>7. QED
    BY <1>5, <1>6

-----------------------------------------------------------------------------
(* Pairs.                                                                  *)

\* What an end is promised, now and after a step.
LEMMA PromisedNow ==
  ASSUME CounterWide, TypeOK, Timely, NEW n \in Node
  PROVE  Promised(n) = resources[n] \cup Heralded(n, Verdicts(n))
  <1>1. /\ Verdicts(n) \in Seq(BOOLEAN) /\ Len(Verdicts(n)) <= Len(tracker[n])
        /\ tracker[n] \in Seq(Memory)
    BY VerdictsSound, EndTypes
  <1>2. DOMAIN tracker[n] \cap DOMAIN Verdicts(n) = 1 .. Len(Verdicts(n))
    BY <1>1
  <1>3. QED
    BY <1>2 DEF Promised, Heralded

LEMMA PromisedNext ==
  ASSUME TypeOK', NEW n \in Node, NEW v \in Seq(BOOLEAN), Verdicts(n)' = v,
         Len(v) <= Len(tracker'[n])
  PROVE  Promised(n)' = resources'[n] \cup
           {tracker'[n][i] : i \in {j \in 1 .. Len(v) : ~ v[j]}}
  <1>1. tracker'[n] \in Seq(Memory)
    BY DEF TypeOK, EmissionTypeOK
  <1>2. DOMAIN tracker'[n] \cap DOMAIN v = 1 .. Len(v)
    BY <1>1
  <1>3. QED
    BY <1>2 DEF Promised

\* The promised memories of an end are its own, and none of them is late or
\* failed.
LEMMA PromisedOwn ==
  ASSUME CounterWide, TypeOK, Timely, QubitAccounting, NEW n \in Node
  PROVE  Promised(n) \subseteq MemoryOf(n) \cap Memory
  <1>1. Heralded(n, Verdicts(n)) \subseteq Shots(n)
    <2>1. 1 .. Len(Verdicts(n)) \subseteq 1 .. Len(tracker[n])
      <3>1. PICK k \in Nat, l \in Nat :
              k = Len(Verdicts(n)) /\ l = Len(tracker[n]) /\ k <= l
        BY VerdictsSound, EndTypes
      <3>2. QED
        BY <3>1
    <2>2. QED
      BY <2>1 DEF Heralded, Shots
  <1>2. Shots(n) \cup resources[n] \subseteq MemoryOf(n)
    BY DEF QubitAccounting, TableSound
  <1>3. QED
    BY <1>1, <1>2, PromisedNow, Ends

\* Both halves of a pair point to each other and are promised, one to each
\* end; what is promised and is not half of a pair has been collapsed.
Paired ==
  \A m \in Memory : partner[m] # NoQubit =>
    /\ partner[partner[m]] = m
    /\ \E n \in Node : m \in Promised(n) /\ partner[m] \in Promised(Peer(n))
Grounded ==
  \A n \in Node : \A m \in Promised(n) : partner[m] = NoQubit => m \in collapsed
PairInv == Paired /\ Grounded

\* The null pointer is no memory.
LEMMA NoQubitIsNone == NoQubit \notin Memory
  BY DEF NoQubit, Memory, MemoryOf

\* A step that promises nothing else and leaves the pairs alone.
LEMMA PairsKept ==
  ASSUME PairInv, \A n \in Node : Promised(n)' = Promised(n),
         partner' = partner, collapsed' = collapsed
  PROVE  PairInv'
  BY Ends DEF PairInv, Paired, Grounded

\* A step that adds no verdict, and at most shots, promises nothing else.
LEMMA PromisesKept ==
  ASSUME CounterWide, TypeOK, Timely, TypeOK', NEW n \in Node,
         resources'[n] = resources[n], Verdicts(n)' = Verdicts(n),
         \/ tracker'[n] = tracker[n]
         \/ \E m \in Memory : tracker'[n] = Append(tracker[n], m)
  PROVE  Promised(n)' = Promised(n)
  <1>1. PICK v \in Seq(BOOLEAN) : v = Verdicts(n) /\ Len(v) <= Len(tracker[n])
    BY VerdictsSound
  <1>2. PICK k \in Nat, l \in Nat : k = Len(v) /\ l = Len(tracker[n]) /\ k <= l
    BY <1>1, EndTypes
  <1>3. /\ k <= Len(tracker'[n])
        /\ \A i \in 1 .. k : tracker'[n][i] = tracker[n][i]
    <2>1. tracker[n] \in Seq(Memory)
      BY EndTypes
    <2>2. ASSUME NEW m \in Memory, tracker'[n] = Append(tracker[n], m)
          PROVE  /\ k <= Len(tracker'[n])
                 /\ \A i \in 1 .. k : tracker'[n][i] = tracker[n][i]
      BY <1>2, <2>1, <2>2
    <2>3. QED
      BY <1>2, <2>2
  <1>4. Promised(n)' = resources'[n] \cup
          {tracker'[n][i] : i \in {j \in 1 .. k : ~ v[j]}}
    BY <1>1, <1>2, <1>3, PromisedNext
  <1>5. Promised(n) = resources[n] \cup
          {tracker[n][i] : i \in {j \in 1 .. k : ~ v[j]}}
    BY <1>1, <1>2, PromisedNow DEF Heralded
  <1>6. QED
    BY <1>3, <1>4, <1>5

\* Measuring one half of a pair breaks it for both, and collapses the other.
LEMMA PairsReleased ==
  ASSUME TypeOK, PairInv, NEW freed,
         NEW measured \in SUBSET Memory, Release(freed, measured),
         \A n \in Node : /\ Promised(n) \subseteq Memory
                         /\ Promised(n) \cap freed = {}
                         /\ Promised(n)' = Promised(n) \ (freed \cup measured)
  PROVE  PairInv'
  <1> DEFINE reset == freed \cup measured
             halves == Collapse(measured)
  <1>1. /\ \A m \in Memory : partner'[m] = IF m \in reset \cup halves
                                           THEN NoQubit ELSE partner[m]
        /\ collapsed' = (collapsed \cup halves) \ reset
    BY DEF Release
  <1>2. \A m \in Memory : partner[m] # NoQubit => partner[m] \in Memory
    BY DEF TypeOK, MemoryTypeOK
  <1>3. ASSUME NEW m \in Memory, partner'[m] # NoQubit
        PROVE  /\ partner'[partner'[m]] = m
               /\ \E n \in Node : /\ m \in Promised(n)'
                                  /\ partner'[m] \in Promised(Peer(n))'
    <2>1. m \notin reset /\ m \notin halves /\ partner'[m] = partner[m]
      BY <1>1, <1>3
    <2>2. PICK k \in Memory : k = partner[m] /\ partner[k] = m
      BY <1>2, <1>3, <2>1 DEF PairInv, Paired
    <2>3. PICK n \in Node : m \in Promised(n) /\ k \in Promised(Peer(n))
      BY <1>3, <2>1, <2>2 DEF PairInv, Paired
    <2>4. Peer(n) \in Node
      BY Ends
    <2>5. m # NoQubit /\ k # NoQubit
      BY NoQubitIsNone
    <2>6. k \notin measured
      BY <2>1, <2>2, <2>5 DEF Collapse
    <2>7. k \notin reset
      BY <2>3, <2>4, <2>6
    <2>8. k \notin halves
      <3>1. ASSUME NEW x \in measured, partner[x] = k PROVE FALSE
        <4>1. partner[k] = x
          BY <2>5, <3>1 DEF PairInv, Paired
        <4>2. QED
          BY <2>1, <2>2, <3>1, <4>1
      <3>2. QED
        BY <3>1 DEF Collapse
    <2>9. partner'[k] = m
      BY <1>1, <2>2, <2>7, <2>8
    <2>10. m \in Promised(n)' /\ k \in Promised(Peer(n))'
      BY <2>1, <2>3, <2>4, <2>7
    <2>11. QED
      BY <2>1, <2>2, <2>9, <2>10
  <1>4. ASSUME NEW n \in Node, NEW m \in Promised(n)', partner'[m] = NoQubit
        PROVE  m \in collapsed'
    <2>1. m \in Promised(n) /\ m \in Memory /\ m \notin reset
      BY <1>4
    <2>2. CASE m \in halves
      BY <1>1, <2>1, <2>2
    <2>3. CASE m \notin halves
      <3>1. partner[m] = NoQubit
        BY <1>1, <1>4, <2>1, <2>3
      <3>2. m \in collapsed
        BY <2>1, <3>1 DEF PairInv, Grounded
      <3>3. QED
        BY <1>1, <2>1, <3>2
    <2>4. QED
      BY <2>2, <2>3
  <1>5. QED
    BY <1>3, <1>4 DEF PairInv, Paired, Grounded

\* The results a trial ends with are what was promised of its shots.
LEMMA ResultsKeepPairs ==
  ASSUME CounterWide, TypeOK, Timely, QubitAccounting, PairInv, TypeOK',
         NEW n \in Node, ReceiveResults(n)
  PROVE  PairInv'
  <1>0. PICK failed \in Seq(BOOLEAN) : failed = Head(inbox[n]).failed
    <2>1. inbox[n] # <<>>
      BY DEF ReceiveResults, MessageDue
    <2>2. Head(inbox[n]).failed \in Seq(BOOLEAN)
      BY <2>1, EndTypes
    <2>3. QED
      BY <2>2
  <1>1. PICK consumed \in SUBSET (resources[n] \cup Heralded(n, failed)) :
          /\ EndTrial(n, Head(inbox[n]).timing, failed, consumed)
          /\ Release(Failed(n, failed) \cup Late(n, failed), consumed)
    BY <1>0 DEF ReceiveResults
  <1>2. /\ Told(n) /\ MessageDue(n) /\ Deliver(n) /\ reports' = reports
    BY DEF ReceiveResults, MessageDue, Told, analyzerVars
  <1>3. Verdicts(n) = failed /\ Len(failed) <= Len(tracker[n])
    BY <1>0, <1>2, VerdictsSound, VerdictsNow
  <1>4. Promised(n) = resources[n] \cup Heralded(n, failed)
    BY <1>3, PromisedNow
  <1>5. TableSound(n)
    BY DEF QubitAccounting
  <1>6. /\ Shots(n) = Failed(n, failed) \cup Heralded(n, failed)
                        \cup Late(n, failed)
        /\ Heralded(n, failed) \cap (Failed(n, failed) \cup Late(n, failed)) = {}
    BY <1>3, <1>5, ShotsSplit
  <1> DEFINE freed == Failed(n, failed) \cup Late(n, failed)
  <1>7. Promised(n) \cap freed = {} /\ freed \subseteq MemoryOf(n)
    BY <1>4, <1>5, <1>6 DEF TableSound
  <1>8. /\ resources'[n] = (resources[n] \cup Heralded(n, failed)) \ consumed
        /\ tracker'[n] = <<>>
        /\ resources'[Peer(n)] = resources[Peer(n)]
        /\ tracker'[Peer(n)] = tracker[Peer(n)]
    BY <1>1, Ends DEF EndTrial, TypeOK, EmissionTypeOK
  <1>9. Promised(n)' = Promised(n) \ (freed \cup consumed)
    <2>1. Promised(n)' = resources'[n]
      <3>1. DOMAIN tracker'[n] = {}
        BY <1>8
      <3>2. QED
        BY <3>1 DEF Promised
    <2>2. QED
      BY <1>4, <1>7, <1>8, <2>1
  <1>10. Promised(Peer(n))' = Promised(Peer(n)) \ (freed \cup consumed)
    <2>1. PICK q \in Node : q = Peer(n) /\ q # n
      BY Ends
    <2>2. Verdicts(q)' = Verdicts(q)
      BY <1>2, <2>1 DEF Verdicts, Combined, Deliver, TypeOK, HoMTypeOK
    <2>3. Promised(q)' = Promised(q)
      BY <1>8, <2>1, <2>2, PromisesKept
    <2>4. consumed \subseteq MemoryOf(n)
      BY <1>4, PromisedOwn
    <2>5. Promised(q) \subseteq MemoryOf(q)
      BY PromisedOwn
    <2>6. MemoryOf(n) \cap MemoryOf(q) = {}
      BY <2>1, Ends
    <2>7. QED
      BY <1>7, <2>1, <2>3, <2>4, <2>5, <2>6
  <1>11. \A m \in Node : Promised(m) \subseteq Memory /\ Promised(m) \cap freed = {}
    <2>1. \A m \in Node : Promised(m) \subseteq MemoryOf(m) \cap Memory
      BY PromisedOwn
    <2>2. Promised(Peer(n)) \cap freed = {}
      BY <1>7, <2>1, Ends
    <2>3. QED
      BY <1>7, <2>1, <2>2, Ends
  <1>12. consumed \in SUBSET Memory
    BY <1>4, <1>11
  <1>13. \A m \in Node : Promised(m)' = Promised(m) \ (freed \cup consumed)
    BY <1>9, <1>10, Ends
  <1>14. QED
    BY <1>1, <1>11, <1>12, <1>13, PairsReleased

\* So is a resource that a rule consumes.
LEMMA ConsumeKeepsPairs ==
  ASSUME CounterWide, TypeOK, Timely, QubitAccounting, PairInv, TypeOK',
         NEW n \in Node, ConsumeResource(n)
  PROVE  PairInv'
  <1>1. PICK m \in resources[n] : Consume(n, m) /\ Release({}, {m})
    BY DEF ConsumeResource
  <1>2. /\ tracker' = tracker /\ resources'[n] = resources[n] \ {m}
        /\ resources'[Peer(n)] = resources[Peer(n)]
        /\ \A q \in Node : Verdicts(q)' = Verdicts(q)
    <2>1. /\ tracker' = tracker /\ resources'[n] = resources[n] \ {m}
          /\ resources'[Peer(n)] = resources[Peer(n)]
      BY <1>1, Ends DEF Consume, TypeOK, EmissionTypeOK
    <2>2. inbox' = inbox /\ results' = results /\ reports' = reports
      BY DEF ConsumeResource, homVars, analyzerVars
    <2>3. QED
      BY <2>1, <2>2 DEF Verdicts, Combined
  <1>3. \A q \in Node : Promised(q) \subseteq MemoryOf(q) \cap Memory
    BY PromisedOwn
  <1>4. Promised(Peer(n))' = Promised(Peer(n)) \ ({} \cup {m})
    <2>1. PICK q \in Node : q = Peer(n) /\ MemoryOf(n) \cap MemoryOf(q) = {}
      BY Ends
    <2>2. Promised(q)' = Promised(q)
      BY <1>2, <2>1, PromisesKept
    <2>3. m \in MemoryOf(n)
      BY DEF QubitAccounting, TableSound
    <2>4. QED
      BY <1>3, <2>1, <2>2, <2>3
  <1>5. Promised(n)' = Promised(n) \ ({} \cup {m})
    <2>1. PICK v \in Seq(BOOLEAN) : v = Verdicts(n) /\ Len(v) <= Len(tracker[n])
      BY VerdictsSound
    <2>2. Promised(n)' = resources'[n] \cup
            {tracker[n][i] : i \in {j \in 1 .. Len(v) : ~ v[j]}}
      BY <1>2, <2>1, PromisedNext
    <2>3. Promised(n) = resources[n] \cup
            {tracker[n][i] : i \in {j \in 1 .. Len(v) : ~ v[j]}}
      BY <2>1, PromisedNow DEF Heralded
    <2>4. m \notin Shots(n)
      BY DEF QubitAccounting, TableSound
    <2>5. \A i \in 1 .. Len(v) : tracker[n][i] # m
      <3>1. PICK k \in Nat, l \in Nat : k = Len(v) /\ l = Len(tracker[n]) /\ k <= l
        BY <2>1, EndTypes
      <3>2. \A i \in 1 .. l : tracker[n][i] # m
        BY <2>4, <3>1 DEF Shots
      <3>3. QED
        BY <3>1, <3>2
    <2>6. QED
      BY <1>2, <2>2, <2>3, <2>5
  <1>6. \A q \in Node : Promised(q)' = Promised(q) \ ({} \cup {m})
    BY <1>4, <1>5, Ends
  <1>7. {m} \in SUBSET Memory
    <2>1. m \in MemoryOf(n)
      BY DEF QubitAccounting, TableSound
    <2>2. QED
      BY <2>1, Ends
  <1>8. QED
    BY <1>1, <1>3, <1>6, <1>7, PairsReleased

\* The last report of a trial: it is the only one left, and no message is on
\* its way.
LEMMA LastReport ==
  ASSUME TypeOK, Timely, ControllerReceives, Head(reports).finish
  PROVE  Tail(reports) = <<>> /\ \A n \in Node : inbox[n] = <<>>
  <1>1. PICK a \in Int, c \in [Node -> Nat], o \in [Node -> Nat] :
          TimeInv(a, c, o)
    BY DEF Timely
  <1>2. ~ booting
    BY <1>1, Asleep, Ends DEF TimeInv, Node
  <1>3. Phase(a, c, o)
    BY <1>1, <1>2 DEF TimeInv
  <1>4. reports \in Seq(Report) /\ reports # <<>>
    BY DEF ControllerReceives, TypeOK, AnalyzerTypeOK
  <1>5. PICK k \in Nat : k = Len(reports) /\ k >= 1 /\ reports[1].finish
    BY <1>4
  <1>6. Ending(a, c, o)
    <2>1. ~ Measuring(a, c, o)
      BY <1>5 DEF Measuring
    <2>2. ~ Settled(c)
      BY <1>4 DEF Settled
    <2>3. QED
      BY <1>3, <2>1, <2>2 DEF Phase
  <1>7. k = 1
    BY <1>5, <1>6 DEF Ending
  <1>8. Tail(reports) = <<>>
    <2>1. Len(reports) = 1
      BY <1>5, <1>7
    <2>2. Tail(reports) \in Seq(Report) /\ Len(Tail(reports)) = 0
      BY <1>4, <2>1
    <2>3. QED
      BY <2>2, EmptySeq
  <1>9. QED
    BY <1>6, <1>8 DEF Ending

\* The messages to an end after a step.
LEMMA EndTypesNext ==
  ASSUME TypeOK', NEW n \in Node
  PROVE  inbox'[n] \in Seq(Notice)
  BY DEF TypeOK, HoMTypeOK

\* The controller passes verdicts on, but makes none.
LEMMA ControllerKeepsVerdicts ==
  ASSUME CounterWide, TypeOK, Timely, ControllerReceives, TypeOK',
         NEW n \in Node
  PROVE  Verdicts(n)' = Verdicts(n)
  <1>1. /\ results \in Seq(BOOLEAN) /\ reports \in Seq(Report)
        /\ reports # <<>> /\ reports' = Tail(reports)
    BY DEF ControllerReceives, TypeOK, AnalyzerTypeOK, HoMTypeOK
  <1>2. inbox[n] \in Seq(Notice) /\ (Len(inbox[n]) = 1 \/ inbox[n] = <<>>)
    BY VerdictsSound
  <1> DEFINE more == Append(results, Head(reports).failed)
  <1>3. CASE Head(reports).finish
    <2>1. /\ Tail(reports) = <<>> /\ inbox[n] = <<>>
      BY <1>3, LastReport
    <2>2. ~ Told(n)
      BY <2>1 DEF Told
    <2>3. Verdicts(n) = results \o Said(reports)
      BY <1>2, <2>2, VerdictsNow
    <2>4. more \in Seq(BOOLEAN)
      <3>1. Head(reports) \in Report
        BY <1>1
      <3>2. Head(reports).failed \in BOOLEAN
        BY <3>1 DEF Report
      <3>3. QED
        BY <1>1, <3>2
    <2>5. more \o Said(Tail(reports)) = results \o Said(reports)
      BY <1>1, SaidPutAside
    <2>6. more \o Said(<<>>) = more
      <3>1. Said(<<>>) = <<>>
        BY DEF Said
      <3>2. QED
        BY <2>4, <3>1
    <2>7. Notify(TRUE, more)
      BY <1>3 DEF ControllerReceives, Finish
    <2>8. /\ inbox'[n] = <<[in |-> Delay[n], timing |-> StartTiming(n),
                            combined |-> TRUE, failed |-> more]>>
          /\ inbox'[n] # <<>> /\ Head(inbox'[n]).combined = TRUE
      BY <2>1, <2>4, <2>7, TellsNotice
    <2>9. Told(n)' /\ Len(inbox'[n]) = 1 /\ Head(inbox'[n]).failed = more
      BY <2>8 DEF Told
    <2>10. Verdicts(n)' = more
      BY <2>9, EndTypesNext, VerdictsNext
    <2>11. QED
      BY <2>1, <2>3, <2>5, <2>6, <2>10
  <1>4. CASE ~ Head(reports).finish
    <2>1. inbox' = inbox /\ results' = more
      BY <1>4 DEF ControllerReceives, Accumulate
    <2>2. CASE Told(n)
      <3>1. Verdicts(n) = Head(inbox[n]).failed
        BY <1>2, <2>2, VerdictsNow
      <3>2. Verdicts(n)' = Head(inbox[n]).failed
        BY <1>2, <2>1, <2>2, VerdictsNext DEF Told
      <3>3. QED
        BY <3>1, <3>2
    <2>3. CASE ~ Told(n)
      <3>1. Verdicts(n) = results \o Said(reports)
        BY <1>2, <2>3, VerdictsNow
      <3>2. Verdicts(n)' = results' \o Said(reports')
        BY <1>2, <2>1, <2>3, VerdictsNext DEF Told
      <3>3. QED
        BY <1>1, <2>1, <3>1, <3>2, SaidPutAside
    <2>4. QED
      BY <2>2, <2>3
  <1>5. QED
    BY <1>3, <1>4

\* Nor does the passing of time, or a message that starts a trial.
LEMMA TickKeepsVerdicts ==
  ASSUME CounterWide, TypeOK, Timely, Tick, TypeOK', NEW n \in Node
  PROVE  Verdicts(n)' = Verdicts(n)
  <1>1. inbox[n] \in Seq(Notice) /\ (Len(inbox[n]) = 1 \/ inbox[n] = <<>>)
    BY VerdictsSound
  <1>2. /\ Len(inbox'[n]) = Len(inbox[n])
        /\ inbox'[n] = <<>> <=> inbox[n] = <<>>
        /\ \A i \in 1 .. Len(inbox[n]) :
             /\ inbox'[n][i].combined = inbox[n][i].combined
             /\ inbox'[n][i].failed = inbox[n][i].failed
    BY TickEnd
  <1>3. results' = results /\ reports' = reports
    BY DEF Tick
  <1>4. CASE inbox[n] = <<>>
    <2>1. ~ Told(n) /\ ~ Told(n)' /\ inbox'[n] = <<>>
      BY <1>2, <1>4 DEF Told
    <2>2. QED
      BY <1>1, <1>3, <2>1, EndTypesNext, VerdictsNow, VerdictsNext
  <1>5. CASE inbox[n] # <<>>
    <2>1. Len(inbox[n]) = 1 /\ Len(inbox'[n]) = 1 /\ inbox'[n] # <<>>
      BY <1>1, <1>2, <1>5
    <2>2. Head(inbox[n]) = inbox[n][1] /\ Head(inbox'[n]) = inbox'[n][1]
      BY <1>5, <2>1
    <2>3. 1 \in 1 .. Len(inbox[n])
      BY <2>1
    <2>4. /\ Head(inbox'[n]).combined = Head(inbox[n]).combined
          /\ Head(inbox'[n]).failed = Head(inbox[n]).failed
      BY <1>2, <2>2, <2>3
    <2>5. Told(n)' <=> Told(n)
      BY <2>1, <2>4, <1>5 DEF Told
    <2>6. QED
      BY <1>1, <1>3, <2>1, <2>4, <2>5, EndTypesNext, VerdictsNow, VerdictsNext
  <1>6. QED
    BY <1>4, <1>5

LEMMA StartKeepsVerdicts ==
  ASSUME CounterWide, TypeOK, Timely, TypeOK', NEW n \in Node,
         ControllerBoots \/ \E m \in Node : ReceiveTiming(m)
  PROVE  Verdicts(n)' = Verdicts(n)
  <1>1. inbox[n] \in Seq(Notice) /\ (Len(inbox[n]) = 1 \/ inbox[n] = <<>>)
    BY VerdictsSound
  <1>2. results' = results /\ reports' = reports
    BY DEF ControllerBoots, Boot, ReceiveTiming, Deliver, analyzerVars
  <1>3. CASE ControllerBoots
    <2>1. inbox[n] = <<>>
      <3>1. booting
        BY <1>3 DEF ControllerBoots, Boot
      <3>2. QED
        BY <3>1 DEF Timely, TimeInv, Resting
    <2>2. Notify(FALSE, <<>>)
      BY <1>3 DEF ControllerBoots, Boot
    <2>3. <<>> \in Seq(BOOLEAN)
      OBVIOUS
    <2>4. /\ inbox'[n] = <<[in |-> Delay[n], timing |-> StartTiming(n),
                            combined |-> FALSE, failed |-> <<>>]>>
          /\ Head(inbox'[n]).combined = FALSE
      BY <2>1, <2>2, <2>3, TellsNotice
    <2>5. Len(inbox'[n]) = 1 /\ ~ Told(n)' /\ ~ Told(n)
      BY <2>1, <2>4 DEF Told
    <2>6. QED
      BY <1>1, <1>2, <2>5, EndTypesNext, VerdictsNow, VerdictsNext
  <1>4. ASSUME NEW m \in Node, ReceiveTiming(m) PROVE Verdicts(n)' = Verdicts(n)
    <2>1. MessageDue(m) /\ ~ Head(inbox[m]).combined /\ Deliver(m)
      BY <1>4 DEF ReceiveTiming
    <2>2. CASE n # m
      <3>1. inbox'[n] = inbox[n]
        BY <2>1, <2>2 DEF Deliver, TypeOK, HoMTypeOK
      <3>2. QED
        BY <1>2, <3>1 DEF Verdicts, Combined
    <2>3. CASE n = m
      <3>1. inbox[n] # <<>> /\ Len(inbox[n]) = 1 /\ ~ Told(n)
        BY <1>1, <2>1, <2>3 DEF MessageDue, Told
      <3>2. inbox'[n] = <<>>
        <4>1. inbox'[n] = Tail(inbox[n])
          BY <2>1, <2>3 DEF Deliver, TypeOK, HoMTypeOK
        <4>2. Len(Tail(inbox[n])) = 0 /\ Tail(inbox[n]) \in Seq(Notice)
          BY <1>1, <3>1
        <4>3. QED
          BY <4>1, <4>2, EmptySeq
      <3>3. ~ Told(n)'
        BY <3>2 DEF Told
      <3>4. QED
        BY <1>1, <1>2, <3>1, <3>2, <3>3, EndTypesNext, VerdictsNow, VerdictsNext
    <2>4. QED
      BY <2>2, <2>3
  <1>5. QED
    BY <1>3, <1>4

\* Two photons are paired only when each is of the first shot of its end that
\* has no verdict yet.
LEMMA Pairing ==
  ASSUME CounterWide, TypeOK, Timely, NEW p \in Node, PhotonArrives(p),
         trialDone => Opens(fiber[p][1]),
         Seen(p, fiber[p][1])[Peer(p)] # "no"
  PROVE  \E j \in Nat :
           /\ \A n \in Node : /\ Len(Verdicts(n)) = j
                              /\ j + 1 <= Len(tracker[n])
                              /\ inbox[n] = <<>>
           /\ fiber[p][1].qubit = tracker[p][j + 1]
           /\ origin[Peer(p)] = tracker[Peer(p)][j + 1]
  <1>1. PICK a \in Int, c \in [Node -> Nat], o \in [Node -> Nat] :
          TimeInv(a, c, o)
    BY DEF Timely
  <1>q. PICK q \in Node : q = Peer(p) /\ q # p /\ Node = {p, q} /\ p = Peer(q)
    BY Ends DEF Node, Peer
  <1>2. ~ booting
    BY <1>1, Asleep DEF TimeInv
  <1>3. Phase(a, c, o) /\ \A n \in Node : EndInv(n, a, c[n], o[n])
    BY <1>1, <1>2 DEF TimeInv
  <1>4. o[p] = 0
    <2>1. ASSUME o[p] # 0 PROVE FALSE
      <3>1. PICK h \in Nat : h = o[p] /\ h > 0
        BY <2>1
      <3>2. trialDone
        BY <1>3, <3>1 DEF Phase, Measuring, Ending, Settled
      <3>3. fiber[p][1].first
        BY <3>2 DEF Opens
      <3>4. InFiber(p, a, c[p], h)
        BY <1>3, <3>1 DEF EndInv
      <3>5. 1 \in 1 .. h
        BY <3>1
      <3>6. QED
        BY <3>3, <3>4, <3>5 DEF InFiber
    <2>2. QED
      BY <2>1
  <1>5. fiber[p][1].first = (c[p] = 0) /\ tracker[p] # <<>>
        /\ fiber[p][1].qubit = tracker[p][c[p] + 1]
    BY <1>1, <1>4, Arriving
  <1>6. a <= 0
    BY <1>1, <1>4, Arriving
  <1>7. \A n \in Node : EndInv(n, a, c[n], 0) /\ o[n] = 0 /\ inbox[n] = <<>>
    BY <1>1, <1>4, ArrivingEnds
  <1>8. Measuring(a, c, o)
    <2>1. ~ Settled(c)
      <3>1. ASSUME Settled(c) PROVE FALSE
        <4>1. trialDone
          BY <3>1 DEF Settled
        <4>2. Opens(fiber[p][1])
          BY <4>1
        <4>3. Seen(p, fiber[p][1])[q] = "no"
          BY <1>q, <4>2 DEF Seen
        <4>4. QED
          BY <1>q, <4>3
      <3>2. QED
        BY <3>1
    <2>2. ~ Ending(a, c, o)
      <3>1. ASSUME Ending(a, c, o) PROVE FALSE
        <4>1. reports \in Seq(Report) /\ reports # <<>> /\ results \in Seq(BOOLEAN)
          BY <3>1 DEF Ending, TypeOK, AnalyzerTypeOK, HoMTypeOK
        <4>2. Len(reports) \in Nat /\ Len(reports) >= 1 /\ Len(results) \in Nat
          BY <4>1
        <4>3. Judged \in Nat /\ Judged >= 1
          BY <4>2 DEF Judged
        <4>4. Judged <= c[p]
          BY <3>1 DEF Ending
        <4>5. c[p] # 0
          BY <4>3, <4>4
        <4>6. ~ fiber[p][1].first
          BY <1>5, <4>5
        <4>7. QED
          BY <3>1, <4>6 DEF Ending, Opens
      <3>2. QED
        BY <3>1
    <2>3. QED
      BY <1>3, <2>1, <2>2 DEF Phase
  <1>9. arrived[q] # "no"
    BY <1>q, <1>8 DEF Seen, Opens, Measuring
  <1>10. Waits(q, a, c)
    <2>1. ~ Even(c)
      BY <1>9 DEF Even
    <2>2. ~ Waits(p, a, c)
      BY <1>q, <1>9 DEF Waits
    <2>3. QED
      BY <1>q, <1>8, <2>1, <2>2 DEF Measuring
  <1>11. PICK j \in Nat : j = c[p]
    OBVIOUS
  <1>12. j = Judged /\ c[q] = j + 1 /\ origin[q] = tracker[q][j + 1]
    BY <1>q, <1>5, <1>10, <1>11 DEF Waits
  <1>13. ASSUME NEW n \in Node PROVE Len(Verdicts(n)) = j
    <2>1. inbox[n] = <<>> /\ inbox[n] \in Seq(Notice) /\ ~ Told(n)
      BY <1>7, EndTypes DEF Told
    <2>2. Verdicts(n) = results \o Said(reports)
      BY <2>1, VerdictsNow
    <2>3. results \in Seq(BOOLEAN) /\ reports \in Seq(Report)
      BY DEF TypeOK, AnalyzerTypeOK, HoMTypeOK
    <2>4. Len(Verdicts(n)) = Len(results) + Len(reports)
      BY <2>2, <2>3, SaidOnes
    <2>5. QED
      BY <1>12, <2>4 DEF Judged
  <1>14. j + 1 <= Len(tracker[p])
    <2>1. PICK k \in Nat, l \in Nat : k = Len(fiber[p]) /\ l = Len(tracker[p])
      BY EndTypes
    <2>2. k >= 1
      BY <2>1, ArrivalFrame
    <2>3. InFiber(p, a, c[p], 0) /\ inbox[p] = <<>>
      BY <1>7 DEF EndInv
    <2>4. l = j + k - 0
      BY <1>11, <2>1, <2>3 DEF InFiber
    <2>5. QED
      BY <2>1, <2>2, <2>4
  <1>15. j + 1 <= Len(tracker[q])
    <2>1. EndInv(q, a, c[q], o[q])
      BY <1>3
    <2>2. c[q] <= Len(tracker[q])
      BY <1>10, <2>1, WaitsSince
    <2>3. QED
      BY <1>12, <2>2
  <1>16. QED
    BY <1>q, <1>5, <1>7, <1>11, <1>12, <1>13, <1>14, <1>15

\* One verdict more promises one shot more, unless it has failed.
LEMMA VerdictAdds ==
  ASSUME CounterWide, TypeOK, Timely, TypeOK', NEW n \in Node,
         tracker' = tracker, resources' = resources, NEW j \in Nat,
         Len(Verdicts(n)) = j, j + 1 <= Len(tracker[n]), NEW failed \in BOOLEAN,
         NEW w \in Seq(BOOLEAN), Verdicts(n)' = w, Len(w) = j + 1,
         \A i \in 1 .. j : w[i] = Verdicts(n)[i], w[j + 1] = failed
  PROVE  /\ failed => Promised(n)' = Promised(n)
         /\ ~ failed => Promised(n)' = Promised(n) \cup {tracker[n][j + 1]}
  <1>1. Promised(n)' = resources[n] \cup
          {tracker[n][i] : i \in {h \in 1 .. j + 1 : ~ w[h]}}
    BY PromisedNext
  <1>2. Promised(n) = resources[n] \cup
          {tracker[n][i] : i \in {h \in 1 .. j : ~ Verdicts(n)[h]}}
    BY PromisedNow DEF Heralded
  <1>3. /\ \A h \in 1 .. j + 1 : h \in 1 .. j \/ h = j + 1
        /\ \A h \in 1 .. j : h \in 1 .. j + 1
        /\ j + 1 \in 1 .. j + 1
    OBVIOUS
  <1> DEFINE old == {h \in 1 .. j : ~ Verdicts(n)[h]}
             new == {h \in 1 .. j + 1 : ~ w[h]}
  <1>4. CASE failed
    <2>1. new = old
      BY <1>3, <1>4
    <2>2. QED
      BY <1>1, <1>2, <1>4, <2>1
  <1>5. CASE ~ failed
    <2>1. new = old \cup {j + 1}
      BY <1>3, <1>5
    <2>2. QED
      BY <1>1, <1>2, <1>5, <2>1, SMTT(30)
  <1>6. QED
    BY <1>4, <1>5

\* A shot without a verdict is not promised, and not half of a pair.
LEMMA ShotFresh ==
  ASSUME CounterWide, TypeOK, Timely, QubitAccounting, PairInv,
         NEW n \in Node, NEW j \in Nat, Len(Verdicts(n)) = j,
         j + 1 <= Len(tracker[n])
  PROVE  LET m == tracker[n][j + 1]
         IN  /\ m \in MemoryOf(n) /\ m \in Memory
             /\ \A q \in Node : m \notin Promised(q)
             /\ partner[m] = NoQubit
  <1> DEFINE m == tracker[n][j + 1]
  <1>1. PICK l \in Nat : l = Len(tracker[n]) /\ j + 1 \in 1 .. l
    BY EndTypes
  <1>2. m \in Shots(n) /\ m \in MemoryOf(n) /\ m \notin resources[n]
    <2>1. m \in Shots(n)
      BY <1>1 DEF Shots
    <2>2. TableSound(n)
      BY DEF QubitAccounting
    <2>3. Shots(n) \subseteq MemoryOf(n) /\ Shots(n) \cap resources[n] = {}
      BY <2>2, Zenon DEF TableSound
    <2>4. QED
      BY <2>1, <2>3, Zenon
  <1>3. m \in Memory
    <2>1. MemoryOf(n) \subseteq Memory
      BY Ends
    <2>2. QED
      BY <1>2, <2>1
  <1>4. m \notin Promised(n)
    <2>1. Promised(n) = resources[n] \cup
            {tracker[n][i] : i \in {h \in 1 .. j : ~ Verdicts(n)[h]}}
      BY PromisedNow DEF Heralded
    <2>2. \A i \in 1 .. j : tracker[n][i] # m
      <3>1. \A i \in 1 .. j : i \in 1 .. l /\ i # j + 1
        BY <1>1
      <3>2. \A i \in 1 .. l : tracker[n][i] = m => i = j + 1
        BY <1>1 DEF QubitAccounting, TableSound
      <3>3. QED
        BY <3>1, <3>2
    <2>3. QED
      BY <1>2, <2>1, <2>2
  <1>5. m \notin Promised(Peer(n))
    <2>1. Peer(n) \in Node /\ MemoryOf(n) \cap MemoryOf(Peer(n)) = {}
      BY Ends
    <2>2. QED
      BY <1>2, <2>1, PromisedOwn
  <1>6. \A q \in Node : m \notin Promised(q)
    BY <1>4, <1>5, Ends
  <1>7. partner[m] = NoQubit
    BY <1>3, <1>6 DEF PairInv, Paired
  <1>8. QED
    BY <1>2, <1>3, <1>6, <1>7

\* Two memories that were promised to nobody, and now are, one to each end,
\* when they are entangled or mixed.
LEMMA PairsMade ==
  ASSUME TypeOK, PairInv, NEW p \in Node, NEW a \in Memory, NEW b \in Memory,
         a # b, partner[a] = NoQubit, partner[b] = NoQubit,
         Promised(p)' = Promised(p) \cup {a},
         Promised(Peer(p))' = Promised(Peer(p)) \cup {b},
         \A n \in Node : Promised(n) \subseteq Memory,
         Entangle(a, b) \/ Mix(a, b)
  PROVE  PairInv'
  <1>1. \A n \in Node : /\ Promised(n) \subseteq Promised(n)'
                        /\ Promised(n)' \subseteq Promised(n) \cup {a, b}
    BY Ends
  <1>2. partner \in [Memory -> Memory \cup {NoQubit}]
    BY DEF TypeOK, MemoryTypeOK
  <1>3. Peer(p) \in Node /\ Peer(Peer(p)) = p
    BY Ends DEF Node, Peer
  <1>4. CASE Entangle(a, b)
    <2>1. /\ partner'[a] = b /\ partner'[b] = a /\ collapsed' = collapsed
          /\ \A m \in Memory : m # a /\ m # b => partner'[m] = partner[m]
      BY <1>2, <1>4 DEF Entangle
    <2>2. ASSUME NEW m \in Memory, partner'[m] # NoQubit
          PROVE  /\ partner'[partner'[m]] = m
                 /\ \E n \in Node : m \in Promised(n)'
                                    /\ partner'[m] \in Promised(Peer(n))'
      <3>1. CASE m = a
        BY <1>3, <2>1, <3>1
      <3>2. CASE m = b
        BY <1>3, <2>1, <3>2
      <3>3. CASE m # a /\ m # b
        <4>1. PICK k \in Memory : k = partner[m] /\ partner'[m] = k
          BY <1>2, <2>1, <2>2, <3>3
        <4>2. partner[k] = m
          BY <2>2, <4>1 DEF PairInv, Paired
        <4>3. k # a /\ k # b
          BY <4>2, NoQubitIsNone
        <4>4. partner'[k] = m
          BY <2>1, <4>2, <4>3
        <4>5. \E n \in Node : m \in Promised(n) /\ k \in Promised(Peer(n))
          BY <2>2, <4>1 DEF PairInv, Paired
        <4>6. \E n \in Node : m \in Promised(n)' /\ k \in Promised(Peer(n))'
          BY <1>1, <4>5, Ends
        <4>7. QED
          BY <4>1, <4>4, <4>6
      <3>4. QED
        BY <3>1, <3>2, <3>3
    <2>3. ASSUME NEW n \in Node, NEW m \in Promised(n)', partner'[m] = NoQubit
          PROVE  m \in collapsed'
      <3>1. m # a /\ m # b
        BY <2>1, <2>3, NoQubitIsNone
      <3>2. m \in Promised(n) /\ m \in Memory
        BY <1>1, <3>1
      <3>3. partner[m] = NoQubit
        BY <2>1, <2>3, <3>1, <3>2
      <3>4. QED
        BY <2>1, <3>2, <3>3 DEF PairInv, Grounded
    <2>4. QED
      BY <2>2, <2>3 DEF PairInv, Paired, Grounded
  <1>5. CASE Mix(a, b)
    <2>1. partner' = partner /\ collapsed' = collapsed \cup {a, b}
      <3>1. /\ partner' = [m \in Memory |->
                             IF m \in {a, b, NoQubit} THEN NoQubit ELSE partner[m]]
            /\ collapsed' = collapsed \cup {a, b}
        BY <1>5 DEF Mix
      <3>2. ASSUME NEW m \in Memory
            PROVE  (IF m \in {a, b, NoQubit} THEN NoQubit ELSE partner[m])
                     = partner[m]
        BY NoQubitIsNone
      <3>3. QED
        BY <1>2, <3>1, <3>2
    <2>2. ASSUME NEW m \in Memory, partner'[m] # NoQubit
          PROVE  /\ partner'[partner'[m]] = m
                 /\ \E n \in Node : m \in Promised(n)'
                                    /\ partner'[m] \in Promised(Peer(n))'
      <3>1. /\ partner[partner[m]] = m
            /\ \E n \in Node : m \in Promised(n)
                               /\ partner[m] \in Promised(Peer(n))
        BY <2>1, <2>2 DEF PairInv, Paired
      <3>2. QED
        BY <1>1, <2>1, <3>1, Ends
    <2>3. ASSUME NEW n \in Node, NEW m \in Promised(n)', partner'[m] = NoQubit
          PROVE  m \in collapsed'
      <3>1. m \in {a, b} \/ m \in Promised(n)
        BY <1>1
      <3>2. m \in Promised(n) => m \in collapsed
        BY <2>1, <2>3 DEF PairInv, Grounded
      <3>3. QED
        BY <2>1, <3>1, <3>2
    <2>4. QED
      BY <2>2, <2>3 DEF PairInv, Paired, Grounded
  <1>6. QED
    BY <1>4, <1>5

\* A photon that meets no other one makes no verdict.
LEMMA LonePhotonKeepsPairs ==
  ASSUME CounterWide, TypeOK, Timely, PairInv, TypeOK', NEW p \in Node,
         PhotonArrives(p), reports' = reports, UNCHANGED memoryVars
  PROVE  PairInv'
  <1>1. /\ inbox' = inbox /\ results' = results /\ tracker' = tracker
        /\ resources' = resources /\ partner' = partner
        /\ collapsed' = collapsed
    BY DEF PhotonArrives, emissionVars, homVars, memoryVars
  <1>2. ASSUME NEW n \in Node PROVE Promised(n)' = Promised(n)
    <2>1. Verdicts(n)' = Verdicts(n)
      BY <1>1 DEF Verdicts, Combined
    <2>2. QED
      BY <1>1, <2>1, PromisesKept
  <1>3. QED
    BY <1>1, <1>2, PairsKept

\* A pair of photons adds one verdict for both ends: on the first shot of
\* each without one.
LEMMA PairJudged ==
  ASSUME CounterWide, TypeOK, Timely, QubitAccounting, PairInv, TypeOK',
         NEW p \in Node, PhotonArrives(p),
         trialDone => Opens(fiber[p][1]),
         Seen(p, fiber[p][1])[Peer(p)] # "no",
         NEW failed \in BOOLEAN, Conclude(p, fiber[p][1], failed)
  PROVE  LET a == fiber[p][1].qubit
             b == origin[Peer(p)]
         IN  /\ a \in Memory /\ b \in Memory /\ a # b
             /\ partner[a] = NoQubit /\ partner[b] = NoQubit
             /\ failed => \A n \in Node : Promised(n)' = Promised(n)
             /\ ~ failed => /\ Promised(p)' = Promised(p) \cup {a}
                            /\ Promised(Peer(p))' = Promised(Peer(p)) \cup {b}
  <1> DEFINE a == fiber[p][1].qubit
             b == origin[Peer(p)]
  <1>1. PICK j \in Nat :
          /\ \A n \in Node : /\ Len(Verdicts(n)) = j
                             /\ j + 1 <= Len(tracker[n])
                             /\ inbox[n] = <<>>
          /\ a = tracker[p][j + 1]
          /\ b = tracker[Peer(p)][j + 1]
    BY Pairing
  <1>2. PICK r \in Report : r.failed = failed /\ reports' = Append(reports, r)
    <2>1. [failed |-> failed, finish |-> Closing(p, fiber[p][1])] \in Report
      <3>1. Closing(p, fiber[p][1]) \in BOOLEAN
        BY DEF Closing
      <3>2. QED
        BY <3>1 DEF Report
    <2>2. QED
      BY <2>1 DEF Conclude
  <1>3. /\ inbox' = inbox /\ results' = results /\ tracker' = tracker
        /\ resources' = resources
    BY DEF PhotonArrives, emissionVars, homVars
  <1>4. results \in Seq(BOOLEAN) /\ reports \in Seq(Report)
    BY DEF TypeOK, AnalyzerTypeOK, HoMTypeOK
  <1>5. ASSUME NEW n \in Node
        PROVE  /\ failed => Promised(n)' = Promised(n)
               /\ ~ failed => Promised(n)' = Promised(n) \cup {tracker[n][j + 1]}
    <2>1. inbox[n] = <<>> /\ inbox'[n] = <<>> /\ ~ Told(n) /\ ~ Told(n)'
      BY <1>1, <1>3 DEF Told
    <2>2. Verdicts(n) = results \o Said(reports)
      BY <2>1, EndTypes, VerdictsNow
    <2>3. PICK w : w = results \o Said(Append(reports, r))
      OBVIOUS
    <2>4. Verdicts(n)' = w
      <3>1. Verdicts(n)' = results' \o Said(reports')
        BY <2>1, EndTypesNext, VerdictsNext
      <3>2. QED
        BY <1>2, <1>3, <2>3, <3>1
    <2>5. Len(Verdicts(n)) = j /\ j + 1 <= Len(tracker[n])
      BY <1>1
    <2>6. /\ Len(w) = j + 1 /\ w[j + 1] = failed
          /\ \A i \in 1 .. j : w[i] = Verdicts(n)[i]
      <3>1. PICK v : v = results \o Said(reports)
        OBVIOUS
      <3>2. v = Verdicts(n) /\ Len(v) = j
        BY <2>2, <2>5, <3>1
      <3>3. /\ Len(w) = Len(v) + 1 /\ w[Len(v) + 1] = r.failed
            /\ \A i \in 1 .. Len(v) : w[i] = v[i]
        BY <1>4, <2>3, <3>1, SaidOneMore
      <3>4. QED
        BY <1>2, <3>2, <3>3
    <2>7. w \in Seq(BOOLEAN)
      <3>1. Append(reports, r) \in Seq(Report)
        BY <1>4
      <3>2. QED
        BY <1>4, <2>3, <3>1, SaidOnes
    <2>8. QED
      BY <1>3, <2>4, <2>5, <2>6, <2>7, VerdictAdds
  <1>6. ASSUME NEW n \in Node
        PROVE  /\ tracker[n][j + 1] \in MemoryOf(n)
               /\ tracker[n][j + 1] \in Memory
               /\ partner[tracker[n][j + 1]] = NoQubit
    <2>1. Len(Verdicts(n)) = j /\ j + 1 <= Len(tracker[n])
      BY <1>1
    <2>2. QED
      BY <2>1, ShotFresh
  <1>7. /\ a \in MemoryOf(p) /\ a \in Memory /\ partner[a] = NoQubit
        /\ b \in MemoryOf(Peer(p)) /\ b \in Memory /\ partner[b] = NoQubit
    <2>1. Peer(p) \in Node
      BY Ends
    <2>2. QED
      BY <1>1, <1>6, <2>1
  <1>8. a # b
    BY <1>7, Ends
  <1>9. /\ failed => \A n \in Node : Promised(n)' = Promised(n)
        /\ ~ failed => /\ Promised(p)' = Promised(p) \cup {a}
                       /\ Promised(Peer(p))' = Promised(Peer(p)) \cup {b}
    <2>1. Peer(p) \in Node
      BY Ends
    <2>2. QED
      BY <1>1, <1>5, <2>1
  <1>10. QED
    BY <1>7, <1>8, <1>9

\* What a photon that arrives does to the pairs.
LEMMA ArrivalKeepsPairs ==
  ASSUME CounterWide, TypeOK, Timely, QubitAccounting, PairInv, TypeOK',
         NEW p \in Node, PhotonArrives(p)
  PROVE  PairInv'
  <1> DEFINE photon == fiber[p][1]
  <1>1. Head(fiber[p]) = photon
    BY ArrivalFrame
  <1>2. \/ (Dump(p, photon) \/ Await(p, photon)) /\ UNCHANGED memoryVars
        \/ Misfire(p, photon) /\ UNCHANGED memoryVars
        \/ \E outcome \in Outcome :
             /\ Coincide(p, photon, outcome)
             /\ Herald(outcome, photon.qubit, origin[Peer(p)])
    BY <1>1 DEF PhotonArrives
  <1>3. CASE (Dump(p, photon) \/ Await(p, photon)) /\ UNCHANGED memoryVars
    <2>1. reports' = reports
      BY <1>3 DEF Dump, Await
    <2>2. QED
      BY <1>3, <2>1, LonePhotonKeepsPairs
  <1>4. CASE Misfire(p, photon) /\ UNCHANGED memoryVars
    <2>1. /\ trialDone => Opens(photon)
          /\ Seen(p, photon)[Peer(p)] # "no"
          /\ Conclude(p, photon, TRUE)
      BY <1>4 DEF Misfire
    <2>2. \A n \in Node : Promised(n)' = Promised(n)
      BY <2>1, PairJudged
    <2>3. QED
      BY <1>4, <2>2, PairsKept DEF memoryVars
  <1>5. ASSUME NEW outcome \in Outcome, Coincide(p, photon, outcome),
               Herald(outcome, photon.qubit, origin[Peer(p)])
        PROVE  PairInv'
    <2>1. /\ trialDone => Opens(photon)
          /\ Seen(p, photon)[Peer(p)] # "no"
          /\ Conclude(p, photon, outcome = "failed")
      BY <1>5 DEF Coincide
    <2>2. CASE outcome = "failed"
      <3>1. Conclude(p, photon, TRUE) /\ UNCHANGED memoryVars
        BY <1>5, <2>1, <2>2 DEF Herald
      <3>2. \A n \in Node : Promised(n)' = Promised(n)
        BY <2>1, <3>1, PairJudged
      <3>3. QED
        BY <3>1, <3>2, PairsKept DEF memoryVars
    <2>3. CASE outcome # "failed"
      <3>1. /\ Conclude(p, photon, FALSE)
            /\ \/ Entangle(photon.qubit, origin[Peer(p)])
               \/ Mix(photon.qubit, origin[Peer(p)])
        <4>1. (outcome = "failed") = FALSE
          BY <2>3
        <4>2. QED
          BY <1>5, <2>1, <2>3, <4>1 DEF Herald
      <3>2. /\ photon.qubit \in Memory /\ origin[Peer(p)] \in Memory
            /\ photon.qubit # origin[Peer(p)]
            /\ partner[photon.qubit] = NoQubit
            /\ partner[origin[Peer(p)]] = NoQubit
            /\ Promised(p)' = Promised(p) \cup {photon.qubit}
            /\ Promised(Peer(p))' = Promised(Peer(p)) \cup {origin[Peer(p)]}
        BY <2>1, <3>1, PairJudged
      <3>3. \A n \in Node : Promised(n) \subseteq Memory
        BY PromisedOwn
      <3>4. QED
        BY <3>1, <3>2, <3>3, PairsMade
    <2>4. QED
      BY <2>2, <2>3
  <1>6. QED
    BY <1>2, <1>3, <1>4, <1>5

\* A step that leaves the verdicts, the memories and the resources alone, and
\* adds a shot at most.
LEMMA VerdictsKeepPairs ==
  ASSUME CounterWide, TypeOK, Timely, PairInv, TypeOK',
         \A n \in Node : Verdicts(n)' = Verdicts(n),
         \A n \in Node : \/ tracker'[n] = tracker[n]
                         \/ \E m \in Memory : tracker'[n] = Append(tracker[n], m),
         resources' = resources, partner' = partner, collapsed' = collapsed
  PROVE  PairInv'
  <1>1. ASSUME NEW n \in Node PROVE Promised(n)' = Promised(n)
    BY <1>1, PromisesKept
  <1>2. QED
    BY <1>1, PairsKept

\* Every step keeps the pairs.
LEMMA NextPairs ==
  ASSUME CounterWide, TypeOK, Timely, QubitAccounting, PairInv, [Next]_vars
  PROVE  PairInv'
  <1>0. TypeOK'
    BY NextTypeOK
  <1>1. CASE ControllerBoots
    <2>1. /\ tracker' = tracker /\ resources' = resources
          /\ partner' = partner /\ collapsed' = collapsed
      BY <1>1 DEF ControllerBoots, memoryVars, emissionVars
    <2>2. \A n \in Node : Verdicts(n)' = Verdicts(n)
      BY <1>0, <1>1, StartKeepsVerdicts
    <2>3. QED
      BY <1>0, <2>1, <2>2, VerdictsKeepPairs
  <1>2. CASE ControllerReceives
    <2>1. /\ tracker' = tracker /\ resources' = resources
          /\ partner' = partner /\ collapsed' = collapsed
      BY <1>2 DEF ControllerReceives, memoryVars, emissionVars
    <2>2. \A n \in Node : Verdicts(n)' = Verdicts(n)
      BY <1>0, <1>2, ControllerKeepsVerdicts
    <2>3. QED
      BY <1>0, <2>1, <2>2, VerdictsKeepPairs
  <1>3. CASE Tick
    <2>1. /\ tracker' = tracker /\ resources' = resources
          /\ partner' = partner /\ collapsed' = collapsed
      BY <1>3 DEF Tick, memoryVars
    <2>2. \A n \in Node : Verdicts(n)' = Verdicts(n)
      BY <1>0, <1>3, TickKeepsVerdicts
    <2>3. QED
      BY <1>0, <2>1, <2>2, VerdictsKeepPairs
  <1>4. ASSUME NEW n \in Node, ReceiveTiming(n) PROVE PairInv'
    <2>1. /\ tracker' = tracker /\ resources' = resources
          /\ partner' = partner /\ collapsed' = collapsed
      BY <1>4 DEF ReceiveTiming, StartTrial, memoryVars
    <2>2. \A m \in Node : Verdicts(m)' = Verdicts(m)
      BY <1>0, <1>4, StartKeepsVerdicts
    <2>3. QED
      BY <1>0, <2>1, <2>2, VerdictsKeepPairs
  <1>5. ASSUME NEW n \in Node, EmitPhoton(n) PROVE PairInv'
    <2>1. PICK e \in emissions[n] : Emit(n, e) /\ Excite(e.qubit)
      BY <1>5 DEF EmitPhoton
    <2>2. /\ resources' = resources /\ partner' = partner
          /\ collapsed' = collapsed
          /\ inbox' = inbox /\ results' = results /\ reports' = reports
      BY <1>5, <2>1 DEF EmitPhoton, Emit, Excite, analyzerVars, homVars
    <2>3. \A m \in Node : Verdicts(m)' = Verdicts(m)
      BY <2>2 DEF Verdicts, Combined
    <2>4. e.qubit \in Memory
      BY RequestTypes DEF TypeOK, EmitMsg
    <2>5. \A m \in Node : \/ tracker'[m] = tracker[m]
                          \/ tracker'[m] = Append(tracker[m], e.qubit)
      BY <2>1 DEF Emit, TypeOK, EmissionTypeOK
    <2>6. QED
      BY <1>0, <2>2, <2>3, <2>4, <2>5, VerdictsKeepPairs
  <1>6. ASSUME UNCHANGED <<memoryVars, tracker, resources, inbox, results, reports>>
        PROVE  PairInv'
    <2>1. \A n \in Node : Verdicts(n)' = Verdicts(n)
      BY <1>6 DEF Verdicts, Combined
    <2>2. QED
      BY <1>0, <1>6, <2>1, VerdictsKeepPairs DEF memoryVars
  <1>7. ASSUME NEW n \in Node, Schedule(n) \/ Stop(n) PROVE PairInv'
    BY <1>6, <1>7 DEF Schedule, DropSchedule, EndBurst, ShootPhoton,
       DropEmission, Stop, StopEmitting, analyzerVars, homVars
  <1>8. CASE UNCHANGED vars
    BY <1>6, <1>8 DEF vars, emissionVars, analyzerVars, homVars
  <1>9. ASSUME NEW n \in Node, PhotonArrives(n) PROVE PairInv'
    BY <1>0, <1>9, ArrivalKeepsPairs
  <1>10. ASSUME NEW n \in Node, ReceiveResults(n) PROVE PairInv'
    BY <1>0, <1>10, ResultsKeepPairs
  <1>11. ASSUME NEW n \in Node, ConsumeResource(n) PROVE PairInv'
    BY <1>0, <1>11, ConsumeKeepsPairs
  <1>12. QED
    BY <1>1, <1>2, <1>3, <1>4, <1>5, <1>7, <1>8, <1>9, <1>10, <1>11
    DEF Next, Event

\* Initially there are no pairs.
LEMMA InitPairs == Init => PairInv
  <1> SUFFICES ASSUME Init PROVE PairInv
    OBVIOUS
  <1>1. \A m \in Memory : partner[m] = NoQubit
    BY DEF Init, MemoryInit
  <1>2. ASSUME NEW n \in Node PROVE Promised(n) = {}
    <2>1. tracker[n] = <<>> /\ resources[n] = {}
      BY DEF Init, EmissionInit
    <2>2. DOMAIN tracker[n] = {}
      BY <2>1
    <2>3. QED
      BY <2>1, <2>2 DEF Promised
  <1>3. QED
    BY <1>1, <1>2 DEF PairInv, Paired, Grounded

\* Pairs stay as they are promised.
LEMMA AlwaysPaired ==
  ASSUME CounterWide
  PROVE  Spec => []PairInv
  <1>1. TypeOK /\ Timely /\ QubitAccounting /\ PairInv /\ [Next]_vars => PairInv'
    BY NextPairs
  <1>2. QED
    BY <1>1, InitPairs, TypeCorrect, AlwaysTimely, MemoriesAccounted, PTL
    DEF Spec

\* What is promised is half of a pair, or has been collapsed.
LEMMA PromisesSound ==
  ASSUME CounterWide, TypeOK, Timely, QubitAccounting, PairInv, NEW n \in Node,
         NEW m \in Promised(n)
  PROVE  SoundHalf(m) /\ Measurable(m)
  <1>1. m \in Memory
    BY PromisedOwn
  <1>2. m # NoQubit
    BY <1>1, NoQubitIsNone
  <1>3. QED
    BY <1>1, <1>2 DEF PairInv, Paired, Grounded, SoundHalf, Measurable

-----------------------------------------------------------------------------
\* A pair is never known to one end alone, whatever the delays, the buffers
\* and the jitter, and whichever pairs are heralded: both halves are resources
\* or about to become resources of the two ends, and every resource is half of
\* a pair or has been collapsed (RuleEngine.cc:1008-1031).
THEOREM PairsNeverOneSided ==
  ASSUME CounterWide
  PROVE  Spec => []PairsAgree
  <1>1. ASSUME TypeOK, Timely, QubitAccounting, PairInv PROVE PairsAgree
    <2>1. \A m \in Memory : partner[m] # NoQubit /\ SoundHalf(m) =>
            \E n \in Node : m \in Promised(n) /\ partner[m] \in Promised(Peer(n))
      BY <1>1 DEF PairInv, Paired
    <2>2. \A n \in Node : \A m \in Promised(n) : SoundHalf(m)
      BY <1>1, PromisesSound
    <2>3. QED
      BY <2>1, <2>2 DEF PairsAgree
  <1>2. QED
    BY <1>1, TypeCorrect, AlwaysTimely, MemoriesAccounted, AlwaysPaired, PTL

\* No event ends the simulation with an error: the results of a trial fit the
\* shots they are about, no busy memory is asked to emit, and whatever a rule
\* holds it can measure.
THEOREM SimulationNeverFails ==
  ASSUME CounterWide
  PROVE  Spec => []NoSimulationError
  <1>1. ASSUME TypeOK, Timely, QubitAccounting, PairInv PROVE ResultsAccepted
    <2> SUFFICES ASSUME NEW n \in Node, TrialOver(n)
                 PROVE  ~ ResultsRefused(n, Head(inbox[n]).failed)
      BY DEF ResultsAccepted
    <2>1. PICK failed : failed = Head(inbox[n]).failed
      OBVIOUS
    <2>2. Told(n)
      BY DEF TrialOver, MessageDue, Told
    <2>3. /\ Verdicts(n) = failed /\ failed \in Seq(BOOLEAN)
          /\ Len(failed) <= Len(tracker[n])
      BY <1>1, <2>1, <2>2, VerdictsSound, VerdictsNow
    <2>4. ~ (Len(failed) > Len(tracker[n]))
      <3>1. PICK k \in Nat, l \in Nat : k = Len(failed) /\ l = Len(tracker[n])
        BY <1>1, <2>3, EndTypes
      <3>2. QED
        BY <2>3, <3>1
    <2>5. TableSound(n)
      BY <1>1 DEF QubitAccounting
    <2>6. /\ Shots(n) = Failed(n, failed) \cup Heralded(n, failed)
                          \cup Late(n, failed)
      BY <1>1, <2>3, <2>5, ShotsSplit
    <2>7. Failed(n, failed) \cup Late(n, failed) \subseteq busy
      <3>1. Shots(n) \subseteq busy
        BY <2>5, Zenon DEF TableSound
      <3>2. QED
        BY <2>6, <3>1
    <2>8. \A m \in Heralded(n, failed) : SoundHalf(m)
      <3>1. Heralded(n, failed) \subseteq Promised(n)
        BY <1>1, <2>3, PromisedNow
      <3>2. QED
        BY <1>1, <3>1, PromisesSound
    <2>9. ~ ResultsRefused(n, failed)
      BY <2>4, <2>7, <2>8 DEF ResultsRefused
    <2>10. QED
      BY <2>1, <2>9
  <1>2. ASSUME TypeOK, Timely, QubitAccounting, PairInv PROVE ResourcesMeasurable
    <2>1. \A n \in Node : resources[n] \subseteq Promised(n)
      BY <1>2, PromisedNow
    <2>2. QED
      BY <1>2, <2>1, PromisesSound DEF ResourcesMeasurable
  <1>3. TypeOK /\ Timely /\ QubitAccounting /\ PairInv /\ EmissionsAccepted
          => NoSimulationError
    BY <1>1, <1>2 DEF NoSimulationError
  <1>4. QED
    BY <1>3, TypeCorrect, AlwaysTimely, MemoriesAccounted, AlwaysPaired,
       EmissionsNeverRefused, PTL

\* The ends stay in step: both run the same trial, but for one that a message
\* on its way ends, one list of results at most is on its way to each, and no
\* verdict is about a shot an end has not made.
THEOREM TrialsStayInStep ==
  ASSUME CounterWide
  PROVE  Spec => []TrialsInStep
  <1>1. ASSUME TypeOK, Timely PROVE TrialsInStep
    <2> DEFINE done(n) == IF Combined(n) = {} THEN 0 ELSE 1
    <2>1. ASSUME NEW n \in Node
          PROVE  /\ \A i, j \in Combined(n) : i = j
                 /\ Len(Verdicts(n)) <= Len(tracker[n])
      <3>1. Combined(n) = {} \/ Combined(n) = {1}
        BY <1>1, VerdictsSound, VerdictsNow
      <3>2. QED
        BY <1>1, <3>1, VerdictsSound
    <2>2. ASSUME NEW n \in Node
          PROVE  (trial[n] + done(n)) % TrialWrap = Upcoming(n)
      <3>1. trial[n] \in Trial
        BY <1>1 DEF TypeOK, EmissionTypeOK
      <3>2. CASE Told(n)
        <4>1. Combined(n) = {1}
          BY <1>1, <3>2, VerdictsSound, VerdictsNow
        <4>2. done(n) = 1
          BY <4>1
        <4>3. Upcoming(n) = NextTrial(trial[n])
          BY <3>2 DEF Upcoming, Told
        <4>4. QED
          BY <4>2, <4>3 DEF NextTrial
      <3>3. CASE ~ Told(n)
        <4>1. Combined(n) = {}
          BY <1>1, <3>3, VerdictsSound, VerdictsNow
        <4>2. done(n) = 0
          BY <4>1
        <4>3. Upcoming(n) = trial[n]
          BY <3>3 DEF Upcoming, Told
        <4>4. trial[n] + 0 = trial[n] /\ trial[n] % TrialWrap = trial[n]
          BY <3>1, Counting
        <4>5. QED
          BY <4>2, <4>3, <4>4
      <3>4. QED
        BY <3>2, <3>3
    <2>3. Upcoming("left") = Upcoming("right")
      <3>1. PICK a \in Int, c \in [Node -> Nat], o \in [Node -> Nat] :
              TimeInv(a, c, o)
        BY <1>1 DEF Timely
      <3>2. CASE booting
        BY <3>1, <3>2 DEF TimeInv, Resting, Upcoming, Node
      <3>3. CASE ~ booting
        BY <3>1, <3>3 DEF TimeInv
      <3>4. QED
        BY <3>2, <3>3
    <2>4. "left" \in Node /\ "right" \in Node
      BY DEF Node
    <2>5. (trial["left"] + done("left")) % TrialWrap
            = (trial["right"] + done("right")) % TrialWrap
      BY <2>2, <2>3, <2>4
    <2>6. QED
      BY <2>1, <2>5 DEF TrialsInStep
  <1>2. QED
    BY <1>1, TypeCorrect, AlwaysTimely, PTL

\* Without jitter, the timing the controller hands out makes the photons meet:
\* whatever the delays of the fibers and the sizes of the two QNICs, a photon
\* that the analyzer takes into a round never finds one of the other end that
\* came at an earlier instant, so "Emission Timing Failed" is never reached.
THEOREM PhotonsAlwaysMeet ==
  ASSUME CounterWide, Jitter = 0
  PROVE  Spec => []PhotonsMeet
  <1>1. ASSUME TypeOK, Timely PROVE PhotonsMeet
    <2> SUFFICES ASSUME NEW p \in Node, fiber[p] # <<>>, Head(fiber[p]).in = 0,
                        trialDone => Opens(Head(fiber[p])),
                        Seen(p, Head(fiber[p]))[Peer(p)] = "before"
                 PROVE  FALSE
      BY DEF PhotonsMeet
    <2>1. PICK a \in Int, c \in [Node -> Nat], o \in [Node -> Nat] :
            TimeInv(a, c, o)
      BY <1>1 DEF Timely
    <2>2. PICK q \in Node : q = Peer(p) /\ q # p /\ p = Peer(q) /\ Node = {p, q}
      BY Ends DEF Node, Peer
    <2>3. ~ Opens(Head(fiber[p])) /\ arrived[q] = "before" /\ ~ trialDone
      BY <2>2 DEF Seen
    <2>4. Head(fiber[p]) = fiber[p][1]
      BY <1>1, EndTypes
    <2>5. ~ booting
      BY <2>1 DEF TimeInv, Resting
    <2>6. Measuring(a, c, o) /\ EndInv(p, a, c[p], o[p])
      BY <2>1, <2>3, <2>5 DEF TimeInv, Phase, Ending, Settled
    <2>7. o[p] = 0
      BY <2>6 DEF Measuring
    <2>8. PICK j \in Nat : j = c[p]
      OBVIOUS
    <2>9. EndInv(p, a, j, 0)
      <3>1. EndInv(p, a, j, o[p])
        BY <2>6, <2>8
      <3>2. QED
        BY <2>7, <3>1
    <2>10. fiber[p][1].in = 0
      BY <2>4
    <2>11. 0 - Jitter <= Slot(a, j + 1) /\ tracker[p] # <<>>
      BY <1>1, <2>9, <2>10, ArrivesInSlot
    <2>12. Waits(q, a, c)
      <3>1. ~ Even(c)
        BY <2>3 DEF Even
      <3>2. ~ Waits(p, a, c)
        BY <2>2, <2>3 DEF Waits
      <3>3. QED
        BY <2>2, <2>6, <3>1, <3>2 DEF Measuring
    <2>13. c[q] = j + 1 /\ Slot(a, c[q]) < 0
      <3>1. c[p] = Judged /\ Slot(a, c[q]) < 0
        BY <2>2, <2>3, <2>12, Zenon DEF Waits
      <3>2. c[q] = Judged + 1 \/ tracker[p] = <<>>
        BY <2>2, <2>12, Zenon DEF Waits
      <3>3. QED
        <4>1. tracker[p] # <<>>
          BY <2>11
        <4>2. c[q] = Judged + 1 /\ Judged = j
          BY <2>8, <3>1, <3>2, <4>1
        <4>3. QED
          BY <3>1, <4>2, Zenon
    <2>14. PICK g \in Int : g = Slot(a, j + 1)
      <3>1. j + 1 \in Nat
        OBVIOUS
      <3>2. QED
        BY <3>1, Slots, Zenon
    <2>15. g < 0 /\ 0 - Jitter <= g /\ Jitter = 0
      BY <2>11, <2>13, <2>14
    <2>16. QED
      BY <2>15
  <1>2. QED
    BY <1>1, TypeCorrect, AlwaysTimely, PTL
=============================================================================
