--------------------------- MODULE PhotonEmission ---------------------------
(***************************************************************************)
(* The part of RuleEngine.cc that drives one QNIC at each end of a link    *)
(* with a Bell state analyzer: the burst of photons of a trial, the        *)
(* bookkeeping of the memories it uses, and the resources a trial leaves.  *)
(*                                                                         *)
(* A pending self-message carries the ticks left until it is due ("in").   *)
(* The rules that use the resources are abstracted to the set of memories  *)
(* they measure and free; HoldResources = FALSE is the tomography rule     *)
(* set, which measures every resource when it is allocated.                *)
(***************************************************************************)
EXTENDS StationaryQubits

CONSTANTS
  Interval,       \* ticks between two emissions, from accepted_photons_per_sec
  TrialWrap,      \* the trial counter is an int: it wraps
  HoldResources   \* may the running rules keep a resource for later?

ASSUME EmissionAssumption ==
  /\ Interval \in Nat \ {0}
  /\ TrialWrap \in Nat \ {0, 1}
  /\ HoldResources \in BOOLEAN

VARIABLES
  busy,        \* Busy_OR_Free_QubitState_table: the memories marked busy
  trial,       \* qnic_burst_trial_counter
  tracker,     \* tracker: the memories shot in this trial, in order
  resources,   \* allResources toward the peer
  terminated,  \* terminated_qnic
  schedules,   \* pending SchedulePhotonTransmissionsOnebyOne
  emissions    \* pending EmitPhotonRequest

emissionVars ==
  <<busy, trial, tracker, resources, terminated, schedules, emissions>>

Trial == 0 .. TrialWrap - 1

ScheduleMsg == [in : Nat, trial : Trial, timing : Nat, first : BOOLEAN]
EmitMsg == [in : Nat, trial : Trial, qubit : Memory,
            first : BOOLEAN, last : BOOLEAN]

EmissionTypeOK ==
  /\ busy \in SUBSET Memory
  /\ trial \in [Node -> Trial]
  /\ tracker \in [Node -> Seq(Memory)]
  /\ resources \in [Node -> SUBSET Memory]
  /\ terminated \in [Node -> BOOLEAN]
  /\ schedules \in [Node -> SUBSET ScheduleMsg]
  /\ emissions \in [Node -> SUBSET EmitMsg]

EmissionInit ==
  /\ busy = {}
  /\ trial = [n \in Node |-> 0]
  /\ tracker = [n \in Node |-> <<>>]
  /\ resources = [n \in Node |-> {}]
  /\ terminated = [n \in Node |-> FALSE]
  /\ schedules = [n \in Node |-> {}]
  /\ emissions = [n \in Node |-> {}]

-----------------------------------------------------------------------------
Free(n, taken) == MemoryOf(n) \ taken

\* Mutant of LowestFree: the table is not consulted.
LowestAny(n, m) == m = <<n, 0>>

\* getOneFreeQubit_inQnic: the free memory with the lowest index.
LowestFree(n, m) ==
  /\ m \in Free(n, busy)
  /\ \A o \in Free(n, busy) : m[2] <= o[2]

\* Mutant of NextTrial: the counter is as wide as it needs to be.
UnboundedTrial(t) == t + 1

\* incrementBurstTrial.
NextTrial(t) == (t + 1) % TrialWrap

\* Mutant of Outdated: self-messages are never dropped.
NeverOutdated(n, msg) == FALSE

\* A self-message of an earlier trial is outdated (burstTrial_outdated).
Outdated(n, msg) == msg.trial # trial[n]

DueEmissions(n) == {e \in emissions[n] : e.in = 0}

\* A request to emit was scheduled just before the request to schedule the
\* next one: when both are due it is handled first.
DueSchedules(n) ==
  IF DueEmissions(n) = {} THEN {s \in schedules[n] : s.in = 0} ELSE {}

\* scheduleFirstPhotonEmission: the burst of trial t starts only when some
\* memory is free; otherwise nothing is scheduled.
ScheduleFirst(n, t, timing, taken) ==
  schedules' = [schedules EXCEPT ![n] = @ \cup
     {s \in {[in |-> 0, trial |-> t, timing |-> timing, first |-> TRUE]} :
        Free(n, taken) # {}}]

-----------------------------------------------------------------------------
\* SchedulePhotonTransmissionsOnebyOne of a trial that is over.
DropSchedule(n) ==
  /\ \E s \in DueSchedules(n) :
        /\ Outdated(n, s)
        /\ schedules' = [schedules EXCEPT ![n] = @ \ {s}]
  /\ UNCHANGED <<busy, trial, tracker, resources, terminated, emissions>>

\* shootPhoton with no free memory: the burst of this trial ends.
EndBurst(n) ==
  /\ Free(n, busy) = {}
  /\ \E s \in DueSchedules(n) :
        /\ ~ Outdated(n, s)
        /\ schedules' = [schedules EXCEPT ![n] = @ \ {s}]
  /\ UNCHANGED <<busy, trial, tracker, resources, terminated, emissions>>

\* shootPhoton: the first free memory is marked busy at once; its emission
\* and the next call are scheduled for the same instant.  A photon is marked
\* last when it takes the last free memory.
ShootPhoton(n) ==
  /\ \E s \in DueSchedules(n), m \in MemoryOf(n) :
        LET wait == IF s.first THEN s.timing ELSE Interval
        IN  /\ ~ Outdated(n, s)
            /\ LowestFree(n, m)
            /\ busy' = busy \cup {m}
            /\ emissions' = [emissions EXCEPT ![n] = @ \cup
                 {[in |-> wait, trial |-> s.trial, qubit |-> m,
                   first |-> s.first, last |-> Free(n, busy') = {}]}]
            /\ schedules' = [schedules EXCEPT ![n] = (@ \ {s}) \cup
                 {[s EXCEPT !.in = wait, !.first = FALSE]}]
  /\ UNCHANGED <<trial, tracker, resources, terminated>>

\* EmitPhotonRequest of a trial that is over.
DropEmission(n) ==
  /\ \E e \in DueEmissions(n) :
        /\ Outdated(n, e)
        /\ emissions' = [emissions EXCEPT ![n] = @ \ {e}]
  /\ UNCHANGED <<busy, trial, tracker, resources, terminated, schedules>>

\* EmitPhotonRequest: the memory becomes the next shot of this trial.
Emit(n, e) ==
  /\ e \in DueEmissions(n)
  /\ ~ Outdated(n, e)
  /\ tracker' = [tracker EXCEPT ![n] = Append(@, e.qubit)]
  /\ emissions' = [emissions EXCEPT ![n] = @ \ {e}]
  /\ UNCHANGED <<busy, trial, resources, terminated, schedules>>

\* BSMtimingNotifier: the first trial.
StartTrial(n, timing) ==
  /\ ScheduleFirst(n, trial[n], timing, busy)
  /\ UNCHANGED <<busy, trial, tracker, resources, terminated, emissions>>

-----------------------------------------------------------------------------
\* The shots of this trial the list of results calls failed, those it calls
\* entangled, and those shot after the last one it covers.
Failed(n, failed) ==
  {tracker[n][i] : i \in {j \in 1 .. Len(failed) : failed[j]}}
Heralded(n, failed) ==
  {tracker[n][i] : i \in {j \in 1 .. Len(failed) : ~ failed[j]}}

\* Mutant of Late: a shot without a result is left as it is.
NoneLate(n, failed) == {}

Late(n, failed) ==
  {tracker[n][i] : i \in (Len(failed) + 1) .. Len(tracker[n])}

\* What the rules of n may use up while resources are allocated to them.
Consumable(stock) == IF HoldResources THEN SUBSET stock ELSE {stock}

\* CombinedBSAresults: freeFailedQubits_and_AddAsResource frees the failed
\* and the late shots, keeps the heralded ones and lets the rules consume;
\* the tracker is cleared, and unless emission was stopped the next trial is
\* scheduled.
EndTrial(n, timing, failed, consumed) ==
  /\ consumed \in Consumable(resources[n] \cup Heralded(n, failed))
  /\ trial' = [trial EXCEPT ![n] = NextTrial(@)]
  /\ busy' = busy \ (Failed(n, failed) \cup Late(n, failed) \cup consumed)
  /\ resources' =
       [resources EXCEPT ![n] = (@ \cup Heralded(n, failed)) \ consumed]
  /\ tracker' = [tracker EXCEPT ![n] = <<>>]
  /\ IF terminated[n] THEN UNCHANGED schedules
                      ELSE ScheduleFirst(n, trial'[n], timing, busy')
  /\ UNCHANGED <<terminated, emissions>>

\* The rules of n, run after any other message, consume a resource
\* (freeConsumedResource).
Consume(n, m) ==
  /\ m \in resources[n]
  /\ busy' = busy \ {m}
  /\ resources' = [resources EXCEPT ![n] = @ \ {m}]
  /\ UNCHANGED <<trial, tracker, terminated, schedules, emissions>>

\* StopEmitting, from the hardware monitor when its tomography is complete.
StopEmitting(n) ==
  /\ ~ terminated[n]
  /\ terminated' = [terminated EXCEPT ![n] = TRUE]
  /\ UNCHANGED <<busy, trial, tracker, resources, schedules, emissions>>
=============================================================================
