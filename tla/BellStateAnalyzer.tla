-------------------------- MODULE BellStateAnalyzer --------------------------
(***************************************************************************)
(* BellStateAnalyzer.cc: pairs the photons that arrive on its two ports    *)
(* and reports every pair to the HoM controller.                           *)
(*                                                                         *)
(* Arrival times are kept only as far as handleMessage compares them: a    *)
(* port has seen no photon, one at this instant, or one earlier.  Whether  *)
(* a pair is heralded depends on loss, dark counts and the success rate,   *)
(* so its outcome is a parameter: "failed", "entangled", or "mixed" when a *)
(* dark count was taken for a photon.                                      *)
(***************************************************************************)
EXTENDS StationaryQubits

VARIABLES
  arrived,       \* left/right_arrived_at: "no", "now" or "before"
  origin,        \* left/right_statQubit_ptr: the memory behind the photon
  lastDetected,  \* left/right_last_photon_detected
  sendResult,    \* send_result: the next report closes the trial
  trialDone,     \* this_trial_done
  reports        \* BSAresult and BSAfinish on their way to the controller

analyzerVars ==
  <<arrived, origin, lastDetected, sendResult, trialDone, reports>>

Photon == [qubit : Memory, first : BOOLEAN, last : BOOLEAN]
Report == [failed : BOOLEAN, finish : BOOLEAN]
Outcome == {"failed", "entangled", "mixed"}

AnalyzerTypeOK ==
  /\ arrived \in [Node -> {"no", "now", "before"}]
  /\ origin \in [Node -> Memory \cup {NoQubit}]
  /\ lastDetected \in [Node -> BOOLEAN]
  /\ sendResult \in BOOLEAN
  /\ trialDone \in BOOLEAN
  /\ reports \in Seq(Report)
  /\ \A p \in Node : arrived[p] # "no" => origin[p] \in Memory

AnalyzerInit ==
  /\ arrived = [p \in Node |-> "no"]
  /\ origin = [p \in Node |-> NoQubit]
  /\ lastDetected = [p \in Node |-> FALSE]
  /\ sendResult = FALSE
  /\ trialDone = FALSE
  /\ reports = <<>>

-----------------------------------------------------------------------------
\* Mutant of Opens: any photon after the end of a round opens the next one.
OpensAnyway(photon) == trialDone

\* The first photon of a burst opens the next round when the last is done.
Opens(photon) == photon.first /\ trialDone

\* What the analyzer has seen once a photon on port p is taken in.
Seen(p, photon) ==
  [q \in Node |-> IF q = p THEN "now"
                  ELSE IF Opens(photon) THEN "no" ELSE arrived[q]]

LastSeen(p, photon) ==
  [q \in Node |->
     IF q = p
       THEN photon.last \/ (~ photon.first /\ lastDetected[p])
       ELSE ~ Opens(photon) /\ lastDetected[q]]

\* Mutant of Closing: only the photon taken in is looked at.
ClosingByLast(p, photon) == photon.last

Closing(p, photon) ==
  \/ ~ Opens(photon) /\ sendResult
  \/ \E q \in Node : LastSeen(p, photon)[q]

\* The part of handleMessage before the comparison of the arrival times.
TakeIn(p, photon) ==
  /\ lastDetected' = LastSeen(p, photon)
  /\ sendResult' = Closing(p, photon)

\* sendBSAresult and initializeVariables, in either order.
Conclude(p, photon, failed) ==
  /\ reports' = Append(reports,
                  [failed |-> failed, finish |-> Closing(p, photon)])
  /\ trialDone' = Closing(p, photon)
  /\ arrived' = [q \in Node |-> "no"]
  /\ origin' = [q \in Node |-> NoQubit]

\* The round is over: photons come from one side only and are dumped.
Dump(p, photon) ==
  /\ trialDone /\ ~ Opens(photon)
  /\ TakeIn(p, photon)
  /\ arrived' = Seen(p, photon)
  /\ origin' = [origin EXCEPT ![p] = photon.qubit]
  /\ UNCHANGED <<trialDone, reports>>

\* The photon of the other port has not arrived yet.
Await(p, photon) ==
  /\ trialDone => Opens(photon)
  /\ Seen(p, photon)[Peer(p)] = "no"
  /\ TakeIn(p, photon)
  /\ arrived' = Seen(p, photon)
  /\ origin' = [origin EXCEPT ![p] = photon.qubit]
  /\ trialDone' = FALSE
  /\ UNCHANGED reports

\* Both photons arrived within the required precision.
Coincide(p, photon, outcome) ==
  /\ trialDone => Opens(photon)
  /\ Seen(p, photon)[Peer(p)] = "now"
  /\ TakeIn(p, photon)
  /\ Conclude(p, photon, outcome = "failed")

\* "Emission Timing Failed": both arrived, but not together.
Misfire(p, photon) ==
  /\ trialDone => Opens(photon)
  /\ Seen(p, photon)[Peer(p)] = "before"
  /\ TakeIn(p, photon)
  /\ Conclude(p, photon, TRUE)

\* Time passes: what arrived before this instant cannot coincide any more.
AgeArrivals ==
  arrived' = [p \in Node |-> IF arrived[p] = "now" THEN "before" ELSE arrived[p]]
=============================================================================
