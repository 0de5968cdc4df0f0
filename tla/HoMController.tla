---------------------------- MODULE HoMController ----------------------------
(***************************************************************************)
(* HoM_Controller.cc of a link that is not passive: it tells both ends     *)
(* when to start, accumulates the reports of its analyzer, and returns the *)
(* list of a trial to both ends together with the timing of the next one.  *)
(* BSAtimeoutChecker is never scheduled and its handler does nothing.      *)
(***************************************************************************)
EXTENDS LinkEnds, Integers, Sequences

CONSTANT Delay   \* ticks from an end to the HoM, for a photon or a message

ASSUME DelayAssumption == Delay \in [Node -> Nat]

VARIABLES
  booting,   \* BSAstart is pending
  results,   \* results: TRUE for a failed pair, in order of arrival
  inbox      \* messages on their way from the controller to each end

homVars == <<booting, results, inbox>>

Notice == [in : Nat, timing : Nat, combined : BOOLEAN, failed : Seq(BOOLEAN)]

HoMTypeOK ==
  /\ booting \in BOOLEAN
  /\ results \in Seq(BOOLEAN)
  /\ inbox \in [Node -> Seq(Notice)]

HoMInit ==
  /\ booting = TRUE
  /\ results = <<>>
  /\ inbox = [n \in Node |-> <<>>]

\* max_neighbor_distance, as a travel time.
MaxDelay == IF Delay["left"] >= Delay["right"] THEN Delay["left"]
                                               ELSE Delay["right"]

\* Mutant of StartTiming: the nearer end waits for the message only.
StartTimingOnce(n) == MaxDelay - Delay[n]

\* calculateEmissionStartTime: the nearer end waits, once for the message of
\* the farther one and once for its photon.
StartTiming(n) == (MaxDelay - Delay[n]) * 2

\* A message to each end; it travels as long as a photon does.
Notify(combined, failed) ==
  inbox' = [n \in Node |->
    Append(inbox[n], [in |-> Delay[n], timing |-> StartTiming(n),
                      combined |-> combined, failed |-> failed])]

\* BSAstart: sendNotifiers.
Boot ==
  /\ booting
  /\ booting' = FALSE
  /\ Notify(FALSE, <<>>)
  /\ UNCHANGED results

\* BSAresult: pushToBSAresults.
Accumulate(failed) ==
  /\ results' = Append(results, failed)
  /\ UNCHANGED <<booting, inbox>>

\* Mutant of Finish: the list is not cleared.
FinishUncleared(failed) ==
  /\ Notify(TRUE, Append(results, failed))
  /\ results' = Append(results, failed)
  /\ UNCHANGED booting

\* BSAfinish: the last report is pushed, the list goes to both ends and is
\* cleared.
Finish(failed) ==
  /\ Notify(TRUE, Append(results, failed))
  /\ results' = <<>>
  /\ UNCHANGED booting
=============================================================================
