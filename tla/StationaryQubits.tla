-------------------------- MODULE StationaryQubits --------------------------
(***************************************************************************)
(* The memories at the two ends of one link (stationaryQubit.cc), each a   *)
(* StationaryQubit of the QNIC that faces the link.                        *)
(*                                                                         *)
(* Kept: whether a memory is busy, and what the simulator (not the nodes)  *)
(* knows of its state, which RuleEngine.cc checks before it trusts a pair: *)
(* the pointer entangled_partner, and whether Density_Matrix_Collapsed     *)
(* holds a matrix.  Abstracted: the matrix, the Pauli frame and the kind   *)
(* of memory error.  A memory error that breaks a pair leaves the pointers *)
(* and the flag a measurement leaves.                                      *)
(***************************************************************************)
EXTENDS LinkEnds, Integers, Sequences

CONSTANT NumBuffer        \* numBuffer of the QNIC at each end

ASSUME NumBufferAssumption == NumBuffer \in [Node -> Nat \ {0}]

MemoryOf(n) == {n} \X (0 .. NumBuffer[n] - 1)
Memory == MemoryOf("left") \cup MemoryOf("right")
NoQubit == <<"none", -1>>                 \* the null pointer

VARIABLES
  isBusy,     \* memories that have emitted since they were last set free
  partner,    \* entangled_partner of each memory, NoQubit when null
  collapsed   \* memories whose Density_Matrix_Collapsed holds a matrix

memoryVars == <<isBusy, partner, collapsed>>

MemoryTypeOK ==
  /\ isBusy \in SUBSET Memory
  /\ partner \in [Memory -> Memory \cup {NoQubit}]
  /\ collapsed \in SUBSET Memory

MemoryInit ==
  /\ isBusy = {}
  /\ partner = [m \in Memory |-> NoQubit]
  /\ collapsed = {}

-----------------------------------------------------------------------------
\* setBusy: m sends the photon of its excitation.
Excite(m) ==
  /\ isBusy' = isBusy \cup {m}
  /\ UNCHANGED <<partner, collapsed>>

\* GOD_updateEntangledInfoParameters_of_qubits: a Bell measurement of the
\* photons of a and b succeeded, each memory now points to the other one.
Entangle(a, b) ==
  /\ partner' = [partner EXCEPT ![a] = b, ![b] = a]
  /\ UNCHANGED <<isBusy, collapsed>>

\* GOD_setCompletelyMixedDensityMatrix: a dark count was taken for a photon;
\* both memories are left completely mixed, and whatever they pointed to no
\* longer points back.
Mix(a, b) ==
  LET forgotten == {a, b, partner[a], partner[b]}
  IN  /\ partner' = [m \in Memory |-> IF m \in forgotten THEN NoQubit
                                                         ELSE partner[m]]
      /\ collapsed' = collapsed \cup {a, b}
      /\ UNCHANGED isBusy

\* Mutant of Release: measuring one half leaves the other half as it was.
ReleaseAlone(freed, measured) ==
  LET reset == freed \cup measured
  IN  /\ isBusy' = isBusy \ reset
      /\ partner' = [m \in Memory |-> IF m \in reset THEN NoQubit
                                                     ELSE partner[m]]
      /\ collapsed' = collapsed \ reset

\* Measuring one half of a pair collapses the other half and nulls the
\* pointer of the other half, not its own.
Collapse(measured) == {partner[m] : m \in measured} \ {NoQubit}

\* "measured" are measured, and then all of "freed" and "measured" are set
\* free, which nulls their own pointers and clears their matrices.
Release(freed, measured) ==
  LET reset == freed \cup measured
      halves == Collapse(measured)
  IN  /\ isBusy' = isBusy \ reset
      /\ partner' = [m \in Memory |-> IF m \in reset \cup halves THEN NoQubit
                                                              ELSE partner[m]]
      /\ collapsed' = (collapsed \cup halves) \ reset

\* The test freeFailedQubits_and_AddAsResource makes of a heralded memory: it
\* is either half of a pair that points back, or its peer was measured.
SoundHalf(m) ==
  IF partner[m] = NoQubit THEN m \in collapsed ELSE partner[partner[m]] = m
=============================================================================
