--------------------------- MODULE QubitLifecycle ---------------------------
(***************************************************************************)
(* What the rule engines promise of each memory of a link: it is reserved, *)
(* then shot, and when the trial ends it is either held as half of a pair  *)
(* or idle again; a held memory becomes idle when a rule uses it up.  The  *)
(* shots of a trial are settled together.  A reserved memory is not        *)
(* promised to be shot.                                                    *)
(***************************************************************************)
EXTENDS LinkEnds

CONSTANT Memories   \* the memories of each end
VARIABLE stage      \* "idle", "reserved", "shot" or "held"

At(n, s) == {m \in Memories[n] : stage[m] = s}

Init == stage = [m \in UNION {Memories[n] : n \in Node} |-> "idle"]

Move(moved, s) ==
  stage' = [m \in DOMAIN stage |-> IF m \in moved THEN s ELSE stage[m]]

Reserve(n) == \E m \in At(n, "idle") : Move({m}, "reserved")
Shoot(n) == \E m \in At(n, "reserved") : Move({m}, "shot")
UseUp(n) == \E m \in At(n, "held") : Move({m}, "idle")

Settle(n) ==
  \E kept \in SUBSET (At(n, "shot") \cup At(n, "held")) :
     stage' = [m \in DOMAIN stage |->
                 IF m \in kept THEN "held"
                 ELSE IF m \in At(n, "shot") \cup At(n, "held") THEN "idle"
                 ELSE stage[m]]

Next == \E n \in Node : Reserve(n) \/ Shoot(n) \/ Settle(n) \/ UseUp(n)

Spec == Init /\ [][Next]_stage
=============================================================================
