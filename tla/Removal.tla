------------------------------ MODULE Removal -------------------------------
(* What deleting a release promises: it is found again until nothing of it *)
(* is left, and what has begun to go is either gone in the end or put      *)
(* back by a deploy.  Nothing is ever left that no record points at.       *)
EXTENDS Naturals

CONSTANT Releases
VARIABLE stage   \* release -> "installed", "dismantling", "gone"

Init == stage = [r \in Releases |-> "installed"]

\* Part of a recorded release has been removed.
Dismantle(r) == stage[r] = "installed" /\ stage' = [stage EXCEPT ![r] = "dismantling"]

\* The last of it has been removed, and its records with it.
Finish(r) == stage[r] # "gone" /\ stage' = [stage EXCEPT ![r] = "gone"]

\* A deploy puts the whole of it in place.
Deploy(r) == stage[r] # "installed" /\ stage' = [stage EXCEPT ![r] = "installed"]

Next == \E r \in Releases : Dismantle(r) \/ Finish(r) \/ Deploy(r)
Spec == Init /\ [][Next]_stage
=============================================================================
