---------------------------- MODULE MCReconciler ----------------------------
(* Instances of Reconciler for TLC. *)
EXTENDS Reconciler, TLC

CONSTANTS a, r1, r2

\* Two release names Swarm cannot keep apart.
OnePair == {<<r1, r2>>, <<r2, r1>>}
NoPair == {}

(***************************************************************************)
(* Two applications, two entries, two syncs, two releases, three specs and *)
(* a push, with a shutdown, are too much at once.  A run with the          *)
(* constraint explores the union of four smaller instances, each large in  *)
(* what its properties are about.                                          *)
(***************************************************************************)
Used == {e \in Entries : name[e] # None}
Asked == {s \in Syncs : pc[s] # "idle" \/ promise[s] # 0}

OneApplication == \A e \in Entries : name[e] \in {a, None}
OneEntry == Cardinality(Used) <= 1 /\ OneApplication
OneSync == Cardinality(Asked) <= 1
OneSpec == \A e \in Entries : spec[e] <= 1
NoPush == head = 1
NoShutdown == api = "open" /\ root # "done"
NothingPlanned == \A w \in Workers : job[w].plan = {}

\* An application that leaves and comes back, and a sync of it.
Returning == OneApplication /\ OneSync /\ OneSpec /\ NoPush /\ NothingPlanned
\* Two syncs of one application, and a push.
Asking == OneEntry /\ OneSpec /\ NothingPlanned
\* Edits of one application, and a sync.
Editing == OneEntry /\ OneSync /\ NoPush /\ NothingPlanned /\ NoShutdown
\* Two applications, or one and what it was, that install.
Installing == Asked = {} /\ OneSpec /\ NoPush /\ NoShutdown

OneAtATime == Returning \/ Asking \/ Editing \/ Installing

Symmetry == Permutations(Entries) \cup Permutations(Syncs)
=============================================================================
