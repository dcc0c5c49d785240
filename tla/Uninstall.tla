----------------------------- MODULE Uninstall ------------------------------
(***************************************************************************)
(* How the releases of an application that has left the set are taken off  *)
(* the swarm: Pruner.Departed, and prune.Release with its purge of the     *)
(* named volumes on every node, or on the one node the controller talks to.*)
(*                                                                         *)
(* A release is its stack, its volumes and its records, on several         *)
(* daemons.  Every call may fail, a call that failed may have done its     *)
(* work, nodes come and go, containers keep their volumes for a while, the *)
(* process may stop between any two calls, and an application that stays   *)
(* may come to declare a release while it is being removed.                *)
(***************************************************************************)
EXTENDS Naturals, FiniteSets

CONSTANTS
    Releases,    \* the releases of the departed application
    Nodes,       \* the nodes of the swarm
    Here,        \* the node the controller talks to
    Heirs,       \* releases an application of the set may come to declare
    MaxFaults    \* bound: failed calls, stops, nodes that go down

ASSUME UninstallAssumption ==
    /\ Here \in Nodes /\ Heirs \subseteq Releases /\ MaxFaults \in Nat
    /\ IsFiniteSet(Nodes)

VARIABLES
    volumes,    \* VolumePurge.Enabled, fixed
    reaches,    \* whether the registry implements swarms.NodeReach, fixed
    faults,     \* faults still to come
    \* the swarm
    stack,      \* releases whose stack is deployed, whole or in part
    volume,     \* <<release, node>>: a named volume is on the node
    inUse,      \* volumes a container still holds
    record,     \* release -> who its records name: "departed", "heir", "none"
    up,         \* nodes that answer
    heirs,      \* releases the status of another application lists
    \* the sweep
    pc,         \* "idle", "listed", "stack", "volumes", "records"
    todo,       \* releases it has still to remove
    at,         \* the one it is removing
    nodes,      \* the nodes the registry handed over, still to purge
    partly,     \* the purge cannot be shown to cover the swarm
    failed,     \* the releases it could not remove
    \* what it says, and history
    warned,     \* releases whose purge was reported as incomplete
    pruned,     \* the sweep reported the application as emptied
    raced       \* releases deployed anew while they were being removed

swarm == <<stack, volume, inUse, record, up, heirs>>
sweep == <<pc, todo, at, nodes, partly, failed>>
vars == <<volumes, reaches, faults, swarm, sweep, warned, pruned, raced>>

TypeOK ==
    /\ volumes \in BOOLEAN /\ reaches \in BOOLEAN /\ faults \in 0..MaxFaults
    /\ stack \subseteq Releases /\ volume \subseteq Releases \X Nodes /\ inUse \subseteq volume
    /\ record \in [Releases -> {"departed", "heir", "none"}]
    /\ up \subseteq Nodes /\ heirs \subseteq Heirs
    /\ pc \in {"idle", "listed", "stack", "volumes", "records"}
    /\ todo \subseteq Releases /\ at \in Releases /\ nodes \subseteq Nodes
    /\ partly \in BOOLEAN /\ failed \subseteq Releases
    /\ warned \subseteq Releases /\ pruned \in BOOLEAN /\ raced \subseteq Releases

Fault == faults > 0 /\ faults' = faults - 1

\* departed: stamped for an application that is not in the set, and declared by
\* none that is.
Departing == {r \in Releases : record[r] = "departed" /\ r \notin heirs}

\* Engine.List, after the claims were read.
List ==
    /\ pc = "idle" /\ Departing # {}
    /\ pc' = "listed" /\ todo' = Departing
    /\ pruned' = FALSE
    /\ UNCHANGED <<volumes, reaches, faults, swarm, at, nodes, partly, failed, warned, raced>>

NextRelease ==
    \E r \in todo :
        /\ pc = "listed"
        /\ pc' = "stack" /\ at' = r /\ todo' = todo \ {r}
        /\ UNCHANGED <<volumes, reaches, faults, swarm, nodes, partly, failed, warned, pruned,
                       raced>>

\* uninstall returns: the failure is kept, and the next release attempted.
Returns(error) ==
    /\ pc' = "listed"
    /\ failed' = IF error THEN failed \cup {at} ELSE failed
    /\ nodes' = {} /\ partly' = FALSE
    /\ UNCHANGED <<todo, at>>

\* RemoveStack.  The containers go on for a while, and with them the volumes.
RemoveStack ==
    /\ pc = "stack"
    /\ stack' = stack \ {at}
    /\ pc' = IF volumes THEN "volumes" ELSE "records"
    \* purgeVolumes: what the registry reaches, or this node
    /\ nodes' = IF ~volumes THEN {} ELSE IF reaches THEN up ELSE {Here}
    /\ partly' = (volumes /\ nodes' # Nodes)
    /\ UNCHANGED <<volumes, reaches, faults, volume, inUse, record, up, heirs, todo, at, failed,
                   warned, pruned, raced>>

RemoveStackGoesOn ==
    /\ pc = "stack" /\ Fault
    /\ pc' = "records"
    /\ UNCHANGED <<volumes, reaches, swarm, todo, at, nodes, partly, failed, warned, pruned,
                   raced>>

\* RemoveStack, or the listing of the nodes, fails: some of it may have gone.
RemoveStackFails ==
    /\ pc = "stack" /\ Fault
    /\ stack' \in {stack, stack \ {at}}
    /\ Returns(TRUE)
    /\ UNCHANGED <<volumes, reaches, volume, inUse, record, up, heirs, warned, pruned, raced>>

\* A volume of one node is removed once no container holds it (settle).
RemoveVolume ==
    \E n \in nodes :
        /\ pc = "volumes" /\ n \in up
        /\ <<at, n>> \in volume \ inUse
        /\ volume' = volume \ {<<at, n>>}
        /\ UNCHANGED <<volumes, reaches, faults, stack, inUse, record, up, heirs, sweep, warned,
                       pruned, raced>>

NodeDone ==
    \E n \in nodes :
        /\ pc = "volumes" /\ n \in up
        /\ <<at, n>> \notin volume
        /\ nodes' = nodes \ {n}
        /\ UNCHANGED <<volumes, reaches, faults, swarm, pc, todo, at, partly, failed, warned,
                       pruned, raced>>

PurgeFailureLogged ==
    /\ pc = "volumes" /\ (Fault \/ (~(nodes \subseteq up) /\ UNCHANGED faults))
    /\ pc' = "records" /\ nodes' = {}
    /\ UNCHANGED <<volumes, reaches, swarm, todo, at, partly, failed, warned, pruned, raced>>
PurgeWaits ==
    /\ pc = "volumes" /\ Fault
    /\ Returns(TRUE)
    /\ UNCHANGED <<volumes, reaches, swarm, warned, pruned, raced>>

\* A volume stays in use past the deadline, or a node that was handed over does
\* not answer: the whole purge fails, before the records.
PurgeFails ==
    /\ pc = "volumes"
    /\ \/ Fault
       \/ /\ ~(nodes \subseteq up) \/ (at \in stack /\ \E n \in nodes : <<at, n>> \in inUse)
          /\ UNCHANGED faults
    /\ Returns(TRUE)
    /\ UNCHANGED <<volumes, reaches, swarm, warned, pruned, raced>>

\* What could not be shown to be every node of the swarm is said not to be.
PurgeEnds ==
    /\ pc = "volumes" /\ nodes = {}
    /\ pc' = "records"
    /\ warned' = IF partly THEN warned \cup {at} ELSE warned
    /\ UNCHANGED <<volumes, reaches, faults, swarm, todo, at, nodes, partly, failed, pruned,
                   raced>>

\* Engine.Uninstall deletes the records, whoever they name now.
RemoveRecords ==
    /\ pc = "records"
    /\ record' = [record EXCEPT ![at] = "none"]
    /\ Returns(FALSE)
    /\ UNCHANGED <<volumes, reaches, faults, stack, volume, inUse, up, heirs, warned, pruned,
                   raced>>

\* It reports a failure, having deleted them or not.
RemoveRecordsFails ==
    /\ pc = "records" /\ Fault
    /\ record' \in {record, [record EXCEPT ![at] = "none"]}
    /\ Returns(TRUE)
    /\ UNCHANGED <<volumes, reaches, stack, volume, inUse, up, heirs, warned, pruned, raced>>

\* stillListed: a failure whose release has no records left is not one.
Report ==
    /\ pc = "listed" /\ todo = {}
    /\ pc' = "idle" /\ failed' = {}
    /\ pruned' = (\A r \in failed : record[r] = "none")
    /\ UNCHANGED <<volumes, reaches, faults, swarm, todo, at, nodes, partly, warned, raced>>

-----------------------------------------------------------------------------
(* Around the sweep *)

Stop ==
    /\ pc # "idle" /\ Fault
    /\ pc' = "idle" /\ todo' = {} /\ nodes' = {} /\ partly' = FALSE /\ failed' = {}
    /\ pruned' = FALSE
    /\ UNCHANGED <<volumes, reaches, swarm, at, warned, raced>>

ContainersGo ==
    /\ {v \in inUse : v[1] \notin stack} # {}
    /\ inUse' = {v \in inUse : v[1] \in stack}
    /\ UNCHANGED <<volumes, reaches, faults, stack, volume, record, up, heirs, sweep, warned,
                   pruned, raced>>

NodeGoes ==
    \E n \in up \ {Here} :
        /\ Fault /\ up' = up \ {n}
        /\ UNCHANGED <<volumes, reaches, stack, volume, inUse, record, heirs, sweep, warned,
                       pruned, raced>>

NodeComes ==
    /\ up # Nodes /\ up' = Nodes
    /\ UNCHANGED <<volumes, reaches, faults, stack, volume, inUse, record, heirs, sweep, warned,
                   pruned, raced>>

\* A pass of an application that stays records a plan with the release in it.
HeirPlans ==
    \E r \in Heirs \ heirs :
        /\ heirs' = heirs \cup {r}
        /\ UNCHANGED <<volumes, reaches, faults, stack, volume, inUse, record, up, sweep, warned,
                       pruned, raced>>

\* Its apply deploys it and stamps it.  Services nobody has records of are
\* refused (rejectForeignNamespace).
HeirDeploys ==
    \E r \in heirs :
        /\ record[r] = "departed" \/ (record[r] = "none" /\ r \notin stack)
        /\ stack' = stack \cup {r}
        /\ volume' = volume \cup ({r} \X Nodes) /\ inUse' = inUse \cup ({r} \X Nodes)
        /\ record' = [record EXCEPT ![r] = "heir"]
        /\ raced' = IF (at = r /\ pc \in {"stack", "volumes", "records"}) \/ r \in todo
                    THEN raced \cup {r} ELSE raced
        /\ warned' = warned \ {r}
        /\ UNCHANGED <<volumes, reaches, faults, up, heirs, sweep, pruned>>

Init ==
    /\ volumes \in BOOLEAN /\ reaches \in BOOLEAN /\ faults = MaxFaults
    /\ stack = Releases /\ volume = Releases \X Nodes /\ inUse = volume
    /\ record = [r \in Releases |-> "departed"] /\ up = Nodes /\ heirs = {}
    /\ pc = "idle" /\ todo = {} /\ at \in Releases /\ nodes = {} /\ partly = FALSE /\ failed = {}
    /\ warned = {} /\ pruned = FALSE /\ raced = {}

Sweep ==
    \/ List \/ NextRelease \/ RemoveStack \/ RemoveVolume \/ NodeDone \/ PurgeFails \/ PurgeEnds
    \/ RemoveRecords \/ Report

Next ==
    \/ Sweep \/ RemoveStackFails \/ RemoveRecordsFails
    \/ Stop \/ ContainersGo \/ NodeGoes \/ NodeComes \/ HeirPlans \/ HeirDeploys

Spec == Init /\ [][Next]_vars

\* The app-set loop sweeps on every pass; containers of removed services end;
\* nodes come back.
FairSpec == Spec /\ WF_vars(Sweep) /\ WF_vars(ContainersGo) /\ WF_vars(NodeComes)

-----------------------------------------------------------------------------
(* Properties *)

\* What a purge of this configuration is to remove, and what it hands over to
\* the operator by a warning.
Left(r) ==
    \/ r \in stack
    \/ volumes /\ r \notin warned /\ \E n \in Nodes : <<r, n>> \in volume

\* The records go last: a release without records has nothing left that a
\* warning does not name, unless another application deployed it during its
\* removal.
RecordsLast == \A r \in Releases \ raced : record[r] = "none" => ~Left(r)

\* An application is reported as emptied only when none of its releases is left.
ReportIsTrue == pruned => \A r \in Releases : record[r] = "departed" => r \in heirs

\* The types, records that go last, and a report that stays true.
UninstallInv == TypeOK /\ RecordsLast /\ ReportIsTrue

\* In the end every release that nobody declares is off the swarm.
AllGone == <>[](Departing = {})

\* stage, for the abstract removal: a stranded release is at none of its stages.
Stage == [r \in Releases |->
    IF record[r] = "none"
    THEN IF r \in raced \/ ~Left(r) THEN "gone" ELSE "stranded"
    ELSE IF r \in stack /\ \A n \in Nodes : <<r, n>> \in volume
         THEN "installed" ELSE "dismantling"]

Promise == INSTANCE Removal WITH stage <- Stage
Removes == Promise!Spec
=============================================================================
