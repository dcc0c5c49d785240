----------------------------- MODULE LiveDrift -----------------------------
(***************************************************************************)
(* A release of one service under driftDetection: live, from commit to     *)
(* correction: what the repository declares, what the daemon holds, what   *)
(* Swarm makes of it, what people do to it by hand, and what the           *)
(* controller reports and does about it (drift/live.go, drift/drift.go,    *)
(* health/health.go, convergeable and record of reconcile/reconcile.go).   *)
(*                                                                         *)
(* A set of at most one value stands for one that may be missing.  The     *)
(* daemon's roll-outs and roll-backs are external.                         *)
(***************************************************************************)
EXTENDS Specs

CONSTANTS MaxCommits, MaxEdits  \* bounds

ASSUME LiveDriftAssumption == {MaxCommits, MaxEdits} \subseteq Nat

VARIABLES
    facet,
    want,       \* the spec the repository declares
    settled,    \* the plan calls the release unchanged
    installed,  \* it was deployed before
    got,        \* the stored spec
    prev,       \* the daemon's PreviousSpec
    status,     \* its UpdateStatus
    rejected,   \* the spec that Swarm last rolled back
    tasks,      \* its tasks are up
    nets,       \* the last listing of the networks, by id; none if it failed
    commits, edits

service == <<got, prev, status, rejected, tasks>>
vars == <<facet, want, settled, installed, service, nets, commits, edits>>

The(s) == CHOOSE x \in s : TRUE
RolledBack == {"rollback_started", "rollback_paused", "rollback_completed"}

-----------------------------------------------------------------------------
(* What is reported *)

\* Mutant: a rollback that has only started counts as a roll-out.
RolledBackEnded == status \in {"rollback_paused", "rollback_completed"}
\* rolledBack, which is asked where the specs differ.
IsRolledBack == status \in RolledBack

\* Live
Report ==
    CASE want = {} /\ got = {} -> "none"
      [] want # {} /\ got = {} -> "missing"
      [] want = {} /\ got # {} -> "unexpected"
      [] OTHER -> IF ~Differs(facet, The(want), The(got), nets) THEN "none"
                  ELSE IF IsRolledBack THEN "rolled-back" ELSE "modified"

\* Only what the plan calls unchanged is compared.
Compared == settled /\ installed
\* liveDrift: a read that failed proves nothing.
Drift(readFailed) ==
    IF ~Compared THEN {} ELSE IF readFailed THEN {"unknown"} ELSE
    IF Report = "none" THEN {"none"} ELSE {"detected"}
\* record: the sync state, with the drift folded in.
SyncState(readFailed) ==
    IF ~settled \/ Drift(readFailed) = {"detected"} THEN "out-of-sync" ELSE "synced"

\* convergeable
Convergeable == Compared /\ Report \in {"modified", "missing"}

AsDeclared(readFailed) == Compared /\ ~readFailed /\ Report = "none"

\* The engine's Convergence.
Phase(st) ==
    IF st \in RolledBack \cup {"paused"} THEN "wedged"
    ELSE IF st = "updating" \/ ~tasks THEN "progressing" ELSE "converged"

\* serviceHealth: a finished rollback to what is declared is history.
ServiceHealth(readFailed, syncFailed) ==
    LET phase == Phase(IF status = "rollback_completed" /\ AsDeclared(readFailed) THEN "none" ELSE status)
    IN IF phase = "converged" THEN "healthy"
       ELSE IF phase = "wedged" \/ syncFailed THEN "degraded" ELSE "progressing"

\* Release
Health(readFailed, syncFailed) ==
    IF ~installed THEN "missing" ELSE IF readFailed THEN "unknown"
    ELSE IF got = {} THEN "missing" ELSE ServiceHealth(readFailed, syncFailed)

\* rank, worst first, and Application's rollup over the releases.
HealthStates == <<"degraded", "missing", "progressing", "unknown", "healthy">>
\* Mutant: what is not known is not worth a mention.
WorstKnown(states) ==
    LET known == states \ {"unknown"} IN
    IF known = {} THEN "unknown"
    ELSE HealthStates[CHOOSE i \in 1 .. 5 : HealthStates[i] \in known
                         /\ \A j \in 1 .. i - 1 : HealthStates[j] \notin known]
Worst(states) ==
    HealthStates[CHOOSE i \in 1 .. 5 : HealthStates[i] \in states
                    /\ \A j \in 1 .. i - 1 : HealthStates[j] \notin states]
\* drift.Application, of the releases that were compared.
DriftOf(states) ==
    IF "detected" \in states THEN "detected" ELSE IF "unknown" \in states THEN "unknown" ELSE "none"

-----------------------------------------------------------------------------
(* The controller, and the daemon it writes to *)

\* The daemon refuses to change the mode of a service it has.
Accepted(v) == IF facet = "mode" THEN \A g \in got : g.kind = v.kind ELSE TRUE
\* What ran is the PreviousSpec, and only another spec is rolled out.
Write(v) ==
    /\ Accepted(v) /\ got' = {Stored(facet, v)} /\ prev' = got
    /\ IF got \in {{}, got'} THEN status' = "none" ELSE status' = "updating"
    /\ tasks' = (tasks /\ got' = got)
    /\ UNCHANGED rejected

\* An upgrade or an install; applying deletes nothing.
Deploy ==
    /\ ~settled /\ settled' = TRUE /\ installed' = TRUE
    /\ IF want = {} THEN UNCHANGED service ELSE Write(The(want))
    /\ UNCHANGED <<facet, want, nets, commits, edits>>

\* converge
Correct ==
    /\ Convergeable /\ Write(The(want))
    /\ UNCHANGED <<facet, want, settled, installed, nets, commits, edits>>

\* networkNames: a listing lacks the networks created since and those it cannot
\* see, and may have none at all; one that fails, or that the backend cannot make,
\* is nil and no empty listing.
AllNets == {IdOf(n) : n \in {"front", "back"}}
Listings == {{}} \cup {{listing} : listing \in SUBSET AllNets}
List ==
    /\ facet = "networks" /\ nets' \in Listings \ {nets}
    /\ UNCHANGED <<facet, want, settled, installed, service, commits, edits>>

-----------------------------------------------------------------------------
(* The repository, people and Swarm *)

Commit ==
    /\ commits < MaxCommits /\ commits' = commits + 1
    /\ want' \in {{}} \cup {{v} : v \in Written(facet)} /\ want' # want
    /\ settled' = FALSE
    /\ UNCHANGED <<facet, installed, service, nets, edits>>

Edited == edits < MaxEdits /\ edits' = edits + 1
Edit ==
    /\ Edited /\ \E v \in Written(facet) : Write(v)
    /\ UNCHANGED <<facet, want, settled, installed, nets, commits>>
Remove ==
    /\ Edited /\ got # {} /\ got' = {} /\ prev' = {} /\ status' = "none" /\ tasks' = FALSE
    /\ UNCHANGED <<facet, want, settled, installed, rejected, nets, commits>>

SwarmStep(st) ==
    /\ status' = st
    /\ UNCHANGED <<facet, want, settled, installed, got, prev, rejected, tasks, nets, commits, edits>>
RollOut ==
    \/ status = "updating" /\ SwarmStep("completed")
    \/ status = "rollback_started" /\ SwarmStep("rollback_completed")
Stick ==
    \/ status = "updating" /\ SwarmStep("paused")
    \/ status = "rollback_started" /\ SwarmStep("rollback_paused")
\* The roll-back replaces the spec and sets the status at once.
RollBack ==
    /\ status = "updating" /\ prev # {}
    /\ status' = "rollback_started" /\ rejected' = got /\ got' = prev /\ prev' = {}
    /\ UNCHANGED <<facet, want, settled, installed, tasks, nets, commits, edits>>
TasksUp ==
    /\ got # {} /\ ~tasks /\ tasks' = TRUE
    /\ UNCHANGED <<facet, want, settled, installed, got, prev, status, rejected, nets, commits, edits>>

-----------------------------------------------------------------------------
Init ==
    /\ facet \in Facets
    /\ want \in {{v} : v \in Written(facet)}
    /\ settled = FALSE /\ installed = FALSE
    /\ got = {} /\ prev = {} /\ status = "none" /\ rejected = {} /\ tasks = FALSE
    /\ nets = {AllNets} /\ commits = 0 /\ edits = 0

Next ==
    \/ Deploy \/ Correct \/ List \/ Commit \/ Edit \/ Remove
    \/ RollOut \/ Stick \/ RollBack \/ TasksUp

\* The loop ticks for ever, and an automated application is corrected in the pass
\* that listed the networks.
Fairness == WF_vars(Deploy) /\ SF_vars(Correct)
Spec == Init /\ [][Next]_vars /\ Fairness

TypeOK ==
    /\ facet \in Facets
    /\ settled \in BOOLEAN /\ installed \in BOOLEAN /\ tasks \in BOOLEAN
    /\ status \in RolledBack \cup {"none", "updating", "paused", "completed"}
    /\ \A s \in {want, got, prev, rejected} : s = {} \/ \E v \in s : s = {v}
    /\ want \subseteq Written(facet)
    /\ got \cup prev \cup rejected \subseteq {Stored(facet, v) : v \in Written(facet)}
    /\ nets \in Listings /\ commits \in 0 .. MaxCommits /\ edits \in 0 .. MaxEdits

-----------------------------------------------------------------------------
(* Properties *)

Both == want # {} /\ got # {}
SameEffect == Effect(facet, Stored(facet, The(want))) = Effect(facet, The(got))

\* A service that runs what the repository declares is never reported, whatever the
\* daemon filled in, resolved or reordered, and whatever network could not be named.
NothingInvented == Both /\ SameEffect => Report = "none"

\* One that runs something else is, however it came to: but attachments are not
\* compared when the networks could not be listed (configuration.md: "If it fails, or
\* the swarm's backend cannot answer it"), or when one of them cannot be named.
EditsSeen ==
    Both /\ ~SameEffect => \/ Report \in {"modified", "rolled-back"}
                           \/ /\ facet = "networks"
                              /\ \A listing \in nets : ~(Elements(The(got)) \subseteq listing)

\* The controller does not fight Swarm: once people stop, it stops writing, also
\* where Swarm rolls every one of its writes back.
NoFight == <>[][~Correct]_vars

\* What can be put right is: in the end nothing differs that redeploying would cure,
\* which it does not where a service of another mode has its name.  What Swarm has
\* rolled back is not among it: convergeable leaves that alone, also where the spec
\* rolled back was an edit by hand and not the declared one.
Cured == <>[](Compared /\ Report \in {"modified", "missing"} => ~Accepted(The(want)))

\* An application is healthy only if all of its releases were read, and this one's
\* service is up, in no roll-out, and in no rollback but one that left it as declared.
HealthyIsTrue ==
    \A readFailed, syncFailed \in BOOLEAN : \A other \in Elements(HealthStates) :
        Worst({Health(readFailed, syncFailed), other}) = "healthy" =>
            /\ other = "healthy" /\ ~readFailed /\ got # {} /\ tasks
            /\ status \in {"none", "completed", "rollback_completed"}
            /\ status = "rollback_completed" => Compared /\ Report = "none"

\* A finished rollback that left the service as declared does not degrade it for ever.
HistoryIsHealthy ==
    Compared /\ Both /\ tasks /\ status = "rollback_completed" /\ Report = "none" =>
        Health(FALSE, FALSE) = "healthy"

\* An application has no drift only if every release that was compared was read,
\* and one that has some is not in sync.
NoDriftIsTrue ==
    \A readFailed \in BOOLEAN : \A other \in {"none", "unknown", "detected"} :
        LET all == DriftOf(Drift(readFailed) \cup {other}) IN
        /\ all = "none" => other = "none" /\ (Compared => ~readFailed /\ Report = "none")
        /\ Drift(readFailed) = {"detected"} => SyncState(readFailed) = "out-of-sync" /\ all = "detected"

\* A rolled-back service is one whose declared spec Swarm has judged
\* (configuration.md: "the spec this controller wrote will not converge").
RolledBackWasDeclared ==
    Compared /\ Report = "rolled-back" => rejected = {Stored(facet, The(want))}

\* The comparison reports every difference that matters, and no other.
ReportedExactly == TypeOK /\ NothingInvented /\ EditsSeen

\* What is published of a service's health and drift is neither too good nor too bad.
HealthTold == HealthyIsTrue /\ HistoryIsHealthy /\ NoDriftIsTrue

\* Correction cures what it can, and then rests.
CorrectionRests == NoFight /\ Cured
=============================================================================
