----------------------------- MODULE ApplyPass ------------------------------
(***************************************************************************)
(* What one pass over an application does once it holds the lease          *)
(* (reconcile.go: reconcileHeld and apply): plan and observe, publish, the *)
(* gates, the sweeps in either order, the chart engine's apply, the        *)
(* correction of drift wave by wave, the confirming re-plan, and the write *)
(* that replaces the controller itself.                                    *)
(*                                                                         *)
(* Around it: commits, edits by hand, rollouts that settle, stall or are   *)
(* rolled back, other applications declaring releases, calls that fail,    *)
(* and the controller being stopped and started.  The chart engine and the *)
(* daemon are not in the repository; they do what the code relies on.      *)
(***************************************************************************)
EXTENDS Naturals, FiniteSets

CONSTANTS
    Releases,    \* release names
    Wave,        \* release -> its sync wave
    Declares,    \* commit -> release -> the manifest it renders, or None
    Manifests,   \* manifests
    Wide,        \* those that declare a service the others do not
    Flapping,    \* releases whose chart does not always render the same
    Own,         \* the release the controller runs as, or None
    Policies,    \* the sync policies to consider
    MaxEdits,    \* bound: edits by hand, rollbacks and stalls of a rollout
    MaxFaults,   \* bound: failed calls and stops
    MaxForced,   \* bound: syncs an operator requests
    None

Commits == DOMAIN Declares
Waves == {Wave[r] : r \in Releases}
Lowest(waves) == {w \in waves : \A v \in waves : w <= v}

ASSUME PassAssumption ==
    /\ IsFiniteSet(Releases) /\ None \notin Releases \cup Manifests
    /\ Wave \in [Releases -> Nat]
    /\ Cardinality(Commits) \in Nat \ {0} /\ Commits = 1..Cardinality(Commits)
    /\ Declares \in [Commits -> [Releases -> Manifests \cup {None}]]
    /\ Wide \subseteq Manifests /\ Flapping \subseteq Releases
    /\ Own \in Releases \cup {None}
    /\ Policies \subseteq [automated: BOOLEAN, live: BOOLEAN, wait: BOOLEAN,
                           pruneFirst: BOOLEAN]
    /\ MaxEdits \in Nat /\ MaxFaults \in Nat /\ MaxForced \in Nat

VARIABLES
    policy,      \* spec.SyncPolicy and DriftDetection, fixed
    \* the repository and the swarm
    head,        \* the newest commit
    rec,         \* release -> the manifest of its newest record, or None
    run,         \* release -> how what runs compares with that record
    phase,       \* release -> its rollout: "converged", "updating", "wedged"
    wide,        \* releases that run the service only Wide manifests declare
    others,      \* releases another application of the set declares
    budget,      \* edits, faults and forced syncs still to come
    \* appEntry, under mu
    status,      \* what View serves
    error,       \* status.Error is set
    unstable,    \* the commit the application is held at, 0 none
    \* the pass
    pc, pass,
    stopping,    \* the run context is done
    \* history
    open,        \* sync-started events without an outcome
    deploys      \* flapping release -> automated deploys since its render last
                 \* matched, the commit changed, or the process started

world == <<head, rec, run, phase, wide, others>>
entry == <<status, error, unstable>>
vars == <<policy, world, budget, entry, pc, pass, stopping, open, deploys>>

Status(sync, drift, rev, last) ==
    [sync |-> sync, drift |-> drift, rev |-> rev, last |-> last]
Unknown == Status("unknown", "unknown", 0, "none")

\* The locals of reconcileHeld, apply and converge.  The sets deploy, fix,
\* orphans and doomed are what is still to be done of each; landed and fixed
\* are what was written, want what was to be corrected, settled what has converged since it was corrected.
NoPass == [rev |-> 0, forced |-> FALSE, deploy |-> {}, want |-> {}, fix |-> {}, orphans |-> {},
           doomed |-> {}, elsewhere |-> {}, wave |-> 0, scopes |-> {}, await |-> None,
           landed |-> {}, fixed |-> {}, settled |-> {}, failed |-> FALSE, replace |-> FALSE]
Passes == [rev: Commits \cup {0}, forced: BOOLEAN, deploy: SUBSET Releases,
           want: SUBSET Releases, fix: SUBSET Releases, orphans: SUBSET Releases,
           doomed: SUBSET Releases, elsewhere: SUBSET Releases, wave: Waves \cup {0},
           scopes: SUBSET Releases, await: Releases \cup {None}, landed: SUBSET Releases,
           fixed: SUBSET Releases, settled: SUBSET Releases, failed: BOOLEAN,
           replace: BOOLEAN]

TypeOK ==
    /\ policy \in Policies
    /\ head \in Commits
    /\ rec \in [Releases -> Manifests \cup {None}]
    /\ run \in [Releases -> {"gone", "asRecorded", "edited", "reverted", "deferred"}]
    /\ phase \in [Releases -> {"converged", "updating", "wedged"}]
    /\ wide \subseteq Releases /\ others \subseteq Releases
    /\ budget \in [edits: 0..MaxEdits, faults: 0..MaxFaults, forced: 0..MaxForced]
    /\ status \in [sync: {"unknown", "synced", "out"}, drift: {"unknown", "none", "detected"},
                   rev: Commits \cup {0}, last: {"none", "ok", "failed"}]
    /\ error \in BOOLEAN /\ unstable \in Commits \cup {0}
    /\ pc \in {"idle", "sweepFirst", "apply", "correct", "sweep", "confirm", "self"}
    /\ pass \in Passes
    /\ stopping \in BOOLEAN /\ open \in Nat
    /\ deploys \in [Releases -> 0..2]

-----------------------------------------------------------------------------
(* What a pass reads *)

Declared(c) == {r \in Releases : Declares[c][r] # None}

\* PlanApply: releases to install or upgrade at c; again are the flapping ones
\* whose render came out different this time.
ToDeploy(c, again) == {r \in Declared(c) : rec[r] # Declares[c][r] \/ r \in again}
Orphaned(c) == {r \in Releases : rec[r] # None} \ Declared(c)

\* liveDrift: only releases the plan leaves unchanged are compared.
Compared(c, again) == IF policy.live THEN Declared(c) \ ToDeploy(c, again) ELSE {}
Drifted(c, again) == {r \in Compared(c, again) : run[r] # "asRecorded"}

\* convergeable: a rolled back service vetoes the correction of its release.
Fixable(c, again) == {r \in Drifted(c, again) : run[r] # "reverted"}

\* departed: services that run and are no longer declared, of releases that
\* have been installed.
Doomed(c) == {r \in Declared(c) \cap wide : rec[r] # None /\ Declares[c][r] \notin Wide}

\* withOrphans: what a sweep would remove is shown as drift.
Differing(c, again) == Drifted(c, again) \cup Doomed(c)

\* record: the drift is folded into the sync state.
Published(c, again, last) ==
    Status(IF ToDeploy(c, again) \cup Differing(c, again) = {} THEN "synced" ELSE "out",
           IF Differing(c, again) # {} THEN "detected"
           ELSE IF policy.live THEN "none" ELSE "unknown",
           c, last)

-----------------------------------------------------------------------------
(* The pass *)

Fault == budget.faults > 0 /\ budget' = [budget EXCEPT !.faults = @ - 1]

\* reconcile returns: setError unless nil or cancelled.
Return(failed) == pc' = "idle" /\ pass' = NoPass /\ error' = (failed \/ error)

\* Fetch, Build, Backend or PlanApply fails.
PassFails ==
    /\ pc = "idle" /\ ~stopping /\ Fault
    /\ Return(TRUE)
    /\ UNCHANGED <<policy, world, status, unstable, stopping, open, deploys>>

\* declaredElsewhere: the releases that the statuses of other applications name.
Elsewhere == others

\* A pass up to the gates, at the newest commit: what it publishes, and whether
\* the hold is lifted because this render matched what is stored.
Read(force, again) ==
    /\ pc = "idle" /\ ~stopping
    /\ IF force THEN budget.forced > 0 /\ budget' = [budget EXCEPT !.forced = @ - 1]
                ELSE UNCHANGED budget
    /\ status' = Published(head, again, status.last)
    /\ unstable' = IF ToDeploy(head, again) = {} THEN 0 ELSE unstable

ToDoByPlan(again) == ToDeploy(head, again) \cup Doomed(head)
ToDo(again) == ToDeploy(head, again) \cup Fixable(head, again) \cup Doomed(head)

\* Nothing to do, or a manual policy and nobody asked.  Orphaned releases alone
\* are not work: they go with the next apply.
PassRests ==
    \E again \in SUBSET Flapping :
        /\ Read(FALSE, again)
        /\ ToDo(again) = {} \/ ~policy.automated
        /\ error' = FALSE
        /\ deploys' = [r \in Releases |-> IF r \in ToDeploy(head, again) THEN deploys[r] ELSE 0]
        /\ UNCHANGED <<policy, world, pc, pass, stopping, open>>

\* checkReproducible refuses.
PassHeld ==
    \E again \in SUBSET Flapping :
        /\ Read(FALSE, again)
        /\ ToDo(again) # {} /\ policy.automated
        /\ unstable' = head
        /\ error' = TRUE
        /\ UNCHANGED <<policy, world, pc, pass, stopping, open, deploys>>

\* The gates are passed: sync-started is sent.
PassStarts(force) ==
    \E again \in SUBSET Flapping :
        /\ Read(force, again)
        /\ ToDo(again) # {}
        /\ force \/ (policy.automated /\ unstable' # head)
        /\ pass' = [NoPass EXCEPT
                      !.rev = head, !.forced = force, !.deploy = ToDeploy(head, again),
                      !.want = Fixable(head, again), !.fix = Fixable(head, again), !.orphans = Orphaned(head),
                      !.doomed = Doomed(head), !.elsewhere = Elsewhere]
        /\ pc' = IF policy.pruneFirst THEN "sweepFirst" ELSE "apply"
        /\ open' = open + 1 /\ error' = FALSE
        /\ deploys' = [r \in Releases |->
                          IF ~force /\ r \in ToDeploy(head, again) THEN deploys[r] ELSE 0]
        /\ UNCHANGED <<policy, world, stopping>>

\* dispatch of sync-succeeded or sync-failed, and recordResult.
Outcome(last) == open' = open - 1 /\ status' = [status EXCEPT !.last = last]

-----------------------------------------------------------------------------
(* The chart engine, and the deploys it makes *)

\* DeployStack writes every service of a release but the controller's own, which
\* it hands back for replaceSelf.
Write(r) ==
    IF r = Own THEN UNCHANGED phase ELSE phase' = [phase EXCEPT ![r] = "updating"]

\* Engine.Apply deploys a release and stores its record, wave after wave.
EngineDeploys ==
    \E r \in pass.deploy :
        /\ pc = "apply"
        /\ \A q \in pass.deploy : Wave[r] <= Wave[q]
        /\ \A q \in pass.landed : Wave[q] < Wave[r] => phase[q] = "converged"
        /\ rec' = [rec EXCEPT ![r] = Declares[pass.rev][r]]
        /\ run' = [run EXCEPT ![r] = IF r = Own THEN "deferred" ELSE "asRecorded"]
        /\ wide' = IF Declares[pass.rev][r] \in Wide THEN wide \cup {r} ELSE wide
        /\ Write(r)
        /\ pass' = [pass EXCEPT !.deploy = @ \ {r}, !.landed = @ \cup {r},
                                !.replace = @ \/ r = Own]
        /\ deploys' = [deploys EXCEPT ![r] =
                          IF pass.forced \/ r \notin Flapping \/ @ = 2 THEN @ ELSE @ + 1]
        /\ UNCHANGED <<policy, head, others, budget, entry, pc, stopping, open>>

\* awaitSettled returns, for the releases it was given: all have converged, or
\* one is wedged, or the deadline has passed.
Settled(set) == (\A r \in set : phase[r] = "converged") /\ UNCHANGED budget
NotSettled(set) ==
    \/ (\E r \in set : phase[r] = "wedged") /\ UNCHANGED budget
    \/ (\E r \in set : phase[r] = "updating") /\ Fault

\* What the engine waits for: a wave before the next one, and, if the policy
\* waits, everything it deployed.
Awaiting == {q \in pass.landed : policy.wait \/ \E r \in pass.deploy : Wave[q] < Wave[r]}

EngineFailsOn ==
    /\ pc = "apply"
    /\ (pass.deploy # {} /\ Fault) \/ NotSettled(Awaiting)
    /\ pass' = [pass EXCEPT !.deploy = {}]
    /\ UNCHANGED <<policy, world, entry, pc, stopping, open, deploys>>

\* A deploy fails, or what is waited for does not settle: a failed sync.
EngineFails ==
    /\ pc = "apply"
    /\ (pass.deploy # {} /\ Fault) \/ NotSettled(Awaiting)
    /\ Outcome("failed") /\ Return(TRUE)
    /\ UNCHANGED <<policy, world, unstable, stopping, deploys>>

EngineEnds ==
    /\ pc = "apply" /\ pass.deploy = {}
    /\ Settled(Awaiting)
    /\ pc' = "correct"
    /\ \E w \in Lowest(Waves) : pass' = [pass EXCEPT !.wave = w]
    /\ UNCHANGED <<policy, world, entry, stopping, open, deploys>>

-----------------------------------------------------------------------------
(* converge *)

InWave(set) == {r \in set : Wave[r] = pass.wave}
LaterWaves == {Wave[r] : r \in Declared(pass.rev)} \cap {w \in Waves : w > pass.wave}

\* DeployStack of one drifted release.  Under wait its rollout is awaited next.
Correct ==
    \E r \in InWave(pass.fix) :
        /\ pc = "correct" /\ pass.await = None
        /\ run' = [run EXCEPT ![r] = IF r = Own THEN @ ELSE "asRecorded"]
        /\ wide' = IF rec[r] \in Wide THEN wide \cup {r} ELSE wide
        /\ Write(r)
        /\ pass' = [pass EXCEPT
                      !.fix = @ \ {r}, !.fixed = @ \cup {r}, !.replace = @ \/ r = Own,
                      !.settled = IF r = Own THEN @ \cup {r} ELSE @ \ {r},
                      !.await = IF policy.wait THEN r ELSE None,
                      !.scopes = IF policy.wait THEN @ ELSE @ \cup {r}]
        /\ UNCHANGED <<policy, head, rec, others, budget, entry, pc, stopping, open, deploys>>

CorrectFailsQuietly ==
    \E r \in InWave(pass.fix) :
        /\ pc = "correct" /\ pass.await = None /\ Fault
        /\ pass' = [pass EXCEPT !.fix = @ \ {r}]
        /\ UNCHANGED <<policy, world, entry, pc, stopping, open, deploys>>

\* The write fails: the release is in nobody's way any more.
CorrectFails ==
    \E r \in InWave(pass.fix) :
        /\ pc = "correct" /\ pass.await = None /\ Fault
        /\ pass' = [pass EXCEPT !.fix = @ \ {r}, !.failed = TRUE]
        /\ UNCHANGED <<policy, world, entry, pc, stopping, open, deploys>>

\* awaitConverged.  A correction that did not settle is not in the wave's scopes.
Awaited ==
    /\ pc = "correct" /\ pass.await # None
    /\ \/ Settled({pass.await}) /\ pass' = [pass EXCEPT !.scopes = @ \cup {pass.await},
                                                        !.await = None]
       \/ NotSettled({pass.await}) /\ pass' = [pass EXCEPT !.failed = TRUE, !.await = None]
    /\ UNCHANGED <<policy, world, entry, pc, stopping, open, deploys>>

WaveWritten == pc = "correct" /\ pass.await = None /\ InWave(pass.fix) = {}
Passable == pass.scopes = {} \/ LaterWaves = {}

NextWave == \E w \in Lowest(LaterWaves) : pass' = [pass EXCEPT !.wave = w, !.scopes = {}]

\* The end of a wave that corrected nothing, with waves to come.
WaveSkipped ==
    /\ WaveWritten /\ pass.scopes = {} /\ LaterWaves # {}
    /\ NextWave
    /\ UNCHANGED <<policy, world, budget, entry, pc, stopping, open, deploys>>

BarrierOpen ==
    /\ WaveWritten /\ ~Passable
    /\ NextWave
    /\ UNCHANGED <<policy, world, budget, entry, pc, stopping, open, deploys>>

\* The barrier: the next wave starts, or nothing more is corrected.
Barrier ==
    /\ WaveWritten /\ ~Passable
    /\ \/ Settled(pass.scopes) /\ NextWave
       \/ /\ NotSettled(pass.scopes)
          /\ \E w \in Waves :
                /\ \A v \in Waves : v <= w
                /\ pass' = [pass EXCEPT !.fix = {}, !.scopes = {}, !.failed = TRUE, !.wave = w]
    /\ UNCHANGED <<policy, world, entry, pc, stopping, open, deploys>>

ApplyEndsInSelf ==
    /\ WaveWritten /\ LaterWaves = {} /\ ~pass.failed
    /\ open' = open - 1
    /\ pc' = IF pass.replace THEN "self" ELSE IF policy.pruneFirst THEN "confirm" ELSE "sweep"
    /\ pass' = [pass EXCEPT !.elsewhere = Elsewhere]
    /\ UNCHANGED <<policy, world, budget, entry, stopping, deploys>>

\* The outcome of the apply and the correction: the event is sent, and a failure
\* ends the pass.
ApplyEnds ==
    /\ WaveWritten /\ LaterWaves = {}
    /\ open' = open - 1
    /\ IF pass.failed
       THEN status' = [status EXCEPT !.last = "failed"] /\ Return(TRUE)
       ELSE /\ pc' = IF policy.pruneFirst THEN "confirm" ELSE "sweep"
            /\ pass' = [pass EXCEPT !.elsewhere = Elsewhere]
            /\ UNCHANGED <<status, error>>
    /\ UNCHANGED <<policy, world, budget, unstable, stopping, deploys>>

-----------------------------------------------------------------------------
(* prune and pruneServices *)

Sweeping == pc \in {"sweepFirst", "sweep"}

\* prune.Release on a release the plan no longer has, unless another application
\* declares it.
PruneRelease ==
    \E r \in pass.orphans :
        /\ Sweeping
        /\ pass' = [pass EXCEPT !.orphans = @ \ {r}]
        /\ IF r \in pass.elsewhere
           THEN UNCHANGED world
           ELSE /\ rec' = [rec EXCEPT ![r] = None]
                /\ run' = [run EXCEPT ![r] = "gone"]
                /\ phase' = [phase EXCEPT ![r] = "converged"]
                /\ wide' = wide \ {r}
                /\ UNCHANGED <<head, others>>
        /\ UNCHANGED <<policy, budget, entry, pc, stopping, open, deploys>>

\* RemoveService on a service a release no longer declares.
PruneService ==
    \E r \in pass.doomed :
        /\ Sweeping /\ pass.orphans = {}
        /\ pass' = [pass EXCEPT !.doomed = @ \ {r}]
        /\ wide' = IF r \in pass.elsewhere THEN wide ELSE wide \ {r}
        /\ UNCHANGED <<policy, head, rec, run, phase, others, budget, entry, pc,
                       stopping, open, deploys>>

\* One removal fails; the others are still attempted.
PruneFails ==
    \E r \in pass.orphans \cup pass.doomed :
        /\ Sweeping /\ Fault
        /\ pass' = [pass EXCEPT !.failed = TRUE, !.orphans = @ \ {r},
                      !.doomed = IF r \in pass.orphans THEN @ ELSE @ \ {r}]
        /\ UNCHANGED <<policy, world, entry, pc, stopping, open, deploys>>

SweepEndsSilent ==
    /\ Sweeping /\ pass.orphans = {} /\ pass.doomed = {}
    /\ IF pass.failed
       THEN Return(TRUE) /\ UNCHANGED status
       ELSE /\ pc' = IF pc = "sweepFirst" THEN "apply" ELSE "confirm"
            /\ UNCHANGED <<pass, status, error>>
    /\ UNCHANGED <<policy, world, budget, unstable, stopping, open, deploys>>

\* Before the apply a failed sweep is a failed sync (failSync); after it the
\* sync stands, and the error is the pass's.
SweepEnds ==
    /\ Sweeping /\ pass.orphans = {} /\ pass.doomed = {}
    /\ IF pass.failed
       THEN /\ IF pc = "sweepFirst" THEN Outcome("failed")
               ELSE status' = [status EXCEPT !.last = "ok"] /\ UNCHANGED open
            /\ Return(TRUE)
       ELSE /\ pc' = IF pc = "sweepFirst" THEN "apply" ELSE "confirm"
            /\ UNCHANGED <<pass, status, error, open>>
    /\ UNCHANGED <<policy, world, budget, unstable, stopping, deploys>>

-----------------------------------------------------------------------------
(* The confirming re-plan, and the controller's own service *)

\* The re-plan, at the commit just applied: what is still out of date holds the
\* application there.
Confirm ==
    \E again \in SUBSET Flapping :
        /\ pc = "confirm"
        /\ status' = Published(pass.rev, again, "ok")
        /\ unstable' = IF ToDeploy(pass.rev, again) = {} THEN 0 ELSE pass.rev
        /\ deploys' = [r \in Releases |->
                          IF r \in ToDeploy(pass.rev, again) THEN deploys[r] ELSE 0]
        /\ IF pass.replace THEN pc' = "self" /\ UNCHANGED <<pass, error>> ELSE Return(FALSE)
        /\ UNCHANGED <<policy, world, budget, stopping, open>>

ConfirmFails ==
    /\ pc = "confirm" /\ Fault
    /\ status' = [status EXCEPT !.last = "ok"] /\ Return(TRUE)
    /\ UNCHANGED <<policy, world, unstable, stopping, open, deploys>>

\* replaceSelf: Swarm stops this task as the rollout starts, if the write
\* changes anything.
ReplaceSelf ==
    /\ pc = "self"
    /\ run' = [run EXCEPT ![Own] = "asRecorded"]
    /\ phase' = [phase EXCEPT ![Own] = "updating"]
    /\ stopping' = (run[Own] # "asRecorded" \/ stopping)
    /\ Return(FALSE)
    /\ UNCHANGED <<policy, head, rec, wide, others, budget, status, unstable, open, deploys>>

ReplaceFails ==
    /\ pc = "self" /\ Fault /\ Return(TRUE)
    /\ UNCHANGED <<policy, world, status, unstable, stopping, open, deploys>>

-----------------------------------------------------------------------------
(* Stop and start *)

Stop ==
    /\ ~stopping /\ Fault /\ stopping' = TRUE
    /\ UNCHANGED <<policy, world, entry, pc, pass, open, deploys>>

\* Every call a pass makes now answers that the context is done.  That is not an
\* outcome and not an error; once the sync-succeeded is out its result is kept.
Abandon ==
    /\ stopping /\ pc # "idle"
    /\ status' = IF pc \in {"sweep", "confirm"} THEN [status EXCEPT !.last = "ok"] ELSE status
    /\ Return(FALSE)
    /\ UNCHANGED <<policy, world, budget, unstable, stopping, open, deploys>>

\* A new process knows nothing of the one before.
Restart ==
    /\ stopping /\ pc = "idle"
    /\ stopping' = FALSE
    /\ status' = Unknown /\ error' = FALSE /\ unstable' = 0 /\ open' = 0
    /\ deploys' = [r \in Releases |-> 0]
    /\ UNCHANGED <<policy, world, budget, pc, pass>>

-----------------------------------------------------------------------------
(* Around the pass *)

Edit == budget.edits > 0 /\ budget' = [budget EXCEPT !.edits = @ - 1]

Push ==
    /\ head + 1 \in Commits /\ head' = head + 1
    /\ deploys' = [r \in Releases |-> 0]
    /\ UNCHANGED <<policy, rec, run, phase, wide, others, budget, entry, pc, pass,
                   stopping, open>>

\* A service is changed by hand, or Swarm rolls back a rollout, or a rollout
\* comes to a stop.
Disturb ==
    \E r \in Releases \ {Own} :
        /\ Edit
        /\ \/ /\ run[r] = "asRecorded"
              /\ run' = [run EXCEPT ![r] = "edited"] /\ UNCHANGED phase
           \/ /\ phase[r] = "updating"
              /\ phase' = [phase EXCEPT ![r] = "wedged"]
              /\ run' \in {run, [run EXCEPT ![r] = "reverted"]}
        /\ UNCHANGED <<policy, head, rec, wide, others, entry, pc, pass, stopping, open,
                       deploys>>

\* Another application's published status names a release.
OtherDeclares ==
    \E r \in Releases \ Declared(head) :
        /\ Edit /\ others' = others \cup {r}
        /\ UNCHANGED <<policy, head, rec, run, phase, wide, entry, pc, pass, stopping, open,
                       deploys>>

\* Swarm finishes a rollout.
Settle(r) ==
    /\ phase[r] = "updating"
    /\ phase' = [phase EXCEPT ![r] = "converged"]
    /\ pass' = [pass EXCEPT !.settled = IF r \in pass.fixed THEN @ \cup {r} ELSE @]
    /\ UNCHANGED <<policy, head, rec, run, wide, others, budget, entry, pc, stopping, open,
                   deploys>>

Init ==
    /\ policy \in Policies
    /\ head = 1
    /\ rec = [r \in Releases |-> None] /\ run = [r \in Releases |-> "gone"]
    /\ phase = [r \in Releases |-> "converged"] /\ wide = {} /\ others = {}
    /\ budget = [edits |-> MaxEdits, faults |-> MaxFaults, forced |-> MaxForced]
    /\ status = Unknown /\ error = FALSE /\ unstable = 0
    /\ pc = "idle" /\ pass = NoPass /\ stopping = FALSE
    /\ open = 0 /\ deploys = [r \in Releases |-> 0]

Faults ==
    \/ PassFails \/ EngineFails \/ CorrectFails \/ PruneFails \/ ConfirmFails
    \/ ReplaceFails \/ Stop

\* What follows once a pass has started: it goes on to its end, and a controller
\* that was stopped is started again.
Underway ==
    \/ EngineDeploys \/ EngineFails \/ EngineEnds
    \/ Correct \/ Awaited \/ WaveSkipped \/ Barrier \/ ApplyEnds
    \/ PruneRelease \/ PruneService \/ SweepEnds
    \/ Confirm \/ ReplaceSelf \/ Abandon \/ Restart

Work == PassRests \/ PassHeld \/ PassStarts(FALSE) \/ Underway

Next ==
    \/ Work \/ Faults \/ PassStarts(TRUE)
    \/ Push \/ Disturb \/ OtherDeclares
    \/ \E r \in Releases : Settle(r)

Spec == Init /\ [][Next]_vars

\* There is something to do whatever the charts render, and no hold.
Due == unstable # head /\ ToDo({}) # {}

\* The loop's timer fires, and a pass that has something to do starts and goes
\* on; a rollout that is not disturbed finishes; a stopped controller is started
\* again.  No render is owed: a chart that never renders the same twice may do so
\* for ever, and an application held for it may stay held.
FairSpec ==
    /\ Spec
    /\ WF_vars(Underway) /\ WF_vars(Due /\ PassStarts(FALSE))
    /\ \A r \in Releases : WF_vars(Settle(r))

-----------------------------------------------------------------------------
(* Properties *)

\* A release of a later wave is corrected only once every release of an earlier
\* wave this pass corrected has converged after its correction.
Ordered == \A q, r \in Releases :
    q \in pass.fixed /\ r \in pass'.fixed \ pass.fixed /\ Wave[q] < Wave[r] => q \in pass.settled
WavesApart == [][Ordered]_vars

\* What the code does keep: the order, in every pass while the policy does not
\* wait, and under a waiting policy in a pass in which nothing has failed yet.
BarrierHolds == [][Ordered \/ (policy.wait /\ pass.failed)]_vars

\* Every sync-started has one outcome by the time the pass is over, unless the
\* controller is stopping, and no outcome comes without a start.
StartedSyncsEnd == open \in {0, 1} /\ (pc = "idle" /\ ~stopping => open = 0)

\* A sync is recorded as successful only when everything its commit declares is
\* deployed and every drifted release its plan could correct was written, and
\* has settled if the policy waits.
Undone ==
    {r \in Declared(pass.rev) : rec[r] # Declares[pass.rev][r]}
    \cup (pass.want \ IF policy.wait THEN pass.settled ELSE pass.fixed)
SuccessIsWhole == [][status'.last = "ok" /\ status' # status /\ pc # "idle" => Undone = {}]_vars

\* What is published as synced is deployed, commit by commit.
SyncedIsDeployed ==
    status.sync = "synced" =>
        \A r \in Releases : Declares[status.rev][r] # None =>
            rec[r] = Declares[status.rev][r]

\* pruneFirst: nothing is deployed while a release or a service that this plan
\* removes still runs.
Departing == {r \in pass'.orphans \cup Orphaned(pass.rev) : rec[r] # None /\ r \notin pass.elsewhere}
NoOverlap ==
    [][EngineDeploys /\ policy.pruneFirst =>
        Departing = {} /\ Doomed(pass.rev) \ pass.landed \subseteq pass.elsewhere]_vars

\* Otherwise a release goes only after everything its commit declares has been
\* deployed: a failed apply leaves the old one running.
NoGap ==
    [][\A r \in Releases : rec[r] # None /\ rec'[r] = None /\ ~policy.pruneFirst =>
        \A q \in Declared(pass.rev) : rec[q] = Declares[pass.rev][q]]_vars

\* A release another application declares when the sweep begins is not removed.
\* (the declaration may have come while the apply ran)
SparesOthers ==
    [][\A r \in Releases : rec[r] # None /\ rec'[r] = None => r \notin pass.elsewhere]_vars

\* The controller replaces itself only when its pass has done everything else.
SelfLast ==
    [][~stopping /\ stopping' /\ pc = "self" =>
        /\ open = 0 /\ Undone = {} /\ status.last = "ok" /\ status.rev = pass.rev
        /\ \A r \in Orphaned(pass.rev) : r \in pass.elsewhere]_vars

\* A chart that does not render the same twice is deployed once per commit.
DeployedOnce == \A r \in Flapping : deploys[r] <= 1

\* Everything the newest commit declares is deployed and runs as recorded, or
\* was rolled back by Swarm, in the end and for good; unless the application is
\* held at that commit for a chart that does not render the same twice, when
\* checkReproducible leaves even a release edited by hand as it is.
Converged == \A r \in Declared(head) :
    rec[r] = Declares[head][r] /\ run[r] \in {"asRecorded", "reverted"}
Held == unstable = head /\ Declared(head) \cap Flapping # {}
Converges == policy.automated /\ policy.live => <>[](Converged \/ Held)

\* A release the newest commit no longer declares is removed in the end.
OrphansGo == policy.automated => <>[](Orphaned(head) \subseteq others)

\* The types, no sync left open, and no untrue claim to be synced.
PassInv == TypeOK /\ StartedSyncsEnd /\ SyncedIsDeployed

\* What a release's removal may not do to the releases beside it, in either order of
\* pruning: overlap with its successor, leave a gap, take another application's.
SweepsInOrder == NoOverlap /\ NoGap /\ SparesOthers
=============================================================================
