# TLA+ specifications of swarmcli-cd

swarmcli-cd is a GitOps controller for Docker Swarm. It keeps a set of
*applications* (a git repository, a chart or release file in it, and a policy)
equal to a file, the *app set*, and keeps what runs on the swarm equal to what
each application's repository renders. This directory holds TLA+ models of the
parts of it where interleavings, failures and restarts decide whether it is
right, the TLC configurations that check them on small instances, and TLAPS
proofs of the results that should hold for every instance.

References are `package/file.go:line` in the repository.

## 1. The system

### Who runs

| goroutine | started by | what it does |
|---|---|---|
| one loop per application | `Reconciler.Run`, `Add` | reconciles on a timer and when poked |
| detached syncs | `POST /sync` (`api.Server.detach`) | one forced reconcile each, outlives its request |
| the app-set loop | `controller.serve` | loads the file, adds, replaces and removes applications, sweeps behind departed ones |
| HTTP handlers | the listener | requests, event streams, log streams |
| `Run`'s drain | the stop signal | waits for loops and leases before the process ends |
| the feature watch | `controller.serve` | asks the licence reporter again and again, logs what changed |

### Components

For each: the state it keeps, its operations, whom it meets, what is hard, and
what makes it correct.

**reconcile: the set and the work** (`reconcile/reconcile.go`,
`reconcile/entry.go`). State: the applications by name, departed entries that
would not stop in time (`retiring`), the releases being installed
(`installing`), and per entry a context, a one-slot lease (`held`), one slot
for a waiting sync (`pending`), a wake-up (`wake`), the spec, the status, the
failure count and the commit that did not settle (`unstable`). Operations:
`Add`, `Replace`, `Remove`, `Draining`, `AcceptSync`, `Run`, the loop, the
stages of `reconcile`. Called by the app-set loop, the API and the process.
Hard: everything happens beside everything else, a deploy cannot be cancelled,
`Remove` gives up after 30 seconds. Correct when one application is worked on
by one goroutine, nobody works for an application whose resources are being
deleted, an edit or a push is never lost between two passes, and releases
Swarm cannot keep apart are not installed at once.

**reconcile: what a pass does** (`reconcile/reconcile.go`: `observe`,
`departed`, `claimed`, `converge`, `awaitSettled`, `prune`, `pruneServices`,
`pruneResources`). State: the plan, the candidates for deletion, the counts of
failed deletions. Hard: the swarm is read several times in a pass and is
written by others in between; a wave fails in the middle; candidates are
deleted after they were chosen. Correct when nothing that is still declared is
deleted, waves keep their order and a failed deletion is reported and retried.

**appset** (`appset/appset.go`, `appset/loop.go`). State: the orphaned and
pruned applications it reports, whether the last set was empty, what its status
endpoint says. Operation: `Once`. Calls the reconciler, prune and reclaim.
Hard: it deletes what others may still need, on the strength of a file that may
be wrong for a moment and of statuses that may be old; its memory is lost in a
restart. Correct when a departed application's releases go, a declared one's
never do, and one empty read deletes nothing.

**prune** (`prune/prune.go`). No state between calls. Operations: `Departed`,
`Departing`, `Release`, `Undeclared`, `Claim`. Meets the swarm through a
backend and the chart engine. Hard: the records of a release are what a later
sweep finds it by, so they have to go last; a node may be out of reach.

**reclaim** (`reclaim/reclaim.go`). State: the candidates of the last sweep.
Operation: `Sweep`. Correct when a cache goes only after two sweeps without its
application.

**api** (`api/*.go`). Requests: read-only but for `sync`. Event streams
(`api/stream.go`): a ring of 1000 recent events and a buffer of 64 per
subscriber, under one mutex. Log streams (`api/logs.go`, `backend/logs.go`):
one reader per task, a bounded queue, notices about what was dropped. Hard:
slow readers, and streams that would hold a shutdown open. Correct when what is
dropped is visible to the client, events keep their order and a drain ends
every stream.

**controller** (`controller/*.go`). Assembles the parts and stops them in an
order: signal, listener, reconciling. Correct when nothing that may start work
outlives what waits for work.

**backend** (`backend/*.go`). No state of its own but the daemon's. Operations:
deploy and remove a stack, create and update a service (retried under a
version conflict), list, read, log. Hard: someone else updates a service
between the read and the update; the controller's own service must be last,
for updating it ends the process.

**feature** (`feature/*.go`). What a build grants, and a goroutine that asks
again and logs changes. A report, never a decision.

**drift, health, application, source, compose** are functions of their inputs:
comparisons, rollups, validation, rendering. **git** keeps a clone per
application. **capability, extension, seam, swarms, notify** are interfaces and
registries filled at start. **config, regauth, secrets, authz, client, cmd,
web** read files, decide on one request, or make one.

### How they meet

```
 app set in git --Load--> appset.Loop --Add/Replace/Remove/Draining--> Reconciler
                             |  \--Departed--> prune --RemoveStack/Uninstall--> swarm
                             |   \--Sweep----> reclaim --RemoveAll--> caches on disk
 HTTP --AcceptSync/detach--> Reconciler --Fetch--> git   --PlanApply/Deploy--> swarm
 signal --> runUntilStopped --> listener, then Run's drain
 Reconciler --notify--> event stream --> subscribers
```

## 2. The modules

| module | models | uses | theorems |
|---|---|---|---|
| `Reconciler` | the set, leases, loops, syncs, marks, shutdown | | `ReconcilerProofs` |
| `AppSetLoop` | one pass of the app-set loop with `prune.Departed` and reclaim | | `AppSetLoopProofs` |
| `ApplyPass` | one pass of an application, from what it reads to its outcome | | `ApplyPassProofs` |
| `ResourceSweep` | `pruneResources` inside a release: what is found and what is deleted | | `ResourceSweepProofs` |
| `Uninstall` | the removal of a departed application's releases, call by call; implements `Removal` | `Removal` | `UninstallProofs` |
| `Deploy` | the backend's writes, between people who write too | `Admission` | `DeployProofs` |
| `Streams` | the long-lived requests and the drain that ends them | `EventStream`, `LogStream` | `StreamsProofs` |
| `LiveDrift` | one service from commit to correction: drift, health, what Swarm makes of it | `Specs` | `LiveDriftProofs` |

`MC*` modules hold instances for TLC. From `ApplyPass` on a run checks few
properties, each a conjunction of named parts (`PassInv` of the types,
`StartedSyncsEnd` and `SyncedIsDeployed`, say); the sections below speak of the
parts. The types of `Reconciler` and `AppSetLoop` are proved and no run checks
them.

The modules overlap where one takes as a
step what another takes apart: the apply of `Reconciler` is the pass of
`ApplyPass`, whose deploy of a release is `DeployStack` in `Deploy`, whose
removal of a release is `Removal` (and `Uninstall` for a departed application)
and whose sweep inside a release is `ResourceSweep`; the uninstall of
`AppSetLoop` is `Uninstall`; what `ApplyPass` calls drifted is decided in
`LiveDrift`.

Worth doing next: the manifest of `compose`.

## 3. Reconciler

### State and actions

An *entry* is one `appEntry` value. `Add` makes a fresh one each time, so an
application that leaves and comes back has two, and work for the first may
still run beside work for the second. A *worker* is a loop goroutine (named by
its entry) or a detached sync. `pc[w]` is where it is:

| `pc` | code |
|---|---|
| `select`, `note`, `exited` | `loop`'s select, `noteFailure` and `Reset`, returned |
| `lookup`, `accepted` | a sync between `AcceptSync`'s lookup and the slot, and before its goroutine runs |
| `queued`, `recheck`, `refused` | `acquire`: waiting, the check after the wait, the error |
| `unpend` | the accepted sync giving its slot back, lease held |
| `read`, `fetch`, `observe`, `claim`, `apply`, `release` | `reconcile` and `reconcileHeld`, to the deferred release |

An action is one critical section of `Reconciler.mu`, one channel operation, or
one call out of the process (fetch, render and read the swarm, deploy). A pass
is reduced to the version of the spec it read, the commit it fetched and the
releases it installs: `Observe` chooses those freely. A panic is a failure of
the stage it happens in, which is what `reconcile`'s recover makes of it. The
drain takes leases in any order where the code uses the set's.

The app-set loop is the one caller of `Add`, `Replace`, `Remove` and
`Draining` (`setter`); it calls them in any order here, and in its own order in
`AppSetLoop`. `SweepDone` stands for the sweep behind a `Draining` that named
nobody.

Left out: `SetRegistryAuth`, the views, the startup audit, notifications and
logging, `setError`'s text.

### Runs

| run | instance | shows |
|---|---|---|
| `core` | 2 names, 2 entries, 2 syncs, 2 colliding releases, 3 specs, 1 push, under a constraint | `LeaseExclusive`, `SweepMeetsNoWriter`, `CoalescedSyncSeesPush`, `CleanDrainIsQuiet`, `EditNeverParked`, `InstallsApart`, `StatusAdvances` |
| `live` | 1 name, 1 entry, 1 sync, 1 edit, fair | `SyncAnswered`, `RemoveReturns`, `EditPickedUp` |

All of `core`'s constants at once are more than TLC explores in minutes. Its
constraint `OneAtATime` (`MCReconciler`) leaves the union of four instances,
each wide where some of the properties need it: an application that leaves and
comes back, with a sync (`Returning`); two syncs, a push and the shutdown
(`Asking`); edits over an unreproducible and a manual spec (`Editing`); two
applications that install (`Installing`). No liveness property is checked under
the constraint.

Three more configurations end in a violation and are described in section 10:
`MCHold.cfg`, `MCStuckRemove.cfg`, `MCDepartedDrain.cfg`.

The safety properties say what the comments of the code promise: one goroutine
inside a pass (`LeaseExclusive`); nobody inside a pass of a departed
application while the app-set loop deletes its resources, also when `Remove`
gave up (`SweepMeetsNoWriter`); colliding releases never installed at once,
departed applications that still finish included (`InstallsApart`); a request
answered with "already queued" is about commits the queued sync has yet to read
(`CoalescedSyncSeesPush`); a recorded status never goes back
(`StatusAdvances`); a loop never sleeps on the schedule of a spec that has been
replaced (`EditNeverParked`); a shutdown that drained its listener and reports a
clean stop has one (`CleanDrainIsQuiet`).

**Bounds.** `MaxSpec`, `MaxHead`: how often the spec is edited and the
repository pushed to; two versions are enough for an old and a new one, the
edits of `core` use three. `MaxFailures`: the count past which the backoff no
longer grows; no property reads the count, so it is 0. Two syncs are what one slot can tell apart: one in it and one
that asks. Two entries of one name are the departed and the new one; two names
are needed only where applications meet, in `Installing`.

**Fairness.** A goroutine that can move does (the Go scheduler), and the two
bounded waits run out (their timers). `TakeLease` is strongly fair: the lease
is a channel of one slot, and a channel serves its waiters in order, so a lease
that keeps coming free is eventually got. Fetches, renders and reads run under
the pass's context and answer or are cancelled. A deploy takes no context:
`FairSpec` assumes that the daemon answers it, `StuckSpec` does not. Nobody has
to push, edit, request or stop, and no reconcile timer has to fire, so
`EditPickedUp` holds because of the poke and not of the next tick.

### What is proved

`ReconcilerProofs` proves `TypeCorrect` and the safety properties of the passing
runs, for any number of applications, entries, syncs and releases, any collision relation that is symmetric and irreflexive, and any
bounds. They rest on `ConstantsAssumption`, which every run evaluates.

None of the properties is inductive. "Two workers are never inside a pass of
one entry" says nothing about who holds the lease, so a step of `TakeLease`
cannot be shown to keep it. The invariant that carries them is a conjunction:

- `LeaseInv`: whoever is between taking a lease and giving it back is its
  holder. This gives `LeaseExclusive` at once, for a lease has one holder.
- `MemberInv`: a name that resolves to an entry is that entry's name, and work
  is only done for entries in use.
- `ClaimInv`: a worker in `apply` has its plan marked, and the marks of two
  entries never collide. Needs `LeaseInv`, or another worker's marks could be
  overwritten. Gives `InstallsApart`.
- `DepartInv`: an entry that is out of the set is either in `Remove`'s hands,
  or cancelled and then remembered in `retiring` or *quiet*: nobody is past
  `acquire`'s second check for it, and nobody can get there. A free lease makes
  an entry quiet (`FreeIsQuiet`, from `LeaseInv`); a cancelled quiet entry stays
  quiet because `Recheck` refuses. Gives `SweepMeetsNoWriter`, for a sweep
  starts with `retiring` empty.

These four and the types are `CoreInv`. Four more rest on it, one for each of its theorems; together they are `IInv`:

- `EditInv`: a loop that is past its read either read the spec in force or has a
  poke waiting; a loop that has not started has read none. Gives `EditSafe`.
- `SlotInv`: whoever owns the slot of a waiting sync has not read the repository
  yet, and no promise is newer than the head. Gives `CoalesceSafe`.
- `StatusInv`: what a pass has read is no older than what its entry last
  reported. Needs `LeaseInv`: only one pass at a time can report, and
  `MemberInv`: an entry that has left the set never comes back. Gives
  `StatusSafe`, which is about steps.
- `DrainInv`: once the drain has begun behind a closed listener, each entry of
  the set is still on the drain's list, has its lease held by the drain, or has
  nobody left who could ask for it. Gives `DrainSafe`.

Liveness is outside the prover and checked by TLC only.

## 4. AppSetLoop

### State and actions

A spec is the set of releases it declares, and the file is a function from
names to specs. The state is what outlives the process (`file`, `stamp`: the
owner each installed release's records name, `cache`), the part of the
reconciler the loop meets (`apps`, `known`: the releases each status lists,
`work`, `late`: passes `Remove` gave up waiting for), the locals of one pass of
`Once`, and the loop's memory. `before` and `missed` are history: they record
what the last pass loaded and who was out of the set at the last sweep, for
properties to speak of.

`Once` is `Load`, then `RemoveApp`, `ReplaceApp` and `AddApp` in that order
(within each the order is open), `Applied`, `Views` (the confirmation of an
empty set, the gate on applications that have not planned, the declared
releases), `DrainingGate`, `HoldEmpty` or `List`, one `Uninstall` per release,
`Swept`, and `Reclaim`. A credential that does not resolve is `ApplyFails`; a
removal may fail before the records are gone, or report a failure although they
are gone; listing may fail. Passes of the reconciler (`Fetch`, `Plan`,
`Install`, `PassEnds`) and of departed applications (`LateInstall`) run beside
all of it. `Restart` forgets everything but the file, the swarm and the disk,
at any point.

Left out: what the status endpoint reports of errors, of staleness and of whom
the sweep waits for; an application's two cache directories are one; the
removal of a release is one step here and taken apart in `Uninstall`.

### Runs

| run | instance | shows |
|---|---|---|
| `set` | 2 names, 2 releases, 2 edits, a file that may not load, 1 restart | the safety properties |
| `set_live` | 1 name whose credential may fail, fair | `SetConverges`, `DepartedSwept` |
| `handover` | | `SweepSparesDeclared` is violated when a running application is edited to take a release over |

The properties of `set` are `SweepSparesDeclared`, `EmptySetConfirmed`,
`HeadingsDisjoint`, `CacheGrace` and `PrunedStaysGone`. The first holds there, where the set's members change but a
running application's releases do not, and the second where no
application fails to apply; `handover` and `MCEmptyTwice.cfg` drop exactly these
restrictions. The other safety properties: what is reported as pruned gets
nothing installed in its name until it is back (`PrunedStaysGone`), the three
headings orphaned, pruned and running are disjoint (`HeadingsDisjoint`), a
cache goes only at the second sweep in a row without its application
(`CacheGrace`).

**Bounds.** Two edits are what it takes to leave and to come back, or to hand
over and hand back; one restart forgets a departure between any two steps.

**Fairness.** The loop's steps end and its timer fires (weak). An application's
pass comes round again, and what may fail (a credential, a plan, an install, a
listing, an uninstall) does not fail for ever (strong). A deploy of a departed
application ends when the daemon answers. Liveness is claimed only when the
file stays readable from some point on.

### What is proved

`AppSetLoopProofs` proves `SetTypeCorrect` and the five safety properties of
`set`, for any names, releases, sets, failing credentials and bounds. They
rest on `SetsAssumption`. Two of them carry a hypothesis, the same restriction
that the violation runs drop: `EmptySafe` that no credential fails
(`Failing = {}`), `SpareSafe` that no name is ever given two specs (`OneSpec`,
over `Sets`).

Each step of `Once` uses what an earlier one read, so the properties are not
inductive; what ties the steps together is:

- `LoopInv`: between the apply and the end of the sweep nobody runs whom the
  loaded set does not name, and what the sweep empties does not run
  (`AppliedInv`); an application out of the set is in no pass, and work `Remove`
  gave up on is over before the sweep lists anything and is never in the name of
  a pruned application (`QuietInv`); reclaim's candidates were out of the set at
  the last sweep (`GraceInv`). With `HeadingsDisjoint` it gives `HeadingsSafe`,
  `CacheGraceSafe` and `PrunedSafe`; the last two are about steps.
- `EmptyInv`: `emptyBefore` is about the pass before until `Views`, and about
  this one after it. Gives `EmptySafe`.
- `SpareInv`: what a name runs, lists and works on is its one spec, so after the
  gate on unplanned applications every running one is covered by `declared`.
  Gives `SpareSafe`.

## 5. ApplyPass

### State and actions

One application of three releases in two waves. The world is, per release, the
manifest of its newest record (`rec`), how what runs compares with that
(`run`: as recorded, edited, reverted by Swarm, gone, deferred), its rollout
(`phase`) and whether a service runs that only some manifests declare (`wide`).
A pass (`pass`, `pc`) goes the way of `reconcileHeld` and `apply`:

| action | code |
|---|---|
| `PassFails`, `PassRests`, `PassHeld`, `PassStarts` | the plan and `observe`, and the ways out before anything is written: an error, nothing to do, the hold on an unreproducible chart |
| `EngineDeploys`, `EngineFails`, `EngineEnds` | the chart engine's apply in wave order |
| `Correct`, `CorrectFails`, `Awaited`, `WaveSkipped`, `Barrier` | `converge`: the corrections of a wave, what `wait` waits for, the barrier before the next wave |
| `PruneRelease`, `PruneService`, `PruneFails`, `SweepEnds` | the sweeps, before the deploys with `pruneFirst`, else after |
| `Confirm`, `ConfirmFails` | the second plan, which records what was reached |
| `ReplaceSelf`, `ReplaceFails` | the deferred write of the controller's own service, which ends the process |
| `Stop`, `Abandon`, `Restart` | a stop in any of these, and a process that remembers nothing |

Around it: commits (`Push`), edits by hand, rollbacks and stalled rollouts
(`Disturb`), rollouts that end (`Settle`), other applications that come to
declare a release (`OtherDeclares`). `open` counts announced syncs without an
outcome; it and `deploys` are history.

Rendering, hooks, credentials and messages are left out; so is what
`pruneResources` deletes beside services, which is `ResourceSweep`. Releases
and services are deleted in one step each.

### Run `pass`

A wave is corrected only when those before it have settled, where the policy
does not wait (`BarrierHolds`; where it does, see section 10); a success is
recorded only for a commit that is deployed and whose corrections were all made
(`SuccessIsWhole`); what is published as synced is deployed (`SyncedIsDeployed`);
each announced sync has one outcome (`StartedSyncsEnd`; both are in `PassInv`); with `pruneFirst`
nothing is deployed beside what departs (`NoOverlap`), without it nothing goes
before what replaces it (`NoGap`); a release somebody else declares is spared
(`SparesOthers`, on the reading `declaredElsewhere` makes as the sweep begins; these three are `SweepsInOrder`);
the controller replaces itself when all else is done (`SelfLast`); an automated
application with live drift converges (`Converges`).

**Bounds.** Two commits: one installs, one upgrades a release, drops a service
and drops a release. Two edits, one fault, one forced sync: an edit of one wave
while another is corrected, and a failure in any step. Three policies: live and
automated without and with `wait` and `pruneFirst`, and manual.

**Fairness.** The loop's timer fires and a pass goes on (`Work`); a rollout that
nobody disturbs ends; a stopped controller is started again. Faults, edits and
commits need not happen.

### What is proved

`ApplyPassProofs` proves all of run `pass` but `Converges`: `PassSafe`
(`PassInv`), `BarrierSafe` (`BarrierHolds`), `SuccessSafe` (`SuccessIsWhole`),
`SelfSafe` (`SelfLast`) and `SweepsSafe` (`SweepsInOrder`), for any releases in
any waves, any commits, policies and bounds, from `PassAssumption`. What is
recorded at the end of a pass is decided many steps before, so nothing but the
way there carries it:

- `PlanInv`: what a pass deploys and corrects is declared by the commit it
  began with, however many are pushed meanwhile; what it sweeps is not.
- `DeployedInv`: what is missing of that commit is still on the engine's list,
  and once the engine is done nothing is. With `OpenInv`, which also ties the
  one open sync to the steps of the pass, this gives `PassInv`.
- `WaveInv`: while `converge` works, what it has yet to correct is in its wave
  or later, and what it wrote and does not know to have settled is in the scopes
  of the wave the barrier is about to look at. A wave that is started has
  therefore passed a barrier over everything before it: `BarrierSafe`. Under
  `wait` the scopes leave out what did not settle, which is the violation of
  section 10.
- `CorrectedInv`: what was to be corrected is corrected or still to be, unless
  the pass has failed. Gives `SuccessSafe` with `DeployedInv`.
- `OrphanInv`, `DoomedInv`: what the commit left behind is still on the list of
  the sweep that is to come, gone, or declared by another application; with
  `OrderInv` (which sweep that is) they give `SweepsSafe`, and with all the
  others `SelfSafe`.

`SyncedIsDeployed` is stated for every commit and release, not only for those
the last pass changed.

## 6. ResourceSweep

The inside of one release under `pruneResources`: two services, a config that
is rotated by content, a network. `live` gives what runs an identity, so that a
thing deleted and created again under its name is another one. `Observe` is the
read, with the candidates it finds (undeclared, not referred to by a spec or a
previous spec, declared by a revision this application stored) and the count of
failed deletions; `Apply` the deploy in between; `PruneService` and
`PruneResource` delete one thing; `Confirm` reads again.

Run `sweep` (`SweepInv`, `DeletesOnlyFound`, `SweepSettles`): only what was seen is deleted (`DeletesWhatItSaw`), nothing that
the chart just applied declares (`SparesDeclared`), nothing a rollback needs
(`RollbackPossible`); a resource that cannot be deleted is given up
(`AttemptsBounded`, `GivesUp`) and a service goes in the end (`ServicesGo`).
`AttemptsBounded` is about failures in a row: a failed read, a restart or a
re-declaration starts the code's count over, so a resource may be tried again
after each of those. Another application's
deploy (`Intrude`) comes between passes, not inside one: inside one only the
daemon's refusal to delete what a service refers to protects it, and that
covers no previous spec. Bounds: two commits, three edits by hand, one fault;
the three attempts are the code's. Fairness: the loop goes on.

`ResourceSweepProofs` proves `SweepSafe` (`SweepInv`) and `DeletesSafe`
(`DeletesOnlyFound`) for any names, charts, retention and bounds, from
`SweepAssumption`. Between the read and the deletions the chart is applied and
people work on the swarm, so what was found has to be shown to stay what it was:
nothing found is declared by the chart of the pass (`FoundInv`); no service has
come to refer to a resource that was found unused, nor could be rolled back to
one that does (`UnusedInv`), as an update moves a service's spec, which is in use,
to its previous spec, and only declared things become used; each resource is
found once and only below the bound (`CountInv`). `SweepSettles` is
model-checked only.

## 7. Removal and Uninstall

`Removal` is what deleting a release promises: it is whole, half gone, or gone
with its records; nothing is ever left that no record points at. `Uninstall`
is `Pruner.Departed` with `prune.Release`, call by call: the stack, its named
volumes on each node the registry reaches (containers hold them for a while,
nodes go and come), the records; each call may fail, having done its work or
not, and the process may stop anywhere. An application that stays may come to
declare a release of the departed one and deploy it (`HeirPlans`,
`HeirDeploys`).

Run `uninstall`: `Removes` is the refinement, with `Stage` as the mapping;
`RecordsLast` says what is left of a release without records: nothing, or
volumes a warning named; `ReportIsTrue` that an application is reported as
emptied only if it is (both in `UninstallInv`); `AllGone` that it is emptied in the end, for the
app-set loop sweeps on every pass, containers end and nodes come back. The one
exception is written into the properties: a release that is deployed anew
*while* it is being removed (`raced`) loses the records of that deploy, for
`Departed` reads the claims before it removes and does not ask again. Bounds:
two releases, two nodes, two faults. Deadlock is not checked, as the sweep has
nothing left to do once the releases are gone.

`UninstallProofs` proves `UninstallSafe` (`UninstallInv`) and the refinement
`UninstallRemoves` (`Removes`) for any releases, nodes, heirs and number of
faults, from `UninstallAssumption`. That the records go last is not inductive:
what is left of a release depends on what the steps before removed.
`GoneSoFar` says it of the release at hand, unless it was deployed meanwhile:
while volumes are purged its stack is gone and each volume that is left is on a
node still to come or makes the purge a partial one, and with the records at hand
nothing is left. `Pending` says that no departing release is forgotten between
the listing and the report, which carries `ReportIsTrue`. With `RecordsLast` the
mapping `Stage` never yields a stranded release, so each step moves one release
from a stage of `Removal` to the next, or none. Liveness (`AllGone`) is
model-checked only.

## 8. Admission and Deploy

`Admission` holds the pure part of the backend's guards: which names a manifest
may declare or refer to, given who holds them on the swarm and what the
controller itself mounts, and what the startup audit says is lacking. `Deploy`
is `DeployStack`, `updateService`, `deferSelf` and `RemoveStack`, one call to
the daemon per step, for several releases at once and people who create,
delete, edit and restart things in between. The record the chart engine stores
after a deploy, and the marks of `claimInstalls` (one install at a time of
colliding names), are steps too, for what the guards read depends on them.

Run `deploy` (`DeployInv`, `NothingTaken`, `HandsKept`, `RemovedIsGone`,
`DeployEnds`): releases `a` and `a_b`, whose names Swarm cannot keep apart, and
the controller's own stack. No name is taken over, also when it was free as the
deploy was admitted (`NoTakeover`); services deployed by hand are overwritten
only where the release is on record (`HandMadeSpared`); a restart forced by
hand is kept and an edit that is overwritten is reported, through the retries
under a version conflict (`RestartsKept`, `EditsReported`); no release but the
controller's own touches what the controller runs on (`ControllerSpared`);
colliding releases are not both on record (`RecordsApart`); a removal that says
it is done is (`RemovedIsGone`); every deploy ends although people keep editing
what it writes (`DeployEnds`); and what the audit asks for is enough
(`AuditSuffices`).

**Bounds.** Two releases at work, one mishap (a failed call, a crash, or
something created, deleted or restarted by hand), any number of edits, two
retries for the code's `maxConflictRetries`. Left out of the instance: names
that differ in case only (`SameRecord`) and a controller that runs outside a
container. **Fairness.** The daemon answers.

Removals go by id, so a removal whose list names what somebody else deletes and
creates again does not touch the new one (`Deleted` takes it off every list).
Networks are told apart by label: one under the controller's name that people
labelled as a release's goes with that release, which `ControllerSpared` says.
`ControllerNetworks` are the networks that were there with the controller from
the start.

`DeployProofs` proves `DeploySafe` (`DeployInv`), `TakeoverSafe`
(`NothingTaken`), `HandsSafe` (`HandsKept`) and `RemovalSafe` (`RemovedIsGone`)
for any releases, names, services, manifests, allowlists, collisions and bounds,
from `AdmissionAssumption` and `DeployAssumption`. All of it is about a guard and
a write that lie apart, with others at work between them; the invariant says what
of the guard's finding is still so:

- `InstallInv`, `RecordInv`: an install is marked until it is on record, beside no
  install that collides with it, and what the guards found of the records is still
  so when the record is stored. Needs both: of two colliding releases one may be
  on record before the other's guards run, or both may be unrecorded at once.
  Gives `RecordsApart`. `AuditSuffices` is a matter of cases, not of steps.
- `GuardInv`: what another release is about to make is none of what the
  controller runs on, and whoever writes or removes services as another release
  is not the controller's stack. With `SpareInv` (the controller's service and
  files are where they were) it gives `ControllerSpared`.
- `SeenInv`: a service that a deploy has listed is its own until it is gone, and
  is as it was read, its count of restarts included, unless the deploy is to hear
  of the change; what was written since and not reported is such a change. An
  update goes through only on what is as it was read, which gives `HandsKept`, and
  the services' part of `NothingTaken`.
- `RemovalInv`: what is left of a stack under removal is on its list, or a call
  has failed; nothing of the controller is on any list. Gives `RemovedIsGone`.
- `IdleInv`: nothing is left over from one deploy or removal to the next.

`NoTakeover` needs no invariant for the names, as `applySecrets` and
`applyConfigs` ask again who holds a name and a network is only ever created; that
is what the guards of `ApplyNetwork` and `ApplyResource` say. `DeployEnds` is
model-checked only.

## 9. EventStream, LogStream, Streams; Specs, LiveDrift

### The streams

`EventStream`: an event is published into the ring and into each subscriber's
buffer that has room, under one mutex; a handler takes, asks whether the client
may see it, and writes. `LogStream`: a request takes a slot, opens the daemon's
stream, and a pump goroutine reads lines into a bounded buffer; the backlog
waits for room, later lines are dropped and counted. `Streams` puts them into
one process and adds the drain. Either kind of stream is exercised per
behaviour, for they share only the shutdown.

Run `streams` (`EventsKept`, `LinesKept`, `StreamsMove`): a connection is sent, in order and once, what was published
while it was subscribed, but what overran its buffer or it may not see
(`SentIsPublished`), and the document of recent events lacks nothing of that
but by age (`DocumentComplete`), which is what a client that was told of a gap
reads; nobody publishes into a closed channel (`NoSendOnClosed`); a client that
stalls does not hold up the controller (`PublishGoesOn`); the drain ends every
event stream, also one that subscribes after it (`EventStreamsEnd`). Every line
read is sent or counted (`GapsCounted`), a requested backlog is whole
(`BacklogWhole`), a slot comes back (`SlotsReturned`), a withdrawn grant ends the
stream (`RevokedEnds`), and no pump outlives its handler (`PumpsEnd`).

**Bounds.** Three events over two applications, buffers and rings of one and
two so that they overflow; three lines, backlogs of none and two, one slot.
**Fairness.** Handlers and pumps run; a client that has not stalled reads; the
keepalive's ticker is among the cases a select chooses from at random (strong),
so it is not starved by lines; a read ends with its context. The controller
keeps having events to publish. Deadlock is not checked: with all events
published, or all readers revoked, nothing has to happen.

`StreamsProofs` proves `EventsSafe` (`EventsKept`) and `LinesSafe`
(`LinesKept`), for any clients, readers, grants, buffers, rings, backlogs and
any number of events and lines, from the assumptions of the two modules. What
a client was sent, what is being written to it and what waits in its channel are
one sequence (`Sent`), to which `publish` appends and from which only the handler
drops what may not be seen: that it is rising, and that with the events missed it
is exactly what was published since it subscribed, is inductive once it is known
that the ring holds the newest events without a gap (`RingInv`) and that whoever
is subscribed has a handler with a frame exactly while it writes (`HandlerInv`).
The lemmas about sequences in three parts (`FlightTakes`, `FlightLands`,
`FlightGrows`, `FlightSkips`) say what each of those steps does to it. For lines,
`Accounts` says of a live stream that the line the client was told of last, what
its channel holds and what the pump has dropped since add up to what was read;
`CountIs` states the sum by its partial sums, which a step extends or drops the
first of, where a recursive function could only be evaluated. `StreamsMove` is model-checked only.

Two things the model shows that contradict no text: lines dropped at the very
end of a stream are counted in no notice, for there is no later line to put one
before; and a line may be sent before the notice of an earlier loss, when room
appears between the two attempts to send.

### Drift

`Specs` compares the declared and the stored spec in every kind of field
`drift/live.go` compares: a *facet* stands for the fields compared in one way,
with the values that can be written, what the daemon stores for each (its
defaults; external), what the code makes of two sides (`Differs`), and what a
stored value makes run (`Effect`), which is the reference the code is checked
against. `LiveDrift` is one service in one facet, through a commit, two edits by
hand or deletions, and what Swarm makes of them: roll-outs that end, stick or
are rolled back. `Blank` stands for the empty string.

Run `drift` (`ReportedExactly`, `HealthTold`, `CorrectionRests`): a service is reported exactly when it runs something else than
declared (`NothingInvented`, `EditsSeen`; a network the listing did not name is
excepted, as in the code); it is corrected until nothing differs that a
redeploy would cure (`Cured`) and Swarm is not fought (`NoFight`); health and
drift are not said to be better than what was read (`HealthyIsTrue`,
`NoDriftIsTrue`), nor worse for what is over (`HistoryIsHealthy`).

**Bounds.** One commit and two edits: one to differ, one to differ again while
the first is rolled out or back. **Fairness.** The loop ticks; a listing of
networks and the correction are one pass, so a correction that keeps being
possible is made (strong). Deadlock is not checked: with the edits and commits
spent, nothing has to happen.

`LiveDriftProofs` proves `ReportSafe` (`ReportedExactly`), `InventsNothing`
(`NothingInvented`) and `HealthSafe` (`HealthTold`), for any set of command lines
and any number of commits and edits. `TypeOK` is inductive and is all that is
needed of the past: what the daemon holds is what it stores for something that
was written. The rest is `AllExact`: what can be written and what is stored for
it differ by the code's comparison exactly when their effects do. It has one
lemma per kind of field, and those on lists rest on `SortedIsSet` (lists without
repetitions are equal once sorted exactly when their elements are), proved with
the theorems on cardinality. The values that can be written are those `Written`
enumerates, not all there are. `ReportSafe` assumes `JoinedApart`, that command
lines stay apart when their words are joined by blanks: the code does not see to
that, and `MCGrouped.cfg` is an instance where they do not and an edit goes
unseen. `InventsNothing` needs no such assumption. `CorrectionRests` is
model-checked only.

## 10. What the violations say

Two are runs, the others can be repeated with the configuration named.

| | code | the text it disagrees with |
|---|---|---|
| run `orphan_stays`, `OrphansGo` | a pass that has nothing to install, upgrade, correct or sweep inside a release rests (`reconcile/reconcile.go:1966`); orphaned releases are not counted, so one whose removal failed once stays until the next commit or drift | `prune`'s comment, 2676-2679 |
| run `handover`, `SweepSparesDeclared` | `declared` reads statuses that `Replace` kept (`appset/loop.go:414`) | `declared`'s comment, 406-407 |
| `MCHold.cfg`, `HoldBelongsToSpec` | `setUnstable` (`reconcile/reconcile.go:2090`) marks the entry after an edit for what the old spec rendered | `Replace`'s comment, 381-385 |
| `MCStuckRemove.cfg`, `RemoveIsBounded` | `Remove` waits for the loop goroutine (467) before its bounded wait | `Remove`'s comment, 441-443 |
| `MCDepartedDrain.cfg`, `CleanDrainIsComplete` | `Run` hands `drain` the entries in the set only (270) | `drain`'s comment, 281-282 |
| `MCEmptyTwice.cfg`, `EmptySetConfirmed` | `emptyBefore` is reset only by a pass that applied cleanly (`appset/loop.go:298`) | `docs/configuration.md:1144`, `appset/loop_test.go:896-898` |
| `MCWaves.cfg`, `WavesApart` | under `wait`, a correction that did not settle is left out of the barrier (`reconcile/reconcile.go:2426`), and the next wave is corrected | `docs/configuration.md:718-722` |
| `MCDeployedOnce.cfg`, `DeployedOnce` | an unreproducible chart whose render happens to match once loses its hold and is deployed again | `docs/configuration.md:676-677` |
| `MCBlame.cfg`, `RolledBackWasDeclared` | every rollback counts as a verdict on the declared spec (`drift/live.go:147`): of two edits by hand, the second rolled back to the first, the first is never corrected | `docs/configuration.md:732-738`, `drift/live.go:120-127` |
| `MCGrouped.cfg`, `EditsSeen` | `command` and `args` are compared joined by a blank (`drift/live.go:696-700`): `"a b"` for `a b` is not seen | `docs/configuration.md:801` |
| `MCShutdown.cfg`, `StreamsEnd` | the shutdown ends event streams only (`api/api.go:835`); a followed log stays open for the whole shutdown timeout | `controller/run.go:66-75` |

Not modelled, but met on the way: the backoff (`reconcile/reconcile.go:1716`)
shifts before it caps, so an interval of 2^55 ns (417 days) or more can wrap to a
small positive wait; an interval above 30 minutes is retried sooner when it fails
than when it works. The environment entries `KEY` and `KEY=`, and two digests
under one tag, are not told apart. The audit says
(`backend/allowaudit.go:22-27`) that it leaves out names no allowlist can grant;
of references it does ask for those in the space of the release records, which
the deploy refuses all the same (`backend/backend.go:322-325`).

## 11. What is not modelled

Parsing and rendering (`source`, `compose` but for image references, `config`),
the clone on disk (`git`), credentials (`regauth`, `secrets`, `authz`), the
licence watch, which only warns (`feature`), read-only endpoints, the roster of
nodes, registration of seams, the browser's code (`web/ui`). Of the parts that
are modelled: messages and their wording, notifications, the history of an
application, the timing of timers (a timer may fire at any time), hooks of
charts. What the chart engine, the daemon and Swarm do is taken from how the
code uses them and marked external in `PROJECT.json`, which lists every
component with its status and every hazard with the properties that cover it.

Only model-checked: all liveness, which is outside the prover. Every invariant
that a passing run checks is also proved; of `ReportedExactly`, under the
assumption that section 9 names.

## 12. Running

```
tlc -workers 2 -config MCCore.cfg MCReconciler.tla
tlc -workers 2 -config MCPass.cfg MCApplyPass.tla
tlapm ReconcilerProofs.tla
tlapm AppSetLoopProofs.tla
tlapm ApplyPassProofs.tla
tlapm ResourceSweepProofs.tla
tlapm UninstallProofs.tla
tlapm DeployProofs.tla
tlapm StreamsProofs.tla
tlapm LiveDriftProofs.tla
```

The runs of `PROJECT.json` name the module and the configuration of each of the
others; none takes more than three minutes on two cores. `PROJECT.json` also
names, for every property of a passing run, a mutated definition of the model
under which TLC finds it violated: a wake-up that is lost, a check after a wait
that is dropped, a barrier that waits for nobody. The mutated operators stand
before the ones they replace and are used by nothing else.
