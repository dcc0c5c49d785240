----------------------------- MODULE Reconciler -----------------------------
(***************************************************************************)
(* The lifecycle half of package reconcile: the set of applications, the   *)
(* lease every piece of work for one of them is done under, the loop       *)
(* goroutine of each, the syncs the API starts and detaches, the removal   *)
(* of an application while its work is in flight, and the shutdown drain.  *)
(*                                                                         *)
(* An action is one critical section of Reconciler.mu, one channel         *)
(* operation, or one call out of the process.  What a pass computes is     *)
(* abstracted to the spec version and the commit it acted on and to the    *)
(* releases it installs; what it deletes is modelled elsewhere.            *)
(***************************************************************************)
EXTENDS Naturals, FiniteSets

CONSTANTS
    Names,        \* application names
    Entries,      \* identities of appEntry values; each Add takes a fresh one
    Syncs,        \* the goroutines the API may have detached at one time
    Releases,     \* release names a plan may install
    Collide,      \* application.ReleasesCollide, as a set of ordered pairs
    Flaky,        \* spec versions whose charts do not render the same twice
    Manual,       \* spec versions whose sync policy is not automated
    MaxSpec,      \* bound: versions an application's spec goes through
    MaxHead,      \* bound: commits the repository receives
    MaxFailures,  \* the failure count past which backoff no longer grows
    None,         \* nil
    Drainer       \* the goroutine Reconciler.drain takes leases from

Workers == Entries \cup Syncs

ASSUME ConstantsAssumption ==
    /\ Entries \cap Syncs = {}
    /\ None \notin Entries \cup Syncs \cup Names
    /\ Drainer \notin Entries \cup Syncs \cup {None}
    /\ MaxSpec \in Nat \ {0} /\ MaxHead \in Nat /\ MaxFailures \in Nat
    /\ Collide \subseteq Releases \X Releases
    /\ \A p \in Collide : p[1] # p[2] /\ <<p[2], p[1]>> \in Collide

VARIABLES
    \* Reconciler, under mu
    apps,         \* name -> entry, or None
    retiring,     \* departed entries Remove gave up waiting for
    installing,   \* entry -> the releases its apply is installing
    root,         \* the run context: "nil" before Run, then "live", "done"
    \* appEntry
    name,         \* entry -> the application it is, None while unused
    cancelled,    \* entries whose context is done
    held,         \* entry -> who holds its lease: a worker, Drainer or None
    pending,      \* entry -> the sync that owns the one manual-sync slot
    wake,         \* entries with a poke waiting
    spec,         \* entry -> version of the spec it reconciles against
    unstable,     \* entry -> commit its last apply did not settle at, 0 none
    failures,     \* entry -> failed reconciles in a row
    status,       \* entry -> the spec and commit last recorded, 0 unknown
    \* the goroutines
    pc,           \* worker -> where it is
    target,       \* sync -> the entry AcceptSync resolved
    job,          \* worker -> the locals of the pass it is in
    setter,       \* the app-set loop, the one caller of Add/Replace/Remove
    shutdown,     \* Run's drain: its goroutine, leases to take, its report
    api,          \* the listener: "open", "draining", "closed"
    head,         \* the newest commit of the repository
    promise       \* sync -> newest commit a coalesced request was about

entryVars == <<name, cancelled, held, pending, wake, spec, unstable, failures, status>>
setVars == <<apps, retiring, installing, root>>
workVars == <<pc, target, job, promise>>
vars == <<setVars, entryVars, workVars, setter, shutdown, api, head>>

\* The locals of a pass: the spec and the commit it read, the releases its plan
\* installs, and whether it has failed.
Job(version, commit, installs, fine) ==
    [spec |-> version, rev |-> commit, plan |-> installs, ok |-> fine]
NoJob == Job(0, 0, {}, TRUE)
Jobs == [spec: 0..MaxSpec, rev: 0..MaxHead + 1, plan: SUBSET Releases, ok: BOOLEAN]

\* Where Run's drain is, the leases it has yet to take, and what it reported.
Drain(at, entries, outcome) == [pc |-> at, todo |-> entries, report |-> outcome]
Drains == [pc: {"off", "wg", "leases", "stopped"}, todo: SUBSET Entries,
           report: {"none", "clean", "gave up"}]

EntryOf(w) == IF w \in Entries THEN w ELSE target[w]

\* currentLocked: the entry is the one its name resolves to.
Current(e) == name[e] # None /\ apps[name[e]] = e

\* Mutated: the lease shuts nobody out.
BusyNever(e) == FALSE

\* busy: the lease cannot be taken right now.
Busy(e) == held[e] # None

LoopStates == {"off", "select", "note", "exited"}
SyncStates == {"idle", "lookup", "accepted", "unpend"}
\* Inside a pass: between acquire returning and the lease going back.
Inside == {"read", "fetch", "observe", "claim", "apply", "release"}
Holding == Inside \cup {"recheck", "unpend"}
PassStates == Inside \cup {"queued", "recheck", "refused"}

Working(w) == pc[w] \in Inside

SetTypes ==
    /\ apps \in [Names -> Entries \cup {None}]
    /\ retiring \subseteq Entries
    /\ installing \in [Entries -> SUBSET Releases]
    /\ root \in {"nil", "live", "done"}

EntryTypes ==
    /\ name \in [Entries -> Names \cup {None}]
    /\ cancelled \subseteq Entries
    /\ held \in [Entries -> Workers \cup {Drainer, None}]
    /\ pending \in [Entries -> Syncs \cup {None}]
    /\ wake \subseteq Entries
    /\ spec \in [Entries -> 0..MaxSpec]
    /\ unstable \in [Entries -> 0..MaxHead + 1]
    /\ failures \in [Entries -> 0..MaxFailures]
    /\ status \in [Entries -> [spec: 0..MaxSpec, rev: 0..MaxHead + 1]]

WorkTypes ==
    /\ pc \in [Workers -> LoopStates \cup SyncStates \cup PassStates]
    /\ \A e \in Entries : pc[e] \in LoopStates \cup PassStates
    /\ \A s \in Syncs : pc[s] \in SyncStates \cup PassStates
    /\ target \in [Syncs -> Entries \cup {None}]
    /\ \A s \in Syncs : pc[s] # "idle" => target[s] \in Entries

JobTypes ==
    /\ job \in [Workers -> Jobs]
    /\ promise \in [Syncs -> 0..MaxHead + 1]

ControlTypes ==
    /\ setter \in [pc: {"idle", "cancel", "waitdone", "drain", "sweep"},
                   entry: Entries \cup {None}]
    /\ setter.pc \in {"cancel", "waitdone", "drain"} => setter.entry \in Entries
    /\ shutdown \in Drains
    /\ api \in {"open", "draining", "closed"}
    /\ head \in 1..MaxHead + 1

TypeOK == SetTypes /\ EntryTypes /\ WorkTypes /\ JobTypes /\ ControlTypes

Init ==
    /\ apps = [n \in Names |-> None]
    /\ retiring = {}
    /\ installing = [e \in Entries |-> {}]
    /\ root = "nil"
    /\ name = [e \in Entries |-> None]
    /\ cancelled = {}
    /\ held = [e \in Entries |-> None]
    /\ pending = [e \in Entries |-> None]
    /\ wake = {}
    /\ spec = [e \in Entries |-> 0]
    /\ unstable = [e \in Entries |-> 0]
    /\ failures = [e \in Entries |-> 0]
    /\ status = [e \in Entries |-> [spec |-> 0, rev |-> 0]]
    /\ pc = [w \in Workers |-> IF w \in Entries THEN "off" ELSE "idle"]
    /\ target = [s \in Syncs |-> None]
    /\ job = [w \in Workers |-> NoJob]
    /\ setter = [pc |-> "idle", entry |-> None]
    /\ shutdown = Drain("off", {}, "none")
    /\ api = "open"
    /\ head = 1
    /\ promise = [s \in Syncs |-> 0]
-----------------------------------------------------------------------------
(***************************************************************************)
(* The set.  Only the app-set loop changes it, one call at a time.         *)
(***************************************************************************)

\* Add: a fresh entry, and its loop if the run context is live
\* (startLoopLocked starts nothing before Run and nothing into a shutdown).
Add(n, e) ==
    /\ setter.pc = "idle"
    /\ apps[n] = None
    /\ name[e] = None
    /\ apps' = [apps EXCEPT ![n] = e]
    /\ name' = [name EXCEPT ![e] = n]
    /\ spec' = [spec EXCEPT ![e] = 1]
    /\ pc' = IF root = "live" THEN [pc EXCEPT ![e] = "select"] ELSE pc
    /\ UNCHANGED <<retiring, installing, root, cancelled, held, pending, wake,
                   unstable, failures, status, target, job, promise,
                   setter, shutdown, api, head>>

\* Mutated: the wake-up is lost.
PokeLost(e) == wake

\* poke, which a second one before the loop has looked adds nothing to.
Poke(e) == wake \cup {e}

Replace(n) ==
    /\ setter.pc = "idle"
    /\ apps[n] # None
    /\ LET e == apps[n] IN
         /\ spec[e] < MaxSpec
         /\ spec' = [spec EXCEPT ![e] = @ + 1]
         /\ unstable' = [unstable EXCEPT ![e] = 0]
         /\ failures' = [failures EXCEPT ![e] = 0]
         /\ wake' = Poke(e)
    /\ UNCHANGED <<setVars, name, cancelled, held, pending, status, workVars,
                   setter, shutdown, api, head>>

\* Remove, up to its unlock: the name no longer resolves to the entry.
RemoveBegin(n) ==
    /\ setter.pc = "idle"
    /\ apps[n] # None
    /\ apps' = [apps EXCEPT ![n] = None]
    /\ setter' = [pc |-> "cancel", entry |-> apps[n]]
    /\ UNCHANGED <<retiring, installing, root, entryVars, workVars, shutdown, api, head>>

RemoveCancel ==
    /\ setter.pc = "cancel"
    /\ cancelled' = cancelled \cup {setter.entry}
    /\ setter' = [pc |-> "waitdone", entry |-> setter.entry]
    /\ UNCHANGED <<setVars, name, held, pending, wake, spec, unstable, failures,
                   status, workVars, shutdown, api, head>>

\* "<-done": the loop goroutine has returned, or was never started.
RemoveWaitDone ==
    /\ setter.pc = "waitdone"
    /\ pc[setter.entry] \in {"off", "exited"}
    /\ setter' = [pc |-> "drain", entry |-> setter.entry]
    /\ UNCHANGED <<setVars, entryVars, workVars, shutdown, api, head>>

\* appEntry.drain took the lease and gave it back.
RemoveDrained ==
    /\ setter.pc = "drain"
    /\ ~Busy(setter.entry)
    /\ setter' = [pc |-> "idle", entry |-> None]
    /\ UNCHANGED <<setVars, entryVars, workVars, shutdown, api, head>>

\* removeDrain passed first.
RemoveTimeout ==
    /\ setter.pc = "drain"
    /\ retiring' = retiring \cup {setter.entry}
    /\ setter' = [pc |-> "idle", entry |-> None]
    /\ UNCHANGED <<apps, installing, root, entryVars, workVars, shutdown, api, head>>

\* Draining, and the app-set sweep that starts only when it names nobody.
Draining ==
    /\ setter.pc = "idle"
    /\ LET kept == {e \in retiring : Busy(e)} IN
         /\ retiring' = kept
         /\ setter' = [pc |-> IF kept = {} THEN "sweep" ELSE "idle", entry |-> None]
    /\ UNCHANGED <<apps, installing, root, entryVars, workVars, shutdown, api, head>>

SweepDone ==
    /\ setter.pc = "sweep"
    /\ setter' = [pc |-> "idle", entry |-> None]
    /\ UNCHANGED <<setVars, entryVars, workVars, shutdown, api, head>>
-----------------------------------------------------------------------------
(***************************************************************************)
(* Taking the lease: acquire, by the loop and by a detached sync.          *)
(***************************************************************************)

\* loop's select: its timer fires, or a poke is waiting.  sync then calls
\* acquire, whose first check refuses a retired entry.
Proceed(e) == pc' = [pc EXCEPT ![e] = IF e \in cancelled THEN "refused" ELSE "queued"]

Tick(e) ==
    /\ pc[e] = "select"
    /\ Proceed(e)
    /\ UNCHANGED <<setVars, entryVars, target, job, promise, setter, shutdown, api, head>>

Woken(e) ==
    /\ pc[e] = "select"
    /\ e \in wake
    /\ wake' = wake \ {e}
    /\ Proceed(e)
    /\ UNCHANGED <<setVars, name, cancelled, held, pending, spec, unstable,
                   failures, status, target, job, promise, setter, shutdown, api, head>>

\* Mutated: the select has no case for the entry's context.
LoopDeaf(e) == FALSE

\* loop's select on the entry's context, and its return.
LoopStop(e) ==
    /\ pc[e] = "select"
    /\ e \in cancelled
    /\ pc' = [pc EXCEPT ![e] = "exited"]
    /\ UNCHANGED <<setVars, entryVars, target, job, promise, setter, shutdown, api, head>>

\* AcceptSync, called by the API's sync handler: entry resolves the name.
AcceptSync(n, s) ==
    /\ api # "closed"
    /\ apps[n] # None
    /\ pc[s] = "idle"
    /\ target' = [target EXCEPT ![s] = apps[n]]
    /\ pc' = [pc EXCEPT ![s] = "lookup"]
    /\ UNCHANGED <<setVars, entryVars, job, promise, setter, shutdown, api, head>>

\* The slot is free: the handler answers and detaches what AcceptSync returned.
Reserve(s) ==
    /\ pc[s] = "lookup"
    /\ pending[target[s]] = None
    /\ pending' = [pending EXCEPT ![target[s]] = s]
    /\ pc' = [pc EXCEPT ![s] = "accepted"]
    /\ UNCHANGED <<setVars, name, cancelled, held, wake, spec, unstable, failures,
                   status, target, job, promise, setter, shutdown, api, head>>

\* ErrSyncPending: the request is answered by the sync already queued.
Coalesce(s) ==
    /\ pc[s] = "lookup"
    /\ pending[target[s]] # None
    /\ promise' = [promise EXCEPT ![pending[target[s]]] = head]
    /\ pc' = [pc EXCEPT ![s] = "idle"]
    /\ target' = [target EXCEPT ![s] = None]
    /\ UNCHANGED <<setVars, entryVars, job, setter, shutdown, api, head>>

\* The detached goroutine reaches acquire, whose first check is of the entry.
SyncStart(s) ==
    /\ pc[s] = "accepted"
    /\ pc' = [pc EXCEPT ![s] = IF target[s] \in cancelled THEN "refused" ELSE "queued"]
    /\ UNCHANGED <<setVars, entryVars, target, job, promise, setter, shutdown, api, head>>

TakeLease(w) ==
    /\ pc[w] = "queued"
    /\ ~Busy(EntryOf(w))
    /\ held' = [held EXCEPT ![EntryOf(w)] = w]
    /\ pc' = [pc EXCEPT ![w] = "recheck"]
    /\ UNCHANGED <<setVars, name, cancelled, pending, wake, spec, unstable, failures,
                   status, target, job, promise, setter, shutdown, api, head>>

\* The wait is abandoned when the entry is retired under it.
Abandon(w) ==
    /\ pc[w] = "queued"
    /\ EntryOf(w) \in cancelled
    /\ pc' = [pc EXCEPT ![w] = "refused"]
    /\ UNCHANGED <<setVars, entryVars, target, job, promise, setter, shutdown, api, head>>

\* Mutated: given back by the path that succeeds only.
FreedIfOk(w) == IF job[w].ok THEN [held EXCEPT ![EntryOf(w)] = None] ELSE held

\* The lease goes back, by the function acquire returned.
Freed(w) == [held EXCEPT ![EntryOf(w)] = None]

\* Mutated: acquire admits a waiter without looking at the entry again.
RecheckNot(w) ==
    /\ pc[w] = "recheck"
    /\ pc' = [pc EXCEPT ![w] = IF w \in Syncs THEN "unpend" ELSE "read"]
    /\ UNCHANGED <<setVars, entryVars, target, job, promise, setter, shutdown, api, head>>

\* The check acquire repeats after the wait.
Recheck(w) ==
    /\ pc[w] = "recheck"
    /\ IF EntryOf(w) \in cancelled
       THEN /\ held' = Freed(w)
            /\ pc' = [pc EXCEPT ![w] = "refused"]
       ELSE /\ pc' = [pc EXCEPT ![w] = IF w \in Syncs THEN "unpend" ELSE "read"]
            /\ UNCHANGED held
    /\ UNCHANGED <<setVars, name, cancelled, pending, wake, spec, unstable, failures,
                   status, target, job, promise, setter, shutdown, api, head>>

\* Mutated: the slot is kept while the pass runs.
UnpendNot(s) ==
    /\ pc[s] = "unpend"
    /\ pc' = [pc EXCEPT ![s] = "read"]
    /\ UNCHANGED <<setVars, entryVars, target, job, promise, setter, shutdown, api, head>>

\* "<-e.pending": the slot goes back once acquire has answered, before the
\* pass has read anything.
Unpend(s) ==
    /\ pc[s] = "unpend"
    /\ pending' = [pending EXCEPT ![target[s]] = None]
    /\ pc' = [pc EXCEPT ![s] = "read"]
    /\ UNCHANGED <<setVars, name, cancelled, held, wake, spec, unstable, failures,
                   status, target, job, promise, setter, shutdown, api, head>>

\* acquire answered with an error: a sync gives its slot back and ends.
SyncRefused(s) ==
    /\ pc[s] = "refused"
    /\ pending' = [pending EXCEPT ![target[s]] = None]
    /\ pc' = [pc EXCEPT ![s] = "idle"]
    /\ target' = [target EXCEPT ![s] = None]
    /\ promise' = [promise EXCEPT ![s] = 0]
    /\ UNCHANGED <<setVars, name, cancelled, held, wake, spec, unstable, failures,
                   status, job, setter, shutdown, api, head>>

\* The loop returns: the error is its own context's.
LoopRefused(e) ==
    /\ pc[e] = "refused"
    /\ pc' = [pc EXCEPT ![e] = "exited"]
    /\ UNCHANGED <<setVars, entryVars, target, job, promise, setter, shutdown, api, head>>
-----------------------------------------------------------------------------
(***************************************************************************)
(* One pass, with the lease held: reconcile and reconcileHeld.             *)
(***************************************************************************)

Fail(w) == /\ job' = [job EXCEPT ![w] = Job(@.spec, @.rev, @.plan, FALSE)]
           /\ pc' = [pc EXCEPT ![w] = "release"]

\* Mutated: a loop goes on with the spec it started from.
ReadSpecOnce(w) ==
    /\ pc[w] = "read"
    /\ LET e == EntryOf(w)
           version == IF w \in Entries /\ job[w].spec # 0 THEN job[w].spec
                      ELSE IF Current(e) THEN spec[e] ELSE 0
       IN job' = [job EXCEPT ![w] = Job(version, 0, {}, TRUE)]
    /\ pc' = [pc EXCEPT ![w] = "fetch"]
    /\ UNCHANGED <<setVars, entryVars, target, promise, setter, shutdown, api, head>>

\* reconcile reads the spec only now, under mu; a departed entry reads none.
ReadSpec(w) ==
    /\ pc[w] = "read"
    /\ LET e == EntryOf(w) IN
       job' = [job EXCEPT ![w] = Job(IF Current(e) THEN spec[e] ELSE 0, 0, {}, TRUE)]
    /\ pc' = [pc EXCEPT ![w] = "fetch"]
    /\ UNCHANGED <<setVars, entryVars, target, promise, setter, shutdown, api, head>>

\* Fetch brings the tree to the head of the repository.  The zero spec has no
\* name, which the git layer refuses.
Fetch(w) ==
    /\ pc[w] = "fetch"
    /\ job[w].spec # 0
    /\ job' = [job EXCEPT ![w] = Job(@.spec, head, {}, TRUE)]
    /\ pc' = [pc EXCEPT ![w] = "observe"]
    /\ UNCHANGED <<setVars, entryVars, target, promise, setter, shutdown, api, head>>

\* Fetch, Build, Backend or PlanApply fails, or their context is done.
FetchFails(w) ==
    /\ pc[w] = "fetch"
    /\ Fail(w)
    /\ UNCHANGED <<setVars, entryVars, target, promise, setter, shutdown, api, head>>

\* The plan installs some releases, or only upgrades some ("moved"); or it
\* finds something only live to correct ("drift"); or there is nothing to do.
\* record takes mu and writes only to the entry its name resolves to; a plan
\* that moves nothing clears the hold; then the gates that end a quiet pass.
Observe(w, installs, change) ==
    /\ pc[w] = "observe"
    /\ installs # {} => change = "moved"
    /\ LET e == EntryOf(w)
           acts == change # "settled" /\ (job[w].spec \notin Manual \/ w \in Syncs)
       IN /\ status' = IF Current(e)
                       THEN [status EXCEPT ![e] = [spec |-> job[w].spec, rev |-> job[w].rev]]
                       ELSE status
          /\ unstable' = IF Current(e) /\ change # "moved"
                         THEN [unstable EXCEPT ![e] = 0] ELSE unstable
          /\ job' = [job EXCEPT ![w] = Job(@.spec, @.rev, installs, TRUE)]
          /\ pc' = [pc EXCEPT ![w] = IF acts THEN "claim" ELSE "release"]
    /\ UNCHANGED <<setVars, name, cancelled, held, pending, wake, spec, failures,
                   target, promise, setter, shutdown, api, head>>

\* checkReproducible: an unforced pass is held at the commit that did not settle.
Held(w) == w \in Entries /\ Current(w) /\ unstable[w] = job[w].rev

\* Mutated: only the applications of the set are asked.
ContestedInSet(plan) ==
    \E f \in Entries : Current(f) /\ \E r \in plan, q \in installing[f] : <<r, q>> \in Collide

\* claimInstalls: a release of the plan collides with one being installed, by an
\* application of the set or by one that has left it and is still finishing.
Contested(plan) ==
    \E f \in Entries : \E r \in plan, q \in installing[f] : <<r, q>> \in Collide

ClaimInstalls(w) ==
    /\ pc[w] = "claim"
    /\ ~Held(w)
    /\ ~Contested(job[w].plan)
    /\ installing' = [installing EXCEPT ![EntryOf(w)] = job[w].plan]
    /\ pc' = [pc EXCEPT ![w] = "apply"]
    /\ UNCHANGED <<apps, retiring, root, entryVars, target, job, promise,
                   setter, shutdown, api, head>>

\* checkReproducible, checkCompat or claimInstalls refuses.
ClaimRefused(w) ==
    /\ pc[w] = "claim"
    /\ Fail(w)
    /\ UNCHANGED <<setVars, entryVars, target, promise, setter, shutdown, api, head>>

\* apply returns without error: the confirming plan found the application
\* settled, or still out of date, and setUnstable says which.
ApplyDone(w) ==
    /\ pc[w] = "apply"
    /\ unstable' = IF Current(EntryOf(w))
                   THEN [unstable EXCEPT ![EntryOf(w)] =
                           IF job[w].spec \in Flaky THEN job[w].rev ELSE 0]
                   ELSE unstable
    /\ pc' = [pc EXCEPT ![w] = "release"]
    /\ UNCHANGED <<setVars, name, cancelled, held, pending, wake, spec, failures, status,
                   target, job, promise, setter, shutdown, api, head>>

ApplyFails(w) ==
    /\ pc[w] = "apply"
    /\ Fail(w)
    /\ UNCHANGED <<setVars, entryVars, target, promise, setter, shutdown, api, head>>

\* The deferred calls, innermost first: the marks are cleared, the lease goes back.
ReleaseLease(w) ==
    /\ pc[w] = "release"
    /\ installing' = [installing EXCEPT ![EntryOf(w)] = {}]
    /\ held' = Freed(w)
    /\ IF w \in Entries
       THEN /\ pc' = [pc EXCEPT ![w] = "note"]
            /\ UNCHANGED <<target, job, promise>>
       ELSE /\ pc' = [pc EXCEPT ![w] = "idle"]
            /\ target' = [target EXCEPT ![w] = None]
            /\ job' = [job EXCEPT ![w] = NoJob]
            /\ promise' = [promise EXCEPT ![w] = 0]
    /\ UNCHANGED <<apps, retiring, root, name, cancelled, pending, wake, spec, unstable,
                   failures, status, setter, shutdown, api, head>>

\* Another failure in a row.
Counted(n) == IF n < MaxFailures THEN n + 1 ELSE n

\* noteFailure and the timer's Reset; a failure under a done context ends the
\* loop instead.  Past MaxFailures the count no longer changes the wait.
NoteFailure(e) ==
    /\ pc[e] = "note"
    /\ IF ~job[e].ok /\ e \in cancelled
       THEN /\ pc' = [pc EXCEPT ![e] = "exited"]
            /\ UNCHANGED failures
       ELSE /\ pc' = [pc EXCEPT ![e] = "select"]
            /\ failures' =
                 [failures EXCEPT ![e] =
                    CASE ~Current(e) -> @
                      [] Current(e) /\ job[e].ok -> 0
                      [] OTHER -> Counted(@)]
    /\ job' = [job EXCEPT ![e] = Job(@.spec, 0, {}, TRUE)]
    /\ UNCHANGED <<setVars, name, cancelled, held, pending, wake, spec, unstable, status,
                   target, promise, setter, shutdown, api, head>>
-----------------------------------------------------------------------------
(***************************************************************************)
(* Run and its drain, and the order the controller stops things in.        *)
(***************************************************************************)

\* Run, up to its wait: a loop for every application in the set.
Run ==
    /\ root = "nil"
    /\ root' = "live"
    /\ pc' = [w \in Workers |-> IF w \in Entries /\ Current(w) THEN "select" ELSE pc[w]]
    /\ UNCHANGED <<apps, retiring, installing, entryVars, target, job, promise,
                   setter, shutdown, api, head>>

\* The stop signal, and Shutdown closing the listener.
StopSignal ==
    /\ root = "live"
    /\ api = "open"
    /\ api' = "draining"
    /\ UNCHANGED <<setVars, entryVars, workVars, setter, shutdown, head>>

\* Shutdown saw every handler return.
ListenerDrained ==
    /\ api = "draining"
    /\ root = "live"
    /\ \A s \in Syncs : pc[s] # "lookup"
    /\ api' = "closed"
    /\ UNCHANGED <<setVars, entryVars, workVars, setter, shutdown, head>>

\* stopReconciling, once the listener is drained or shutdownTimeout has passed.
StopReconciling ==
    /\ root = "live"
    /\ api \in {"draining", "closed"}
    /\ root' = "done"
    /\ UNCHANGED <<apps, retiring, installing, entryVars, workVars, setter, shutdown, api, head>>

\* context.AfterFunc(root, e.cancel), registered while the loop runs.
LinkedCancel(e) ==
    /\ root = "done"
    /\ pc[e] \notin {"off", "exited"}
    /\ e \notin cancelled
    /\ cancelled' = cancelled \cup {e}
    /\ UNCHANGED <<setVars, name, held, pending, wake, spec, unstable, failures, status,
                   workVars, setter, shutdown, api, head>>

\* Mutated: the drain waits for the loops only.
DrainBeginLoops ==
    /\ root = "done"
    /\ shutdown.pc = "off"
    /\ shutdown' = Drain("wg", {}, "none")
    /\ UNCHANGED <<setVars, entryVars, workVars, setter, api, head>>

\* Run wakes and takes the entries of the set under mu; drain starts.
DrainBegin ==
    /\ root = "done"
    /\ shutdown.pc = "off"
    /\ shutdown' = Drain("wg", {e \in Entries : Current(e)}, "none")
    /\ UNCHANGED <<setVars, entryVars, workVars, setter, api, head>>

\* wg.Wait returns: every loop goroutine ever started has returned.
DrainLoops ==
    /\ shutdown.pc = "wg"
    /\ \A e \in Entries : pc[e] \in {"off", "exited"}
    /\ shutdown' = Drain("leases", shutdown.todo, shutdown.report)
    /\ UNCHANGED <<setVars, entryVars, workVars, setter, api, head>>

DrainTake(e) ==
    /\ shutdown.pc = "leases"
    /\ e \in shutdown.todo
    /\ ~Busy(e)
    /\ held' = [held EXCEPT ![e] = Drainer]
    /\ shutdown' = Drain("leases", shutdown.todo \ {e}, shutdown.report)
    /\ UNCHANGED <<setVars, name, cancelled, pending, wake, spec, unstable, failures, status,
                   workVars, setter, api, head>>

DrainStopped ==
    /\ shutdown.pc = "leases"
    /\ shutdown.todo = {}
    /\ shutdown' = Drain("stopped", {},
                          IF shutdown.report = "none" THEN "clean" ELSE shutdown.report)
    /\ UNCHANGED <<setVars, entryVars, workVars, setter, api, head>>

\* drainTimeout; the goroutine taking the leases is left where it is.
DrainTimeout ==
    /\ shutdown.pc \in {"wg", "leases"}
    /\ shutdown.report = "none"
    /\ shutdown' = Drain(shutdown.pc, shutdown.todo, "gave up")
    /\ UNCHANGED <<setVars, entryVars, workVars, setter, api, head>>

\* The environment: somebody pushes to the repository.
Push ==
    /\ head <= MaxHead
    /\ head' = head + 1
    /\ UNCHANGED <<setVars, entryVars, workVars, setter, shutdown, api>>

\* Run has returned: the process may end here.
Terminated == shutdown.report # "none" /\ UNCHANGED vars
-----------------------------------------------------------------------------
Changes == {"moved", "drift", "settled"}

SetStep ==
    \/ \E n \in Names : Replace(n) \/ RemoveBegin(n) \/ (\E e \in Entries : Add(n, e))
    \/ RemoveCancel \/ RemoveWaitDone \/ RemoveDrained \/ RemoveTimeout
    \/ Draining \/ SweepDone

Pass(w) ==
    \/ ReadSpec(w) \/ Fetch(w) \/ FetchFails(w)
    \/ \E installs \in SUBSET Releases, c \in Changes : Observe(w, installs, c)
    \/ ClaimInstalls(w) \/ ClaimRefused(w) \/ ApplyDone(w) \/ ApplyFails(w)
    \/ ReleaseLease(w)

Acquire(w) == TakeLease(w) \/ Abandon(w) \/ Recheck(w)

LoopStep(e) == Tick(e) \/ Woken(e) \/ LoopStop(e) \/ LoopRefused(e) \/ NoteFailure(e)

SyncStep(s) == Reserve(s) \/ Coalesce(s) \/ SyncStart(s) \/ Unpend(s) \/ SyncRefused(s)

ShutdownStep ==
    \/ Run \/ StopSignal \/ ListenerDrained \/ StopReconciling
    \/ DrainBegin \/ DrainLoops \/ DrainStopped \/ DrainTimeout
    \/ \E e \in Entries : LinkedCancel(e) \/ DrainTake(e)

Next ==
    \/ SetStep
    \/ \E n \in Names, s \in Syncs : AcceptSync(n, s)
    \/ ShutdownStep
    \/ \E w \in Workers : Acquire(w) \/ Pass(w)
    \/ \E e \in Entries : LoopStep(e)
    \/ \E s \in Syncs : SyncStep(s)
    \/ Push
    \/ Terminated

Spec == Init /\ [][Next]_vars
-----------------------------------------------------------------------------
(***************************************************************************)
(* Fairness.  A goroutine that can move does, and the two bounds on a wait *)
(* (removeDrain, drainTimeout) run out.  A lease that keeps coming free is *)
(* eventually got, because a Go channel serves its waiters in order.       *)
(* Nobody has to push, edit, ask for a sync or stop the controller, and no *)
(* reconcile timer has to fire: what only a timer would bring about is not *)
(* promised here.                                                          *)
(***************************************************************************)
ProcessFairness ==
    /\ WF_vars(Run)
    /\ WF_vars(RemoveCancel) /\ WF_vars(RemoveWaitDone) /\ WF_vars(SweepDone)
    /\ WF_vars(RemoveDrained \/ RemoveTimeout)
    /\ WF_vars(DrainBegin) /\ WF_vars(DrainTimeout)
    /\ \A w \in Workers :
         /\ SF_vars(TakeLease(w)) /\ WF_vars(Abandon(w)) /\ WF_vars(Recheck(w))
         /\ WF_vars(ReadSpec(w)) /\ WF_vars(ReleaseLease(w))
         /\ WF_vars(ClaimInstalls(w) \/ ClaimRefused(w))
    /\ \A e \in Entries :
         /\ WF_vars(Woken(e)) /\ WF_vars(NoteFailure(e))
         /\ WF_vars(LoopStop(e)) /\ WF_vars(LoopRefused(e)) /\ WF_vars(LinkedCancel(e))
    /\ \A s \in Syncs : WF_vars(SyncStep(s))

\* Fetches, renders and reads of the swarm run under the pass's context, so
\* they answer or are cancelled.
ReadFairness ==
    \A w \in Workers :
        /\ WF_vars(Fetch(w) \/ FetchFails(w))
        /\ WF_vars(\E installs \in SUBSET Releases, c \in Changes : Observe(w, installs, c))

\* A deploy takes no context: it ends only when the daemon answers.
DeployFairness == \A w \in Workers : WF_vars(ApplyDone(w) \/ ApplyFails(w))

FairSpec == Spec /\ ProcessFairness /\ ReadFairness /\ DeployFairness

\* The same with a daemon that may never answer a deploy.
StuckSpec == Spec /\ ProcessFairness /\ ReadFairness
-----------------------------------------------------------------------------
(***************************************************************************)
(* Properties.                                                             *)
(***************************************************************************)

\* appEntry.held: two goroutines are never inside one application's pass,
\* whoever started them, and what the lease says agrees with where they are.
LeaseExclusive ==
    \A w, x \in Workers :
        /\ pc[w] \in Holding => held[EntryOf(w)] = w
        /\ (pc[w] \in Holding /\ pc[x] \in Holding /\ EntryOf(w) = EntryOf(x)) => w = x

\* Remove and Draining: while the app-set loop sweeps departed applications'
\* resources, no goroutine is still inside a pass for one of them, so nothing
\* is deleted that somebody is still writing.
SweepMeetsNoWriter ==
    setter.pc = "sweep" => \A w \in Workers : Working(w) => Current(EntryOf(w))

\* claimInstalls: two applications are never installing releases whose names
\* Swarm cannot keep apart, retired entries still finishing included.
InstallsApart ==
    \A w, x \in Workers :
        (w # x /\ pc[w] = "apply" /\ pc[x] = "apply") =>
            \A r \in job[w].plan, q \in job[x].plan : <<r, q>> \notin Collide

\* AcceptSync: a request answered with "coalesced" is served by a sync that
\* reads the repository after the request, so a commit pushed before it is
\* never missed.
CoalescedSyncSeesPush ==
    \A s \in Syncs :
        pc[s] \in {"observe", "claim", "apply"} => job[s].rev >= promise[s]

StatusForward ==
    \A e \in Entries : status'[e].spec >= status[e].spec /\ status'[e].rev >= status[e].rev

\* reconcile reads the spec and the repository with the lease held: what an
\* application reports never goes back to an older spec or an older commit.
StatusAdvances == [][StatusForward]_status

\* Replace and loop: a loop is never left waiting on the schedule an older
\* spec earned; either it has read the spec in force or a poke is waiting.
EditNeverParked ==
    \A e \in Entries :
        (Current(e) /\ pc[e] = "select" /\ e \notin wake) => job[e].spec \in {0, spec[e]}

\* Run and drain: when the listener was drained first and the drain reports a
\* clean stop, no goroutine is inside a pass for an application in the set.
CleanDrainIsQuiet ==
    (shutdown.report = "clean" /\ api = "closed") =>
        \A w \in Workers : Working(w) => ~Current(EntryOf(w))

\* drain's comment: it "waits for every loop goroutine and every in-flight sync
\* to stop", those of applications that have left the set included, and also
\* when nobody is in the middle of removing one.
CleanDrainIsComplete ==
    (shutdown.report = "clean" /\ api = "closed" /\ setter.pc = "idle") =>
        \A w \in Workers : ~Working(w)

\* Replace's comment: what the old spec could not render reproducibly is not
\* held against the new one.
HoldBelongsToSpec ==
    \A e \in Entries : (Current(e) /\ unstable[e] # 0) => spec[e] \in Flaky

\* AcceptSync and acquire: every accepted sync comes to an end, run or refused,
\* unless the process is ending under it.
SyncAnswered ==
    \A s \in Syncs : pc[s] = "accepted" ~> (pc[s] = "idle" \/ shutdown.report # "none")

\* Remove: once the daemon has answered, the call that takes an application out
\* of the set returns, also into a shutdown.
RemoveReturns == setter.pc = "cancel" ~> setter.pc = "idle"

\* Remove's comment: "The wait is bounded, because cancellation does not reach
\* every daemon call"; the call returns whatever the daemon does.
RemoveIsBounded == setter.pc = "cancel" ~> (setter.pc = "idle" \/ root = "done")

\* Replace: an edit reaches a pass of the application's loop without any timer
\* firing, unless the application leaves the set or the controller stops.
EditPickedUp ==
    \A e \in Entries : \A v \in 2..MaxSpec :
        (Current(e) /\ spec[e] = v) ~>
            (~Current(e) \/ root = "done" \/ job[e].spec >= v)
=============================================================================
