--------------------------- MODULE ResourceSweep ----------------------------
(***************************************************************************)
(* syncPolicy.pruneResources for one release: what observe finds that the  *)
(* release's chart used to declare and no longer does, and what            *)
(* pruneServices and pruneResources then delete of it, one call at a time  *)
(* (reconcile.go: observe, departed, claimed, inUse, pruneServices,        *)
(* pruneResources).                                                        *)
(*                                                                         *)
(* Between the read and the deletions lies a whole apply, and the swarm is *)
(* everybody's: services are rolled back by Swarm, things are removed and  *)
(* created again by hand, reads fail, and a resource something else holds  *)
(* cannot be deleted.                                                      *)
(***************************************************************************)
EXTENDS Naturals, FiniteSets, Sequences, SequencesExt

CONSTANTS
    Services, Resources,   \* names; a resource is a config, a secret or a network
    Networks,              \* the resources that are networks, held by what they attach
    Charts,                \* what the release may declare: sets of names
    MaxPruneAttempts,      \* maxPruneAttempts
    MaxCommits,            \* bound: charts deployed after the first
    MaxHands,              \* bound: edits by hand, rollbacks, holds
    MaxFaults,             \* bound: failed reads, failed calls, restarts
    Retention              \* revisions kept

Names == Services \cup Resources

ASSUME SweepAssumption ==
    /\ Services \cap Resources = {} /\ IsFiniteSet(Names)
    /\ Networks \subseteq Resources /\ Charts \subseteq SUBSET Names
    /\ {MaxPruneAttempts, Retention} \subseteq Nat \ {0}
    /\ {MaxCommits, MaxHands, MaxFaults} \subseteq Nat

VARIABLES
    chart,      \* what the newest commit declares
    budget,     \* commits, hands and faults still to come
    \* the swarm
    live,       \* name -> the identity of what runs under it, 0 nothing
    fresh,      \* the identity the next thing created gets
    spec,       \* service -> the configs and secrets its spec refers to
    previous,   \* service -> those its PreviousSpec refers to
    held,       \* resources something outside the release uses
    history,    \* the release's revisions, oldest first: what each declared,
                \* and whether this application stored it
    \* appEntry
    failures,   \* pruneFailures: resource -> failed attempts, 0 none
    \* the pass
    pc,
    pass        \* what it plans, and what it found to delete

swarm == <<live, fresh, spec, previous, held, history>>
vars == <<chart, budget, swarm, failures, pc, pass>>

NoPass == [chart |-> {}, services |-> {}, resources |-> {}]
Zero == [n \in Resources |-> 0]
Live(set) == {n \in set : live[n] # 0}

\* What the release's own tasks refer to; networks are not tracked by inUse.
Refers(names) == names \cap (Resources \ Networks)
Latest == Last(history).declares

-----------------------------------------------------------------------------
(* What observe finds *)

InUseNow == UNION {spec[s] : s \in Live(Services)}

\* Undeclared, and not referred to by a running service now or before its last
\* update: Swarm may still roll it back.
InUse == UNION {spec[s] \cup previous[s] : s \in Live(Services)}
Candidates(declared) ==
    (Live(Services) \ declared) \cup ((Live(Resources) \ declared) \ InUse)

\* claimed: those that a revision this application stored declared.
OwnRevisions == {i \in DOMAIN history : history[i].own}
Claimed(candidates) == candidates \cap UNION {history[i].declares : i \in OwnRevisions}

\* set.add: a resource that has failed too often is retained.
Retained(found) == {n \in found \cap Resources : failures[n] >= MaxPruneAttempts}

KeptNever(found) == Zero

\* recordPruneFailures at the end of departed: only what was found keeps its count.
Kept(found) == [n \in Resources |-> IF n \in found THEN failures[n] ELSE 0]

\* The three reads, any of which can fail: the services and the manifest, the
\* resources, the history.
Found(declared, outcome) ==
    CASE outcome = "all"       -> Claimed(Candidates(declared))
      [] outcome = "services"  -> Claimed(Candidates(declared)) \cap Services
      [] outcome = "nothing"   -> {}

ObserveAt(declared, outcome) ==
    LET found == Found(declared, outcome) IN
    /\ failures' = Kept(found)
    /\ pass' = [chart     |-> declared,
                services  |-> {<<n, live[n]>> : n \in found \cap Services},
                resources |-> {<<n, live[n]>> : n \in (found \cap Resources) \ Retained(found)}]

Fault == budget.faults > 0 /\ budget' = [budget EXCEPT !.faults = @ - 1]
Hand == budget.hands > 0 /\ budget' = [budget EXCEPT !.hands = @ - 1]

\* The first half of a pass.  It goes on to an apply when the chart moved or
\* something is to be deleted (actionable).
Observe ==
    /\ pc = "idle"
    /\ \/ ObserveAt(chart, "all") /\ UNCHANGED budget
       \/ Fault /\ \E outcome \in {"services", "nothing"} : ObserveAt(chart, outcome)
    /\ pc' = IF chart # Latest \/ pass'.services \cup pass'.resources # {}
             THEN "apply" ELSE "idle"
    /\ UNCHANGED <<chart, swarm>>

\* Engine.Apply, if the chart moved: the missing resources and services are
\* created, every service it declares is updated, the revision is stored.
Apply ==
    /\ pc = "apply"
    /\ pc' = "services"
    /\ IF pass.chart = Latest THEN UNCHANGED swarm
       ELSE /\ live' = [n \in Names |-> IF n \in pass.chart /\ live[n] = 0 THEN fresh ELSE live[n]]
            /\ fresh' = IF live' = live THEN fresh ELSE fresh + 1
            /\ spec' = [s \in Services |->
                          IF s \in pass.chart THEN Refers(pass.chart) ELSE spec[s]]
            /\ previous' = [s \in Services |->
                          IF s \notin pass.chart THEN previous[s]
                          ELSE IF live[s] # 0 THEN spec[s] ELSE {}]
            /\ history' = LET h == Append(history, [declares |-> pass.chart, own |-> TRUE])
                          IN  IF Len(h) > Retention THEN Tail(h) ELSE h
            /\ UNCHANGED held
    /\ UNCHANGED <<chart, budget, failures, pass>>

\* A failed apply ends the pass: nothing is swept.
ApplyFails ==
    /\ pc = "apply" /\ Fault
    /\ pc' = "idle" /\ pass' = NoPass
    /\ UNCHANGED <<chart, swarm, failures>>

\* The daemon deletes by identity, and not what a service's spec refers to, what
\* something attached to it holds, or what has gone.
Deletable(thing) ==
    /\ live[thing[1]] = thing[2]
    /\ thing[1] \notin held
    /\ \A s \in Live(Services) : thing[1] \notin spec[s]

Gone(n) ==
    /\ live' = [live EXCEPT ![n] = 0]
    /\ UNCHANGED <<fresh, spec, previous, held, history>>

PruneServiceByName ==
    \E thing \in pass.services :
        /\ pc = "services"
        /\ pass' = [pass EXCEPT !.services = @ \ {thing}]
        /\ Gone(thing[1])
        /\ UNCHANGED <<chart, budget, failures, pc>>

\* pruneServices: RemoveService by id.  One failure does not stop the others.
PruneService ==
    \E thing \in pass.services :
        /\ pc = "services"
        /\ pass' = [pass EXCEPT !.services = @ \ {thing}]
        /\ \/ IF live[thing[1]] = thing[2] THEN Gone(thing[1]) /\ UNCHANGED budget
              ELSE UNCHANGED <<swarm, budget>>
           \/ Fault /\ UNCHANGED swarm
        /\ UNCHANGED <<chart, failures, pc>>

ServicesEnd ==
    /\ pc = "services" /\ pass.services = {}
    /\ pc' = "resources"
    /\ UNCHANGED <<chart, budget, swarm, failures, pass>>

\* pruneResources: one deletion, which succeeds or is counted.
PruneResource ==
    \E thing \in pass.resources :
        LET n == thing[1] IN
        /\ pc = "resources"
        /\ pass' = [pass EXCEPT !.resources = @ \ {thing}]
        /\ \/ /\ Deletable(thing) /\ Gone(n) /\ UNCHANGED budget
              /\ failures' = [failures EXCEPT ![n] = 0]
           \/ /\ IF Deletable(thing) THEN Fault ELSE UNCHANGED budget
              /\ UNCHANGED swarm
              /\ failures' = [failures EXCEPT ![n] = @ + 1]
        /\ UNCHANGED <<chart, pc>>

\* The re-observation that is recorded with the result.  What it finds is only
\* reported.
Confirm ==
    /\ pc = "resources" /\ pass.resources = {}
    /\ pc' = "idle"
    /\ failures' = Kept(Found(pass.chart, "all"))
    /\ pass' = NoPass
    /\ UNCHANGED <<chart, budget, swarm>>

-----------------------------------------------------------------------------
(* Around the pass *)

Commit ==
    /\ budget.commits > 0
    /\ budget' = [budget EXCEPT !.commits = @ - 1]
    /\ chart' \in Charts \ {chart}
    /\ UNCHANGED <<swarm, failures, pc, pass>>

\* Swarm rolls a service back to its previous spec.
RollBack ==
    \E s \in Live(Services) :
        /\ Hand /\ spec[s] # previous[s] /\ previous[s] # {}
        /\ spec' = [spec EXCEPT ![s] = previous[s]]
        /\ previous' = [previous EXCEPT ![s] = spec[s]]
        /\ UNCHANGED <<chart, live, fresh, held, history, failures, pc, pass>>

\* Somebody deletes a thing and creates another of its name.
Recreate ==
    \E n \in Live(Names) :
        /\ Hand /\ \A s \in Live(Services) : n \notin spec[s]
        /\ live' = [live EXCEPT ![n] = fresh] /\ fresh' = fresh + 1
        /\ UNCHANGED <<chart, spec, previous, held, history, failures, pc, pass>>

\* Something outside the release begins or ceases to use a resource.
Hold ==
    \E n \in Live(Resources) :
        /\ \/ Hand /\ n \notin held /\ held' = held \cup {n}
           \/ Hand /\ n \in held /\ held' = held \ {n}
        /\ UNCHANGED <<chart, live, fresh, spec, previous, history, failures, pc, pass>>

\* Another application deploys the same release and stores a revision; not while
\* this one's pass is under way, when only the daemon guards what it refers to.
Intrude ==
    \E other \in Charts :
        /\ Hand /\ pc = "idle"
        /\ history' = LET h == Append(history, [declares |-> other, own |-> FALSE])
                      IN  IF Len(h) > Retention THEN Tail(h) ELSE h
        /\ live' = [n \in Names |-> IF n \in other /\ live[n] = 0 THEN fresh ELSE live[n]]
        /\ fresh' = IF live' = live THEN fresh ELSE fresh + 1
        /\ spec' = [s \in Services |-> IF s \in other THEN Refers(other) ELSE spec[s]]
        /\ previous' = [s \in Services |->
                          IF s \notin other THEN previous[s]
                          ELSE IF live[s] # 0 THEN spec[s] ELSE {}]
        /\ UNCHANGED <<chart, held, failures, pc, pass>>

\* The process stops and starts: the counts are in memory only.
Restart ==
    /\ Fault /\ pc' = "idle" /\ pass' = NoPass
    /\ failures' = Zero
    /\ UNCHANGED <<chart, swarm>>

Init ==
    /\ chart \in Charts
    /\ budget = [commits |-> MaxCommits, hands |-> MaxHands, faults |-> MaxFaults]
    /\ live = [n \in Names |-> IF n \in chart THEN 1 ELSE 0] /\ fresh = 2
    /\ spec = [s \in Services |-> IF s \in chart THEN Refers(chart) ELSE {}]
    /\ previous = [s \in Services |-> {}] /\ held = {}
    /\ history = <<[declares |-> chart, own |-> TRUE]>>
    /\ failures = Zero /\ pc = "idle" /\ pass = NoPass

Sweep == Observe \/ Apply \/ PruneService \/ ServicesEnd \/ PruneResource \/ Confirm
Next ==
    \/ Sweep \/ ApplyFails
    \/ Commit \/ RollBack \/ Recreate \/ Hold \/ Intrude \/ Restart

Spec == Init /\ [][Next]_vars
FairSpec == Spec /\ WF_vars(Sweep)

-----------------------------------------------------------------------------
(* Properties *)

TypeOK ==
    /\ chart \in Charts
    /\ budget \in [commits: 0..MaxCommits, hands: 0..MaxHands, faults: 0..MaxFaults]
    /\ live \in [Names -> 0..fresh - 1] /\ fresh \in Nat
    /\ spec \in [Services -> SUBSET Resources] /\ previous \in [Services -> SUBSET Resources]
    /\ held \subseteq Resources
    /\ history \in Seq([declares: SUBSET Names, own: BOOLEAN])
    /\ failures \in [Resources -> Nat]
    /\ pc \in {"idle", "apply", "services", "resources"}
    /\ pass \in [chart: SUBSET Names, services: SUBSET (Services \X Nat),
                resources: SUBSET (Resources \X Nat)]

\* The sweep deletes nothing that was created after it looked: a name deleted
\* and created again by hand is not what was found.
DeletesWhatItSaw ==
    [][\A n \in Names : live[n] # 0 /\ live'[n] = 0 =>
         <<n, live[n]>> \in pass.services \cup pass.resources]_vars

\* The sweep deletes nothing that the chart just applied declares.
SparesDeclared ==
    [][\A n \in Names : live[n] # 0 /\ live'[n] = 0 => n \notin pass.chart]_vars

\* Whatever Swarm may roll a service back to is still there.
RollbackPossible ==
    \A s \in Live(Services) : \A n \in spec[s] \cup previous[s] : live[n] # 0

\* A resource is given up after MaxPruneAttempts failures, of which a failed read,
\* a restart and a re-declaration start the count over.
AttemptsBounded == \A n \in Resources : failures[n] <= MaxPruneAttempts

\* What cannot be deleted does not keep the application syncing for ever.
GivesUp == <>[](pc = "idle")

\* A service the release no longer declares goes in the end, if this
\* application's records still say it declared it.
ServicesGo == <>[](Claimed(Live(Services) \ chart) = {})

\* The types, a rollback that finds its resources, and a bounded number of tries.
SweepInv == TypeOK /\ RollbackPossible /\ AttemptsBounded

\* The sweep deletes what it found, and nothing that the chart needs.
DeletesOnlyFound == DeletesWhatItSaw /\ SparesDeclared

\* The sweep comes to an end, and by then the undeclared services are gone.
SweepSettles == GivesUp /\ ServicesGo
=============================================================================
