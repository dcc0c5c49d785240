------------------------------- MODULE Deploy -------------------------------
(***************************************************************************)
(* The backend's writes: DeployStack from its guards to the last service,  *)
(* the record the chart engine stores after it, the deferred replacement   *)
(* of the controller's own service, and RemoveStack (backend.go,           *)
(* service.go, resource.go).                                               *)
(*                                                                         *)
(* Every step is one call to the daemon.  Several releases deploy side by  *)
(* side, and people create, delete, edit and restart things between any    *)
(* two calls.                                                              *)
(***************************************************************************)
EXTENDS Admission

CONSTANTS
    Services,            \* service names, which are unique on the swarm
    Runs,                \* release -> the services it declares
    Options,             \* release -> the manifests it may have
    Collide,             \* pairs of releases whose names collide, except ...
    SameRecord,          \* ... those that differ in case only, which come here too
    Controller,          \* the stack that the controller was deployed as
    ControllerService,   \* its service
    ControllerMounts,    \* what that mounts
    ControllerNetworks,  \* the networks that were deployed with it
    MaxConflictRetries,  \* maxConflictRetries
    MaxAtOnce,           \* bound: releases at work at the same time
    MaxMishaps           \* bound: failed calls, crashes, and creations, deletions
                         \* and restarts by hand

ASSUME DeployAssumption ==
    /\ Runs \in [Stacks -> SUBSET Services]
    /\ \A s \in Stacks : Options[s] \subseteq Charts
    /\ None \notin Services
    /\ SameRecord \subseteq Collide /\ Collide \subseteq Stacks \X Stacks
    /\ \A s, t \in Stacks :
          /\ <<s, t>> \in Collide => s # t /\ <<t, s>> \in Collide
          /\ <<s, t>> \in SameRecord => <<t, s>> \in SameRecord
    /\ Controller \in Stacks /\ Self \subseteq {Controller}
    /\ ControllerService \in Services
    /\ ControllerMounts \subseteq {n \in Names : Kind[n] # "network"}
    /\ ControllerNetworks \subseteq
          {n \in Names : Kind[n] = "network" /\ Controller \in Under[n]}
    /\ {MaxConflictRetries, MaxAtOnce, MaxMishaps} \subseteq Nat

VARIABLES
    chart,     \* release -> its manifest, fixed
    budget,    \* mishaps still to come
    \* the swarm
    holder,    \* name -> the stack whose label it carries, Nobody, or None
    svc,       \* service -> its stack (None: it does not run), whether the engine
               \* wrote it, and how often it was forced to restart
    records,   \* releases with records
    \* the backend
    mine,      \* selfMountCache: None, or what was read
    pc,        \* release -> where its deploy or removal is
    job        \* release -> its locals

swarm == <<holder, svc, records>>
vars == <<chart, budget, swarm, mine, pc, job>>

\* todo: names to create; live: networks listed; left, at, tries: the services to
\* write; seen, force: those that were listed, and their counts; fate: what became
\* of each since it was read; held: the own service is left for last; errs,
\* listed: of a removal.  touched, reported are history: services written by
\* others since they were listed, and those a conflict was reported for.
NoJob == [todo |-> {}, live |-> {}, left |-> {}, at |-> None, tries |-> 0,
          force |-> [v \in Services |-> 0], seen |-> {},
          fate |-> [v \in Services |-> "fresh"], held |-> FALSE, install |-> FALSE,
          errs |-> FALSE, listed |-> {}, touched |-> {}, reported |-> {}]

Jobs == [todo : SUBSET Names, live : SUBSET Names, left : SUBSET Services,
         at : Services \cup {None}, tries : 0 .. MaxConflictRetries,
         force : [Services -> Nat], seen : SUBSET Services,
         fate : [Services -> {"fresh", "changed", "gone"}], held : BOOLEAN,
         install : BOOLEAN, errs : BOOLEAN, listed : SUBSET (Services \cup Names),
         touched : SUBSET Services, reported : SUBSET Services]

Of(kinds) == {n \in Names : Kind[n] \in kinds}
Absent == [stack |-> None, engine |-> FALSE, force |-> 0]
Running(s) == {v \in Services : svc[v].stack = s}
Mishap == budget > 0 /\ budget' = budget - 1

\* A deploy or a removal returns.
Return(s) == pc' = [pc EXCEPT ![s] = "idle"] /\ job' = [job EXCEPT ![s] = NoJob]
Goes(s, to) == pc' = [pc EXCEPT ![s] = to]

Fails(s) ==
    /\ pc[s] # "idle" /\ Mishap /\ Return(s)
    /\ UNCHANGED <<chart, swarm, mine>>

-----------------------------------------------------------------------------
(* The guards of DeployStack *)

Actual == [namespace |-> Controller, mounted |-> ControllerMounts]

\* A release is deployed once at a time, and not beside the install of one whose
\* name collides (claimInstalls).
Idle == {s \in Stacks : pc[s] = "idle"}
MayBegin(s) == s \in Idle /\ Cardinality(Stacks \ Idle) < MaxAtOnce

\* Mutant: nothing marks an install under way.
BeginUnclaimed(s) ==
    /\ MayBegin(s)
    /\ Goes(s, "guard")
    /\ job' = [job EXCEPT ![s] = [NoJob EXCEPT !.install = s \notin records]]
    /\ UNCHANGED <<chart, budget, swarm, mine>>

Begin(s) ==
    /\ MayBegin(s)
    /\ s \notin records => \A t \in Stacks : <<s, t>> \in Collide => ~job[t].install
    /\ Goes(s, "guard")
    /\ job' = [job EXCEPT ![s] = [NoJob EXCEPT !.install = s \notin records]]
    /\ UNCHANGED <<chart, budget, swarm, mine>>

\* mounts: read once for the life of the process, and only kept if it could be.
LoadMounts ==
    /\ mine = None /\ \E s \in Stacks : pc[s] \in {"guard", "rmGuard"}
    /\ mine' = Actual
    /\ UNCHANGED <<chart, budget, swarm, pc, job>>

\* rejectSelfMismatch and rejectOwnNamespace.
NotTheControllers(s) ==
    IF s \in Self THEN mine.namespace = s ELSE mine.namespace # s

\* rejectRecordedCollision
Recordable(s) ==
    /\ \A t \in records : <<s, t>> \notin SameRecord
    /\ s \in records \cup Self \/ \A t \in records : <<s, t>> \notin Collide

Guard(s) ==
    /\ pc[s] = "guard" /\ mine # None
    /\ IF NotTheControllers(s) /\ Recordable(s)
       THEN Goes(s, "admit") /\ UNCHANGED job
       ELSE Return(s)
    /\ UNCHANGED <<chart, budget, swarm, mine>>

\* rejectForbiddenResources, and for its own release rejectSelfLoss.
Admit(s) ==
    /\ pc[s] = "admit"
    /\ IF /\ Admitted(mine, s, chart[s], holder, Allow[s])
          /\ s \in Self => ControllerService \in Runs[s]
       THEN Goes(s, "networks") /\ job' = [job EXCEPT ![s].todo = chart[s].declares]
       ELSE Return(s)
    /\ UNCHANGED <<chart, budget, swarm, mine>>

-----------------------------------------------------------------------------
(* The resources *)

\* applyNetworks lists the stack's once.
ListNetworks(s) ==
    /\ pc[s] = "networks" /\ Goes(s, "resources")
    /\ job' = [job EXCEPT ![s].live = {n \in Of({"network"}) : holder[n] = s}]
    /\ UNCHANGED <<chart, budget, swarm, mine>>

Done(s, n) == job' = [job EXCEPT ![s].todo = @ \ {n}]

\* A network that was listed is left alone, a missing one is created.
ApplyNetwork(s) ==
    \E n \in job[s].todo \cap Of({"network"}) :
        /\ pc[s] = "resources"
        /\ IF n \notin job[s].live /\ holder[n] # None
           THEN Return(s) /\ UNCHANGED holder
           ELSE /\ holder' = [holder EXCEPT ![n] = IF n \in job[s].live THEN @ ELSE s]
                /\ Done(s, n) /\ UNCHANGED pc
        /\ UNCHANGED <<chart, budget, svc, records, mine>>

\* Mutant: what the guards passed is adopted whoever holds it by now.
AdoptsAny(s, n) == TRUE

\* adoptable
Adoptable(s, n) == holder[n] = s \/ n \in Allow[s]

\* applySecrets, then applyConfigs.  The update carries the version that was
\* inspected, so that the two calls are as one.
ApplyResource(s) ==
    \E n \in job[s].todo \cap Of({"secret", "config"}) :
        /\ pc[s] = "resources"
        /\ job[s].todo \cap Of({"network"}) = {}
        /\ Kind[n] = "config" => job[s].todo \cap Of({"secret"}) = {}
        /\ IF holder[n] = None \/ Adoptable(s, n)
           THEN /\ holder' = [holder EXCEPT ![n] = s]
                /\ Done(s, n) /\ UNCHANGED pc
           ELSE Return(s) /\ UNCHANGED holder
        /\ UNCHANGED <<chart, budget, svc, records, mine>>

\* Convert once more: every config and secret its services refer to must exist.
Resolve(s) ==
    /\ pc[s] = "resources" /\ job[s].todo \subseteq Of({"volume"})
    /\ IF \E n \in Refs(chart[s]) \cap Of({"secret", "config"}) : holder[n] = None
       THEN Return(s)
       ELSE Goes(s, "services") /\ UNCHANGED job
    /\ UNCHANGED <<chart, budget, swarm, mine>>

-----------------------------------------------------------------------------
(* The services *)

\* ApplyServices lists the stack's services; rejectForeignNamespace refuses a
\* stack that the engine has no record of.
ListServices(s) ==
    /\ pc[s] = "services"
    /\ IF Running(s) # {} /\ s \notin Self \cup records
       THEN Return(s)
       ELSE /\ Goes(s, "write")
            /\ job' = [job EXCEPT ![s].left = Runs[s], ![s].seen = Running(s),
                                  ![s].force = [v \in Services |-> svc[v].force]]
    /\ UNCHANGED <<chart, budget, swarm, mine>>

\* What others make of a service that a deploy has listed: they change it, or it
\* is gone, and what is created in its place is another service.
Met(v, fate) ==
    [t \in Stacks |-> IF v \notin job[t].seen THEN job[t]
                      ELSE [job[t] EXCEPT !.touched = @ \cup {v},
                                          !.fate[v] = IF @ = "gone" THEN @ ELSE fate]]

\* A release's own write is none of the changes its deploy has to mind.
Write(s, v, force) ==
    /\ svc' = [svc EXCEPT ![v] = [stack |-> s, engine |-> TRUE, force |-> force]]
    /\ job' = [Met(v, "changed") EXCEPT ![s] = [job[s] EXCEPT !.left = @ \ {v},
                                                              !.at = None, !.tries = 0]]

Create(s) ==
    \E v \in job[s].left \ job[s].seen :
        /\ pc[s] = "write" /\ job[s].at = None
        /\ IF svc[v].stack = None
           THEN Write(s, v, 0) /\ UNCHANGED pc
           ELSE Return(s) /\ UNCHANGED svc
        /\ UNCHANGED <<chart, budget, holder, records, mine>>

\* deferSelf, for the self release.
Defer(s) ==
    /\ pc[s] = "write" /\ s \in Self /\ job[s].at = None
    /\ ControllerService \in job[s].left \cap job[s].seen
    /\ job' = [job EXCEPT ![s].left = @ \ {ControllerService}, ![s].held = TRUE]
    /\ UNCHANGED <<chart, budget, swarm, mine, pc>>

\* updateService begins.
Pick(s) ==
    \E v \in job[s].left \cap job[s].seen :
        /\ pc[s] = "write" /\ job[s].at = None
        /\ s \in Self => v # ControllerService
        /\ job' = [job EXCEPT ![s].at = v]
        /\ UNCHANGED <<chart, budget, swarm, mine, pc>>

\* prepareUpdate keeps the count of forced restarts that was read.
Update(s) ==
    LET v == job[s].at IN
    /\ pc[s] \in {"write", "self"} /\ v # None
    /\ job[s].fate[v] = "fresh"
    /\ job[s].tries < MaxConflictRetries
    /\ Write(s, v, job[s].force[v])
    /\ UNCHANGED <<chart, budget, holder, records, mine, pc>>

\* What inspecting the service again tells a deploy.
Reread(s, v) == [job[s] EXCEPT !.force[v] = svc[v].force, !.fate[v] = "fresh"]

\* Mutant: nobody hears of it.
ConflictSilent(s) ==
    LET v == job[s].at IN
    /\ pc[s] \in {"write", "self"} /\ v # None
    /\ job[s].fate[v] = "changed"
    /\ job[s].tries < MaxConflictRetries
    /\ job' = [job EXCEPT ![s] = [Reread(s, v) EXCEPT !.tries = @ + 1]]
    /\ UNCHANGED <<chart, budget, holder, svc, records, mine, pc>>

\* Mutant: it is tried again for ever.
ConflictUncounted(s) ==
    LET v == job[s].at IN
    /\ pc[s] \in {"write", "self"} /\ v # None
    /\ job[s].fate[v] = "changed"
    /\ job[s].tries < MaxConflictRetries
    /\ job' = [job EXCEPT ![s] = [Reread(s, v) EXCEPT !.tries = @,
                                                      !.reported = @ \cup {v}]]
    /\ UNCHANGED <<chart, budget, holder, svc, records, mine, pc>>

\* The update is refused for the version: it is reported, and read again.
Conflict(s) ==
    LET v == job[s].at IN
    /\ pc[s] \in {"write", "self"} /\ v # None
    /\ job[s].fate[v] = "changed"
    /\ job[s].tries < MaxConflictRetries
    /\ job' = [job EXCEPT ![s] = [Reread(s, v) EXCEPT !.tries = @ + 1,
                                                      !.reported = @ \cup {v}]]
    /\ UNCHANGED <<chart, budget, holder, svc, records, mine, pc>>

\* Too many conflicts, or the service has gone.
GiveUp(s) ==
    LET v == job[s].at IN
    /\ pc[s] \in {"write", "self"} /\ v # None
    /\ job[s].fate[v] = "gone" \/ job[s].tries >= MaxConflictRetries
    /\ Return(s)
    /\ UNCHANGED <<chart, budget, swarm, mine>>

\* DeployStack returns, and the engine stores the record.
Record(s) ==
    /\ pc[s] = "write" /\ job[s].left = {}
    /\ records' = records \cup {s}
    /\ IF job[s].held THEN Goes(s, "selfRead") /\ UNCHANGED job ELSE Return(s)
    /\ UNCHANGED <<chart, budget, holder, svc, mine>>

\* The apply that deferSelf handed back: the service is read again first.
RereadSelf(s) ==
    LET v == ControllerService IN
    /\ pc[s] = "selfRead"
    /\ IF job[s].fate[v] = "gone" THEN Return(s)
       ELSE /\ job' = [job EXCEPT ![s] = [Reread(s, v) EXCEPT !.at = v, !.tries = 0,
                                            !.touched = @ \ {v}, !.left = {v}]]
            /\ Goes(s, "self")
    /\ UNCHANGED <<chart, budget, swarm, mine>>

SelfReplaced(s) ==
    /\ pc[s] = "self" /\ job[s].at = None /\ Return(s)
    /\ UNCHANGED <<chart, budget, swarm, mine>>

-----------------------------------------------------------------------------
(* RemoveStack *)

BeginRemoval(s) ==
    /\ MayBegin(s) /\ s \in records
    /\ Goes(s, "rmGuard")
    /\ UNCHANGED <<chart, budget, swarm, mine, job>>

GuardRemoval(s) ==
    /\ pc[s] = "rmGuard" /\ mine # None
    /\ IF mine.namespace = s THEN Return(s)
       ELSE /\ Goes(s, "rmServices")
            /\ job' = [job EXCEPT ![s].listed = Running(s)]
    /\ UNCHANGED <<chart, budget, swarm, mine>>

\* A service that was listed is removed, or fails to be.
RemoveService(s) ==
    \E v \in job[s].listed :
        /\ pc[s] = "rmServices"
        /\ \/ /\ svc' = [svc EXCEPT ![v] = IF @.stack = s THEN Absent ELSE @]
              /\ job' = [Met(v, "gone") EXCEPT ![s].listed = @ \ {v}] /\ UNCHANGED budget
           \/ /\ Mishap /\ UNCHANGED svc
              /\ job' = [job EXCEPT ![s].listed = @ \ {v}, ![s].errs = TRUE]
        /\ UNCHANGED <<chart, holder, records, mine, pc>>

\* Its configs but the records, its secrets and its networks.
ListResources(s) ==
    /\ pc[s] = "rmServices" /\ job[s].listed = {}
    /\ Goes(s, "rmRest")
    /\ job' = [job EXCEPT ![s].listed =
                 {n \in Of({"config", "secret", "network"}) : holder[n] = s}]
    /\ UNCHANGED <<chart, budget, swarm, mine>>

InUse(n) == \E t \in Stacks : n \in Refs(chart[t]) /\ Running(t) # {}

\* A removal under way has n in its list.
Listing(n) == {t \in Stacks : pc[t] = "rmRest" /\ n \in job[t].listed}

\* Removals go by id: one that has listed what somebody else deletes finds nothing,
\* and for a network may take that answer for a failure.
Deleted(n, others) ==
    /\ holder' = [holder EXCEPT ![n] = None]
    /\ \E failed \in SUBSET {t \in others : Kind[n] = "network"} :
          job' = [t \in Stacks |->
                    IF t \in Listing(n)
                    THEN [job[t] EXCEPT !.listed = @ \ {n}, !.errs = @ \/ t \in failed]
                    ELSE job[t]]

RemoveResource(s) ==
    \E n \in job[s].listed :
        /\ pc[s] = "rmRest"
        /\ \/ ~InUse(n) /\ Deleted(n, Listing(n) \ {s}) /\ UNCHANGED budget
           \/ /\ IF InUse(n) THEN UNCHANGED budget ELSE Mishap
              /\ UNCHANGED holder
              /\ job' = [job EXCEPT ![s].listed = @ \ {n}, ![s].errs = TRUE]
        /\ UNCHANGED <<chart, svc, records, mine, pc>>

\* stackRemains: a failure only counts while something of the stack is left.
Remains(s) == Running(s) # {} \/ \E n \in Of({"config", "secret", "network"}) : holder[n] = s

\* Mutant: what failed is taken to be gone.
EndRemovalHasty(s) ==
    /\ pc[s] = "rmRest" /\ job[s].listed = {}
    /\ IF FALSE
       THEN Return(s) /\ UNCHANGED records
       ELSE Return(s) /\ records' = records \ {s}
    /\ UNCHANGED <<chart, budget, holder, svc, mine>>

EndRemoval(s) ==
    /\ pc[s] = "rmRest" /\ job[s].listed = {}
    /\ IF job[s].errs /\ Remains(s)
       THEN Return(s) /\ UNCHANGED records
       ELSE Return(s) /\ records' = records \ {s}
    /\ UNCHANGED <<chart, budget, holder, svc, mine>>

-----------------------------------------------------------------------------
(* What people do to the swarm; none of it to the controller itself *)

Removing(s) == pc[s] \in {"rmGuard", "rmServices", "rmRest"}

HandCreate ==
    \E n \in Names, by \in {Nobody} \cup Stacks :
        /\ Mishap /\ holder[n] = None
        /\ by \in Stacks => ~Removing(by)
        /\ holder' = [holder EXCEPT ![n] = by]
        /\ UNCHANGED <<chart, svc, records, mine, pc, job>>

HandDelete ==
    \E n \in Names \ ControllerMounts :
        /\ Mishap /\ holder[n] \notin {None, Controller} /\ ~InUse(n)
        /\ Deleted(n, Listing(n))
        /\ UNCHANGED <<chart, svc, records, mine, pc>>

\* docker stack deploy
HandRun ==
    \E s \in Stacks, v \in Services :
        /\ Mishap /\ svc[v].stack = None /\ ~Removing(s)
        /\ svc' = [svc EXCEPT ![v] = [Absent EXCEPT !.stack = s]]
        /\ UNCHANGED <<chart, holder, records, mine, pc, job>>

HandRemoveService ==
    \E v \in Services \ {ControllerService} :
        /\ Mishap /\ svc[v].stack # None
        /\ svc' = [svc EXCEPT ![v] = Absent] /\ job' = Met(v, "gone")
        /\ UNCHANGED <<chart, holder, records, mine, pc>>

\* docker service update --force, which adds one to the count.
HandRestart ==
    \E v \in Services :
        /\ Mishap /\ svc[v].stack # None
        /\ svc' = [svc EXCEPT ![v].force = @ + 1]
        /\ job' = Met(v, "changed")
        /\ UNCHANGED <<chart, holder, records, mine, pc>>

\* Any other docker service update, as often as people like.
HandEdit ==
    \E v \in Services :
        /\ svc[v].stack # None
        /\ job' = Met(v, "changed")
        /\ UNCHANGED <<chart, budget, holder, svc, records, mine, pc>>

\* The process dies, and a new one has read nothing.
Restart ==
    /\ Mishap /\ mine' = None
    /\ pc' = [s \in Stacks |-> "idle"] /\ job' = [s \in Stacks |-> NoJob]
    /\ UNCHANGED <<chart, swarm>>

-----------------------------------------------------------------------------
\* The controller runs as a stack somebody deployed, which may be on record.
Init ==
    /\ chart \in {c \in [Stacks -> UNION {Options[s] : s \in Stacks}] :
                    \A s \in Stacks : c[s] \in Options[s]}
    /\ budget = MaxMishaps
    /\ holder = [n \in Names |-> IF n \in ControllerMounts THEN Nobody
                                ELSE IF n \in ControllerNetworks THEN Controller ELSE None]
    /\ svc = [v \in Services |-> IF v = ControllerService
                                 THEN [Absent EXCEPT !.stack = Controller] ELSE Absent]
    /\ records \in {{}, Self}
    /\ mine = None
    /\ pc = [s \in Stacks |-> "idle"] /\ job = [s \in Stacks |-> NoJob]

\* The next step of a deploy or a removal that is under way.
Proceeds(s) ==
    \/ Guard(s) \/ Admit(s)
    \/ ListNetworks(s) \/ ApplyNetwork(s) \/ ApplyResource(s) \/ Resolve(s)
    \/ ListServices(s) \/ Create(s) \/ Defer(s) \/ Pick(s)
    \/ Update(s) \/ Conflict(s) \/ GiveUp(s)
    \/ Record(s) \/ RereadSelf(s) \/ SelfReplaced(s)
    \/ GuardRemoval(s) \/ RemoveService(s) \/ ListResources(s) \/ RemoveResource(s)
    \/ EndRemoval(s)

Hands ==
    HandCreate \/ HandDelete \/ HandRun \/ HandRemoveService \/ HandRestart \/ HandEdit

Next ==
    \/ LoadMounts \/ Hands \/ Restart
    \/ \E s \in Stacks : Begin(s) \/ BeginRemoval(s) \/ Proceeds(s) \/ Fails(s)

Spec == Init /\ [][Next]_vars

\* The daemon answers.
FairSpec ==
    /\ Spec /\ WF_vars(LoadMounts)
    /\ \A s \in Stacks : WF_vars(Proceeds(s))

TypeOK ==
    /\ chart \in [Stacks -> Charts] /\ budget \in 0 .. MaxMishaps
    /\ holder \in [Names -> Stacks \cup {None, Nobody}]
    /\ svc \in [Services -> [stack : Stacks \cup {None}, engine : BOOLEAN, force : Nat]]
    /\ records \subseteq Stacks
    /\ mine \in {None, Actual}
    /\ pc \in [Stacks -> {"idle", "guard", "admit", "networks", "resources", "services",
                          "write", "selfRead", "self", "rmGuard", "rmServices", "rmRest"}]
    /\ job \in [Stacks -> Jobs]

-----------------------------------------------------------------------------
(* Properties *)

\* What the startup audit says an application lacks for a name -- declared or
\* external, of a driver or not, whoever holds it -- is enough: with it in the
\* allowlist, the name is refused only where no allowlist could grant it.
AuditSuffices ==
    \A s \in Stacks, n \in Names, declared \in BOOLEAN :
    \A driven \in {FALSE, Kind[n] = "volume"} :
        LET c == [declares |-> IF declared THEN {n} ELSE {},
                  external |-> IF declared THEN {} ELSE {n},
                  driven |-> IF driven THEN {n} ELSE {}]
            allow == Allow[s] \cup Need(Actual, s, c, holder, Allow[s])
        IN Ungranted(Actual, s, c, holder, allow, n) => Forbidden(Actual, s, c, holder, n)

\* No two releases are on record whose names Swarm could not keep apart, in
\* whatever order they were installed, removed and installed again; the
\* controller's own, which is there first, is exempt.
RecordsApart ==
    \A s, t \in records : <<s, t>> \in Collide =>
        <<s, t>> \notin SameRecord /\ (s \in Self \/ t \in Self)

\* A release takes over nothing of another stack, and nothing that has no stack,
\* unless its application permits the name -- also when the name was free as the
\* deploy was admitted and taken since.  No service changes its stack.
NoTakeover ==
    [][/\ \A n \in Names : holder'[n] \notin {holder[n], None} =>
             holder[n] = None \/ n \in Allow[holder'[n]]
       /\ \A v \in Services : svc[v].stack # None => svc'[v].stack \in {svc[v].stack, None}]_vars

\* A service that somebody deployed by hand is overwritten only where the release
\* is on record, or is the controller's own.
HandMadeSpared ==
    [][\A v \in Services :
          svc[v].stack # None /\ ~svc[v].engine /\ svc'[v].engine =>
              svc'[v].stack \in records \cup Self]_vars

\* No deploy takes back a restart that somebody forced, not even one that came
\* between its read of the service and its write.
RestartsKept ==
    [][\A v \in Services : {svc[v].stack, svc'[v].stack} \cap {None} = {} =>
          svc'[v].force >= svc[v].force]_vars

\* A deploy that overwrites what somebody wrote while it ran has reported it; the
\* controller's own service, which is read anew before it is replaced, apart.
EditsReported ==
    [][\A s \in Stacks, v \in Services : Update(s) /\ v = job[s].at =>
          v \notin job[s].touched \ job[s].reported]_vars

\* No release but the controller's own, marked as such, ever changes the files
\* that are mounted into it, the networks of its stack, or its service; a network
\* under its name that was made by hand with a release's label goes with the release.
ControllerSpared ==
    [][\A s \in Stacks \ Self : Proceeds(s) =>
          /\ \A n \in ControllerMounts \cup
                       {m \in Of({"network"}) : Controller \in Under[m] /\ holder[m] # s} :
                holder'[n] = holder[n]
          /\ svc'[ControllerService] = svc[ControllerService]]_vars

\* A removal that says it is done has left nothing, whatever failed on the way.
RemovedIsGone ==
    [][\A s \in records \ records' : ~Remains(s)]_vars

\* Every deploy and removal ends, also while people keep editing the services it
\* writes.
DeployEnds == \A s \in Stacks : pc[s] # "idle" ~> pc[s] = "idle"

\* The types, an audit that misses nothing, and releases Swarm can tell apart.
DeployInv == TypeOK /\ AuditSuffices /\ RecordsApart

\* A deploy takes over nothing: not another stack's names or services, not what was
\* made by hand, not what the controller itself runs on.
NothingTaken == NoTakeover /\ HandMadeSpared /\ ControllerSpared

\* What people do to a service while a deploy writes it is kept or reported.
HandsKept == RestartsKept /\ EditsReported
=============================================================================
