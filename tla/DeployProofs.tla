---------------------------- MODULE DeployProofs -----------------------------
(***************************************************************************)
(* The backend takes over nothing, undoes in silence nothing that people   *)
(* do meanwhile, keeps colliding releases apart and says of a removal what *)
(* is so; for any releases, names, services, manifests and bounds.         *)
(***************************************************************************)
EXTENDS Deploy, TLAPS

-----------------------------------------------------------------------------
(* The inductive invariant *)

\* A deploy before its record, after its guards, and at its services; a removal at work.
Unrecorded == {"guard", "admit", "networks", "resources", "services", "write"}
Guarded == Unrecorded \ {"guard"}
AtServices == {"write", "selfRead", "self"}
AtRemoval == {"rmServices", "rmRest"}

\* What no release but the controller's own may touch.
Protected == ControllerMounts \cup {m \in Of({"network"}) : Controller \in Under[m]}

\* Nothing is left over from one deploy or removal to the next.
IdleInv(s) ==
    /\ pc[s] \in {"idle", "rmGuard"} => job[s] = NoJob
    /\ pc[s] \notin AtServices => job[s].seen = {} /\ job[s].at = None /\ ~job[s].held
    /\ pc[s] \in AtRemoval => ~job[s].install
    /\ pc[s] = "rmServices" => job[s].listed \subseteq Services
    /\ pc[s] = "rmRest" => job[s].listed \subseteq Names

\* What the guards have let through: it has been established what the controller
\* is, and what another release is about to make is none of that.
GuardInv(s) ==
    /\ pc[s] \notin {"idle", "guard", "rmGuard"} => mine = Actual
    /\ pc[s] \in AtRemoval \/ (pc[s] \in Guarded \cup AtServices /\ s \notin Self) =>
          s # Controller
    /\ pc[s] \in {"networks", "resources"} /\ s \notin Self => job[s].todo \cap Protected = {}

\* An install is marked as one until it is on record, and beside none that collides.
InstallInv ==
    /\ \A s \in Stacks : pc[s] \in Unrecorded => (job[s].install <=> s \notin records)
    /\ \A s, t \in Stacks : job[s].install /\ job[t].install => <<s, t>> \notin Collide

\* What the guards found of the records is still so.
RecordInv(s) ==
    pc[s] \in Guarded => \A t \in records : /\ <<s, t>> \notin SameRecord
                                            /\ s \in records \cup Self \/ <<s, t>> \notin Collide

\* A service that a deploy has listed is its own until it is gone, and as it was
\* read unless the deploy is to hear of it.
SeenInv(s) ==
    /\ job[s].seen # {} => s \in records \cup Self
    /\ job[s].at # None => job[s].at \in job[s].seen
    /\ job[s].held => s \in Self /\ ControllerService \in job[s].seen
    /\ pc[s] \in {"selfRead", "self"} => job[s].held
    /\ \A v \in Services \ job[s].seen : job[s].fate[v] = "fresh" /\ v \notin job[s].touched
    /\ \A v \in job[s].seen : job[s].fate[v] # "gone" => svc[v].stack = s
    /\ \A v \in job[s].seen : job[s].fate[v] = "fresh" =>
          job[s].force[v] = svc[v].force /\ v \notin job[s].touched \ job[s].reported

\* The controller's service is in its stack, and nobody else has what it mounts.
SpareInv ==
    /\ svc[ControllerService].stack = Controller
    /\ \A n \in ControllerMounts : holder[n] \in {Nobody, Controller}

\* What is left of a stack that is being removed is on its list, or something failed.
Owned(s) == {n \in Of({"config", "secret", "network"}) : holder[n] = s}
RemovalInv(s) ==
    /\ pc[s] = "rmServices" /\ ~job[s].errs => Running(s) \subseteq job[s].listed
    /\ pc[s] = "rmRest" /\ ~job[s].errs => Running(s) = {} /\ Owned(s) \subseteq job[s].listed
    /\ pc[s] = "rmRest" => /\ job[s].listed \cap ControllerMounts = {}
                           /\ \A n \in job[s].listed \cap Of({"network"}) : holder[n] = s

StackInv(s) == IdleInv(s) /\ GuardInv(s) /\ RecordInv(s) /\ SeenInv(s) /\ RemovalInv(s)

IInv == TypeOK /\ RecordsApart /\ InstallInv /\ SpareInv /\ \A s \in Stacks : StackInv(s)

-----------------------------------------------------------------------------
(* Types *)

PCs == {"idle", "guard", "admit", "networks", "resources", "services", "write", "selfRead",
        "self", "rmGuard", "rmServices", "rmRest"}

LEMMA Assumed ==
    /\ None \notin Stacks /\ None # Nobody /\ None \notin Services /\ Nobody \notin Stacks
    /\ Controller \in Stacks /\ Self \subseteq {Controller} /\ ControllerService \in Services
    /\ ControllerMounts \subseteq Names
    /\ \A n \in ControllerMounts \cup ControllerNetworks : n \in Names
    /\ \A n \in ControllerMounts : Kind[n] # "network"
    /\ \A s, t \in Stacks : /\ <<s, t>> \in Collide => s # t /\ <<t, s>> \in Collide
                            /\ <<s, t>> \in SameRecord => <<t, s>> \in SameRecord
    /\ SameRecord \subseteq Collide
    /\ MaxConflictRetries \in Nat /\ MaxMishaps \in Nat
    /\ Runs \in [Stacks -> SUBSET Services] /\ Allow \in [Stacks -> SUBSET Names]
    /\ \A s \in Stacks : Options[s] \subseteq Charts
BY DeployAssumption, AdmissionAssumption DEF DeployAssumption, AdmissionAssumption

LEMMA NoJobType == NoJob \in Jobs
<1>1. [v \in Services |-> 0] \in [Services -> Nat]
  OBVIOUS
<1>2. [v \in Services |-> "fresh"] \in [Services -> {"fresh", "changed", "gone"}]
  OBVIOUS
<1>3. 0 \in 0 .. MaxConflictRetries
  BY Assumed
<1> QED
  BY <1>1, <1>2, <1>3 DEF NoJob, Jobs

LEMMA NoJobFields ==
    /\ NoJob.seen = {} /\ NoJob.at = None /\ NoJob.held = FALSE /\ NoJob.install = FALSE
    /\ NoJob.errs = FALSE /\ NoJob.listed = {} /\ NoJob.touched = {} /\ NoJob.todo = {}
    /\ \A v \in Services : NoJob.fate[v] = "fresh"
BY DEF NoJob

\* A service is written or goes: whoever has listed it is to hear of it.
LEMMA MetType ==
    ASSUME TypeOK, NEW v \in Services, NEW fate \in {"changed", "gone"}
    PROVE  /\ Met(v, fate) \in [Stacks -> Jobs]
           /\ \A t \in Stacks :
                 LET j == job[t] k == Met(v, fate)[t] IN
                 /\ k.todo = j.todo /\ k.live = j.live /\ k.left = j.left /\ k.at = j.at
                 /\ k.tries = j.tries /\ k.force = j.force /\ k.seen = j.seen
                 /\ k.held = j.held /\ k.install = j.install /\ k.errs = j.errs
                 /\ k.listed = j.listed /\ k.reported = j.reported
                 /\ \A w \in Services \ {v} : /\ k.fate[w] = j.fate[w]
                                              /\ w \in k.touched <=> w \in j.touched
                 /\ v \notin j.seen => k = j
                 /\ v \in j.seen => /\ v \in k.touched /\ k.fate[v] \in {"changed", "gone"}
                                    /\ k.fate[v] = "gone" <=> (j.fate[v] = "gone" \/ fate = "gone")
<1> SUFFICES ASSUME NEW t \in Stacks
             PROVE  LET j == job[t] k == Met(v, fate)[t] IN
                    /\ k \in Jobs
                    /\ k.todo = j.todo /\ k.live = j.live /\ k.left = j.left /\ k.at = j.at
                    /\ k.tries = j.tries /\ k.force = j.force /\ k.seen = j.seen
                    /\ k.held = j.held /\ k.install = j.install /\ k.errs = j.errs
                    /\ k.listed = j.listed /\ k.reported = j.reported
                    /\ \A w \in Services \ {v} : /\ k.fate[w] = j.fate[w]
                                                 /\ w \in k.touched <=> w \in j.touched
                    /\ v \notin j.seen => k = j
                    /\ v \in j.seen => /\ v \in k.touched /\ k.fate[v] \in {"changed", "gone"}
                                       /\ k.fate[v] = "gone" <=> (j.fate[v] = "gone" \/ fate = "gone")
  BY DEF Met
<1> DEFINE j == job[t]
           f == [j.fate EXCEPT ![v] = IF @ = "gone" THEN @ ELSE fate]
           h == j.touched \cup {v}
<1>1. j \in Jobs
  BY DEF TypeOK
<1>2. CASE v \notin j.seen
  <2>1. Met(v, fate)[t] = j
    BY <1>2 DEF Met
  <2> HIDE DEF j
  <2> QED
    BY <1>1, <1>2, <2>1 DEF j
<1>3. CASE v \in j.seen
  <2>1. Met(v, fate)[t] = [j EXCEPT !.touched = h, !.fate = f]
    BY <1>3 DEF Met
  <2>2. /\ f \in [Services -> {"fresh", "changed", "gone"}] /\ h \in SUBSET Services
        /\ \A w \in Services \ {v} : f[w] = j.fate[w] /\ (w \in h <=> w \in j.touched)
        /\ v \in h /\ f[v] \in {"changed", "gone"} /\ (f[v] = "gone" <=> (j.fate[v] = "gone" \/ fate = "gone"))
    BY <1>1 DEF Jobs
  <2> HIDE DEF j, f, h
  <2>3. /\ [j EXCEPT !.touched = h, !.fate = f] \in Jobs
        /\ LET k == [j EXCEPT !.touched = h, !.fate = f] IN
           /\ k.todo = j.todo /\ k.live = j.live /\ k.left = j.left /\ k.at = j.at
           /\ k.tries = j.tries /\ k.force = j.force /\ k.seen = j.seen
           /\ k.held = j.held /\ k.install = j.install /\ k.errs = j.errs
           /\ k.listed = j.listed /\ k.reported = j.reported /\ k.touched = h /\ k.fate = f
    BY <1>1, <2>2 DEF Jobs
  <2> QED
    BY <1>3, <2>1, <2>2, <2>3 DEF j
<1> QED
  BY <1>2, <1>3

-----------------------------------------------------------------------------
(* The initial state *)

LEMMA InitKeeps == Init => IInv
<1> SUFFICES ASSUME Init PROVE IInv
  OBVIOUS
<1> USE Assumed
<1>1. /\ pc \in [Stacks -> PCs] /\ \A s \in Stacks : pc[s] = "idle"
      /\ job \in [Stacks -> Jobs] /\ \A s \in Stacks : job[s] = NoJob
  BY NoJobType DEF Init, PCs
<1>2. chart \in [Stacks -> Charts]
  <2>1. PICK c \in [Stacks -> UNION {Options[s] : s \in Stacks}] :
           (\A s \in Stacks : c[s] \in Options[s]) /\ chart = c
    BY DEF Init
  <2>2. \A s \in Stacks : c[s] \in Charts
    BY <2>1
  <2> QED
    BY <2>1, <2>2
<1>3. /\ svc \in [Services -> [stack : Stacks \cup {None}, engine : BOOLEAN, force : Nat]]
      /\ svc[ControllerService].stack = Controller
  BY DEF Init, Absent
<1>4. /\ holder \in [Names -> Stacks \cup {None, Nobody}]
      /\ \A n \in ControllerMounts : holder[n] = Nobody
  BY DEF Init
<1>5. TypeOK
  BY <1>1, <1>2, <1>3, <1>4 DEF TypeOK, Init, PCs
<1>6. RecordsApart /\ InstallInv /\ SpareInv
  BY <1>1, <1>3, <1>4, NoJobFields DEF RecordsApart, InstallInv, SpareInv, Init, Unrecorded
<1>7. ASSUME NEW s \in Stacks PROVE StackInv(s)
  BY <1>1, NoJobFields
     DEF StackInv, IdleInv, GuardInv, RecordInv, SeenInv, RemovalInv, AtServices, AtRemoval,
         Guarded, Unrecorded
<1> QED
  BY <1>5, <1>6, <1>7 DEF IInv

-----------------------------------------------------------------------------
(* Steps of a deploy or a removal that touch nothing but its own locals *)

\* Who has no part in a step keeps what is said of it.
LEMMA Frame ==
    ASSUME NEW t \in Stacks, StackInv(t), pc'[t] = pc[t], job'[t] = job[t],
           UNCHANGED <<holder, svc, records, mine>>
    PROVE  StackInv(t)'
BY DEF StackInv, IdleInv, GuardInv, RecordInv, SeenInv, RemovalInv, Running, Owned

\* Nor has anybody else a part in a step that changes one release's locals alone.
LEMMA LocalKeeps ==
    ASSUME IInv, NEW s \in Stacks, NEW p \in PCs, NEW j \in Jobs,
           pc' = [pc EXCEPT ![s] = p], job' = [job EXCEPT ![s] = j],
           UNCHANGED <<chart, holder, svc, records, mine>>, budget' \in 0 .. MaxMishaps,
           p \in Unrecorded => (j.install <=> s \notin records),
           j.install => \A t \in Stacks \ {s} : job[t].install => <<s, t>> \notin Collide,
           StackInv(s)'
    PROVE  IInv'
<1>1. /\ pc \in [Stacks -> PCs] /\ job \in [Stacks -> Jobs]
  BY DEF IInv, TypeOK, PCs
<1>2. /\ pc' \in [Stacks -> PCs] /\ job' \in [Stacks -> Jobs]
      /\ pc'[s] = p /\ job'[s] = j
      /\ \A t \in Stacks \ {s} : pc'[t] = pc[t] /\ job'[t] = job[t]
  BY <1>1
<1>3. TypeOK'
  BY <1>2 DEF IInv, TypeOK, PCs, Actual
<1>4. RecordsApart' /\ SpareInv'
  BY DEF IInv, RecordsApart, SpareInv
<1>5. InstallInv'
  <2>1. ASSUME NEW t \in Stacks, pc'[t] \in Unrecorded
        PROVE  job'[t].install <=> t \notin records'
    BY <1>2, <2>1 DEF IInv, InstallInv
  <2>2. ASSUME NEW t \in Stacks, NEW u \in Stacks, job'[t].install, job'[u].install
        PROVE  <<t, u>> \notin Collide
    <3>1. CASE t # s /\ u # s
      BY <1>2, <2>2, <3>1 DEF IInv, InstallInv
    <3>2. CASE t = s /\ u = s
      BY <3>2, Assumed
    <3>3. CASE t = s /\ u # s
      BY <1>2, <2>2, <3>3
    <3>4. CASE t # s /\ u = s
      <4>1. <<s, t>> \notin Collide
        BY <1>2, <2>2, <3>4
      <4> QED
        BY <3>4, <4>1, Assumed
    <3> QED
      BY <3>1, <3>2, <3>3, <3>4
  <2> QED
    BY <2>1, <2>2 DEF InstallInv
<1>6. ASSUME NEW t \in Stacks PROVE StackInv(t)'
  BY <1>2, Frame DEF IInv
<1> QED
  BY <1>3, <1>4, <1>5, <1>6 DEF IInv

\* Returning leaves nothing behind.
LEMMA ReturnKeeps ==
    ASSUME IInv, NEW s \in Stacks, Return(s), UNCHANGED <<chart, holder, svc, records, mine>>,
           budget' \in 0 .. MaxMishaps
    PROVE  IInv'
<1>1. pc'[s] = "idle" /\ job'[s] = NoJob
  BY DEF IInv, TypeOK, Return
<1>2. StackInv(s)'
  BY <1>1, NoJobFields, Assumed
     DEF StackInv, IdleInv, GuardInv, RecordInv, SeenInv, RemovalInv, AtServices, AtRemoval,
         Guarded, Unrecorded
<1> QED
  BY <1>2, LocalKeeps, NoJobType, NoJobFields DEF Return, PCs, Unrecorded, IInv

\* The types of one release, and of the budget.
LEMMA Spent ==
    ASSUME TypeOK, NEW s \in Stacks
    PROVE  /\ pc[s] \in PCs /\ job[s] \in Jobs
           /\ budget \in 0 .. MaxMishaps /\ (Mishap => budget' \in 0 .. MaxMishaps)
BY Assumed DEF TypeOK, PCs, Mishap

\* A step to p with the locals as they are.
LEMMA GoesKeeps ==
    ASSUME IInv, NEW s \in Stacks, NEW p \in PCs, Goes(s, p),
           UNCHANGED <<chart, budget, holder, svc, records, mine, job>>,
           p \in Unrecorded => pc[s] \in Unrecorded,
           pc'[s] = p => StackInv(s)'
    PROVE  IInv'
<1>1. pc'[s] = p /\ job' = [job EXCEPT ![s] = job[s]]
  BY DEF IInv, TypeOK, Goes
<1>2. job[s] \in Jobs /\ budget' \in 0 .. MaxMishaps
  BY Spent DEF IInv
<1>3. /\ p \in Unrecorded => (job[s].install <=> s \notin records)
      /\ job[s].install => \A t \in Stacks \ {s} : job[t].install => <<s, t>> \notin Collide
  BY DEF IInv, InstallInv
<1> QED
  BY <1>1, <1>2, <1>3, LocalKeeps DEF Goes

LEMMA FailsKeeps == ASSUME IInv, NEW s \in Stacks, Fails(s) PROVE IInv'
BY ReturnKeeps, Spent DEF Fails, swarm, IInv

LEMMA BeginKeeps == ASSUME IInv, NEW s \in Stacks, Begin(s) PROVE IInv'
<1> DEFINE j == [NoJob EXCEPT !.install = s \notin records]
<1>1. /\ j \in Jobs /\ j.install = (s \notin records)
      /\ j.seen = {} /\ j.at = None /\ j.held = FALSE /\ j.touched = {}
      /\ \A v \in Services : j.fate[v] = "fresh"
  <2>1. DOMAIN NoJob = {"todo", "live", "left", "at", "tries", "force", "seen", "fate", "held",
                        "install", "errs", "listed", "touched", "reported"}
    BY DEF NoJob
  <2>2. j \in Jobs
    BY NoJobType DEF Jobs
  <2> QED
    BY <2>1, <2>2, NoJobFields
<1> HIDE DEF j
<1>2. /\ pc' = [pc EXCEPT ![s] = "guard"] /\ job' = [job EXCEPT ![s] = j]
      /\ pc'[s] = "guard" /\ job'[s] = j
  BY DEF IInv, TypeOK, Begin, Goes, j
<1>3. StackInv(s)'
  BY <1>1, <1>2, Assumed
     DEF StackInv, IdleInv, GuardInv, RecordInv, SeenInv, RemovalInv, AtServices, AtRemoval,
         Guarded, Unrecorded
<1>4. j.install => \A t \in Stacks \ {s} : job[t].install => <<s, t>> \notin Collide
  BY <1>1 DEF Begin
<1>5. UNCHANGED <<chart, holder, svc, records, mine>> /\ budget' \in 0 .. MaxMishaps
  BY Spent DEF Begin, swarm, IInv
<1>6. "guard" \in PCs
  BY DEF PCs
<1> QED
  BY <1>1, <1>2, <1>3, <1>4, <1>5, <1>6, LocalKeeps

LEMMA GuardKeeps == ASSUME IInv, NEW s \in Stacks, Guard(s) PROVE IInv'
<1>1. UNCHANGED <<chart, budget, holder, svc, records, mine>> /\ budget' \in 0 .. MaxMishaps
  BY Spent DEF Guard, swarm, IInv
<1>2. CASE NotTheControllers(s) /\ Recordable(s)
  <2>1. Goes(s, "admit") /\ UNCHANGED job /\ pc[s] = "guard" /\ mine = Actual
    BY <1>2 DEF Guard, IInv, TypeOK
  <2>2. s \notin Self => s # Controller
    BY <1>2, <2>1 DEF NotTheControllers, Actual
  <2>3. pc'[s] = "admit" => StackInv(s)'
    BY <1>1, <1>2, <2>1, <2>2
       DEF IInv, Recordable, StackInv, IdleInv, GuardInv, RecordInv, SeenInv, RemovalInv,
           AtServices, AtRemoval, Guarded, Unrecorded
  <2> QED
    BY <1>1, <2>1, <2>3, GoesKeeps DEF PCs, Unrecorded
<1>3. CASE ~(NotTheControllers(s) /\ Recordable(s))
  BY <1>1, <1>3, ReturnKeeps DEF Guard
<1> QED
  BY <1>2, <1>3

\* What the guards pass to another release is nothing the controller runs on.
LEMMA AdmittedSpares ==
    ASSUME TypeOK, NEW s \in Stacks \ Self, mine = Actual,
           Admitted(mine, s, chart[s], holder, Allow[s])
    PROVE  chart[s].declares \cap Protected = {}
<1> SUFFICES ASSUME NEW n \in chart[s].declares, n \in Protected PROVE FALSE
  OBVIOUS
<1>1. ~Forbidden(mine, s, chart[s], holder, n) /\ n \in Names
  BY DEF Admitted, Refs, TypeOK, Charts
<1>2. CASE n \in ControllerMounts
  BY <1>1, <1>2, Assumed DEF Forbidden, Spared, Actual
<1>3. CASE Kind[n] = "network" /\ Controller \in Under[n]
  BY <1>1, <1>3 DEF Forbidden, Spared, Inside, Actual
<1> QED
  BY <1>2, <1>3 DEF Protected, Of

LEMMA AdmitKeeps == ASSUME IInv, NEW s \in Stacks, Admit(s) PROVE IInv'
<1>1. /\ UNCHANGED <<chart, budget, holder, svc, records, mine>> /\ budget' \in 0 .. MaxMishaps
      /\ pc[s] = "admit" /\ mine = Actual /\ job[s] \in Jobs
  BY Spent DEF Admit, swarm, IInv, StackInv, GuardInv
<1> DEFINE ok == /\ Admitted(mine, s, chart[s], holder, Allow[s])
                 /\ s \in Self => ControllerService \in Runs[s]
<1>2. CASE ok
  <2> DEFINE todo == chart[s].declares
             j == [job[s] EXCEPT !.todo = todo]
  <2>1. todo \in SUBSET Names /\ (s \notin Self => todo \cap Protected = {})
    BY <1>1, <1>2, AdmittedSpares DEF IInv, TypeOK, Charts
  <2>2. pc' = [pc EXCEPT ![s] = "networks"] /\ job' = [job EXCEPT ![s] = j]
    BY <1>2 DEF Admit, Goes
  <2>3. pc'[s] = "networks" /\ job'[s] = j
    BY <2>2 DEF IInv, TypeOK
  <2> HIDE DEF todo, ok
  <2>4. /\ j \in Jobs /\ j.todo = todo /\ j.seen = job[s].seen /\ j.at = job[s].at
        /\ j.held = job[s].held /\ j.install = job[s].install /\ j.touched = job[s].touched
        /\ j.fate = job[s].fate /\ j.force = job[s].force
    BY <1>1, <2>1 DEF Jobs
  <2> HIDE DEF j
  <2>5. StackInv(s)'
    BY <1>1, <2>1, <2>3, <2>4
       DEF IInv, StackInv, IdleInv, GuardInv, RecordInv, SeenInv, RemovalInv,
           AtServices, AtRemoval, Guarded, Unrecorded
  <2>6. "networks" \in PCs /\ "admit" \in Unrecorded
    BY DEF PCs, Unrecorded
  <2> QED
    BY <1>1, <2>2, <2>4, <2>5, <2>6, LocalKeeps DEF IInv, InstallInv
<1>3. CASE ~ok
  BY <1>1, <1>3, ReturnKeeps DEF Admit
<1> QED
  BY <1>2, <1>3

\* A step of s that changes its locals, but not whether it installs.
LEMMA StepKeeps ==
    ASSUME IInv, NEW s \in Stacks, NEW p \in PCs, NEW j \in Jobs,
           pc' = [pc EXCEPT ![s] = p], job' = [job EXCEPT ![s] = j],
           UNCHANGED <<chart, budget, holder, svc, records, mine>>,
           p \in Unrecorded => pc[s] \in Unrecorded, j.install = job[s].install,
           pc'[s] = p /\ job'[s] = j => StackInv(s)'
    PROVE  IInv'
<1>1. pc'[s] = p /\ job'[s] = j /\ budget' \in 0 .. MaxMishaps
  BY Spent DEF IInv, TypeOK
<1>2. /\ p \in Unrecorded => (j.install <=> s \notin records)
      /\ j.install => \A t \in Stacks \ {s} : job[t].install => <<s, t>> \notin Collide
  BY DEF IInv, InstallInv
<1> QED
  BY <1>1, <1>2, LocalKeeps

LEMMA ListNetworksKeeps == ASSUME IInv, NEW s \in Stacks, ListNetworks(s) PROVE IInv'
<1> DEFINE live == {n \in Of({"network"}) : holder[n] = s}
           j == [job[s] EXCEPT !.live = live]
<1>1. /\ UNCHANGED <<chart, budget, holder, svc, records, mine>> /\ pc[s] = "networks"
      /\ pc' = [pc EXCEPT ![s] = "resources"] /\ job' = [job EXCEPT ![s] = j]
  BY DEF ListNetworks, Goes, swarm
<1>2. job[s] \in Jobs /\ live \in SUBSET Names
  BY Spent DEF IInv, Of
<1> HIDE DEF live
<1>3. /\ j \in Jobs /\ j.todo = job[s].todo /\ j.seen = job[s].seen /\ j.at = job[s].at
      /\ j.held = job[s].held /\ j.install = job[s].install /\ j.touched = job[s].touched
      /\ j.fate = job[s].fate /\ j.force = job[s].force
  BY <1>2 DEF Jobs
<1> HIDE DEF j
<1>4. pc'[s] = "resources" /\ job'[s] = j => StackInv(s)'
  BY <1>1, <1>3
     DEF IInv, StackInv, IdleInv, GuardInv, RecordInv, SeenInv, RemovalInv,
         AtServices, AtRemoval, Guarded, Unrecorded
<1>5. "resources" \in PCs /\ "networks" \in Unrecorded
  BY DEF PCs, Unrecorded
<1> QED
  BY <1>1, <1>3, <1>4, <1>5, StepKeeps

LEMMA ResolveKeeps == ASSUME IInv, NEW s \in Stacks, Resolve(s) PROVE IInv'
<1>1. /\ UNCHANGED <<chart, budget, holder, svc, records, mine>> /\ budget' \in 0 .. MaxMishaps
      /\ pc[s] = "resources"
  BY Spent DEF Resolve, swarm, IInv
<1>2. CASE Goes(s, "services") /\ UNCHANGED job
  <2>1. pc'[s] = "services" => StackInv(s)'
    BY <1>1, <1>2
       DEF IInv, StackInv, IdleInv, GuardInv, RecordInv, SeenInv, RemovalInv,
           AtServices, AtRemoval, Guarded, Unrecorded
  <2> QED
    BY <1>1, <1>2, <2>1, GoesKeeps DEF PCs, Unrecorded
<1>3. CASE Return(s)
  BY <1>1, <1>3, ReturnKeeps
<1> QED
  BY <1>2, <1>3 DEF Resolve

LEMMA ListServicesKeeps == ASSUME IInv, NEW s \in Stacks, ListServices(s) PROVE IInv'
<1>1. /\ UNCHANGED <<chart, budget, holder, svc, records, mine>> /\ budget' \in 0 .. MaxMishaps
      /\ pc[s] = "services" /\ job[s] \in Jobs
  BY Spent DEF ListServices, swarm, IInv
<1> DEFINE refused == Running(s) # {} /\ s \notin Self \cup records
<1>2. CASE refused
  BY <1>1, <1>2, ReturnKeeps DEF ListServices
<1>3. CASE ~refused
  <2> DEFINE force == [v \in Services |-> svc[v].force]
             left == Runs[s]
             seen == Running(s)
             j == [job[s] EXCEPT !.left = left, !.seen = seen, !.force = force]
  <2>1. /\ force \in [Services -> Nat] /\ left \in SUBSET Services /\ seen \in SUBSET Services
        /\ \A v \in Services : force[v] = svc[v].force
        /\ \A v \in seen : svc[v].stack = s
        /\ seen # {} => s \in records \cup Self
    BY <1>3, Assumed DEF IInv, TypeOK, Running
  <2>2. pc' = [pc EXCEPT ![s] = "write"] /\ job' = [job EXCEPT ![s] = j]
    BY <1>3 DEF ListServices, Goes
  <2> HIDE DEF force, left, seen, refused
  <2>3. /\ j \in Jobs /\ j.todo = job[s].todo /\ j.seen = seen /\ j.at = job[s].at
        /\ j.held = job[s].held /\ j.install = job[s].install /\ j.touched = job[s].touched
        /\ j.fate = job[s].fate /\ j.force = force
    BY <1>1, <2>1 DEF Jobs
  <2> HIDE DEF j
  <2>4. pc'[s] = "write" /\ job'[s] = j => StackInv(s)'
    BY <1>1, <2>1, <2>3, Assumed
       DEF IInv, StackInv, IdleInv, GuardInv, RecordInv, SeenInv, RemovalInv,
           AtServices, AtRemoval, Guarded, Unrecorded
  <2>5. "write" \in PCs /\ "services" \in Unrecorded
    BY DEF PCs, Unrecorded
  <2> QED
    BY <1>1, <2>2, <2>3, <2>4, <2>5, StepKeeps
<1> QED
  BY <1>2, <1>3

LEMMA DeferKeeps == ASSUME IInv, NEW s \in Stacks, Defer(s) PROVE IInv'
<1> DEFINE left == job[s].left \ {ControllerService}
           j == [job[s] EXCEPT !.left = left, !.held = TRUE]
<1>1. /\ UNCHANGED <<chart, budget, holder, svc, records, mine>> /\ pc[s] = "write"
      /\ job' = [job EXCEPT ![s] = j] /\ pc' = [pc EXCEPT ![s] = "write"]
      /\ s \in Self /\ ControllerService \in job[s].seen
  BY DEF Defer, swarm, IInv, TypeOK
<1>2. job[s] \in Jobs /\ left \in SUBSET Services
  BY Spent DEF IInv, Jobs
<1> HIDE DEF left
<1>3. /\ j \in Jobs /\ j.todo = job[s].todo /\ j.seen = job[s].seen /\ j.at = job[s].at
      /\ j.held = TRUE /\ j.install = job[s].install /\ j.touched = job[s].touched
      /\ j.fate = job[s].fate /\ j.force = job[s].force /\ j.reported = job[s].reported
  BY <1>2 DEF Jobs
<1> HIDE DEF j
<1>4. pc'[s] = "write" /\ job'[s] = j => StackInv(s)'
  BY <1>1, <1>3
     DEF IInv, StackInv, IdleInv, GuardInv, RecordInv, SeenInv, RemovalInv,
         AtServices, AtRemoval, Guarded, Unrecorded
<1> QED
  BY <1>1, <1>3, <1>4, StepKeeps DEF PCs, Unrecorded

LEMMA PickKeeps == ASSUME IInv, NEW s \in Stacks, Pick(s) PROVE IInv'
<1> PICK v \in job[s].left \cap job[s].seen :
        /\ pc[s] = "write" /\ job' = [job EXCEPT ![s].at = v]
        /\ UNCHANGED <<chart, budget, swarm, mine, pc>>
  BY DEF Pick
<1> DEFINE j == [job[s] EXCEPT !.at = v]
<1>1. /\ UNCHANGED <<chart, budget, holder, svc, records, mine>> /\ pc[s] = "write"
      /\ job' = [job EXCEPT ![s] = j] /\ pc' = [pc EXCEPT ![s] = "write"]
  BY DEF swarm, IInv, TypeOK
<1>2. job[s] \in Jobs /\ v \in Services /\ v \in job[s].seen
  BY Spent DEF IInv, Jobs
<1>3. /\ j \in Jobs /\ j.todo = job[s].todo /\ j.seen = job[s].seen /\ j.at = v
      /\ j.held = job[s].held /\ j.install = job[s].install /\ j.touched = job[s].touched
      /\ j.fate = job[s].fate /\ j.force = job[s].force /\ j.reported = job[s].reported
  BY ONLY <1>2 DEF Jobs, j
<1> HIDE DEF j
<1>4. pc'[s] = "write" /\ job'[s] = j => StackInv(s)'
  BY <1>1, <1>2, <1>3
     DEF IInv, StackInv, IdleInv, GuardInv, RecordInv, SeenInv, RemovalInv,
         AtServices, AtRemoval, Guarded, Unrecorded
<1> QED
  BY <1>1, <1>3, <1>4, StepKeeps DEF PCs, Unrecorded

\* What inspecting a service anew leaves of the locals of a deploy.
LEMMA RereadType ==
    ASSUME TypeOK, NEW s \in Stacks, NEW v \in Services
    PROVE  LET j == job[s] k == Reread(s, v) IN
           /\ k \in Jobs /\ k.todo = j.todo /\ k.live = j.live /\ k.left = j.left /\ k.at = j.at
           /\ k.tries = j.tries /\ k.seen = j.seen /\ k.held = j.held /\ k.install = j.install
           /\ k.errs = j.errs /\ k.listed = j.listed /\ k.touched = j.touched
           /\ k.reported = j.reported
           /\ k.force[v] = svc[v].force /\ k.fate[v] = "fresh"
           /\ \A w \in Services \ {v} : k.force[w] = j.force[w] /\ k.fate[w] = j.fate[w]
<1> DEFINE j == job[s]
           force == [j.force EXCEPT ![v] = svc[v].force]
           fate == [j.fate EXCEPT ![v] = "fresh"]
<1>1. j \in Jobs /\ svc[v].force \in Nat
  BY DEF TypeOK
<1>2. /\ force \in [Services -> Nat] /\ fate \in [Services -> {"fresh", "changed", "gone"}]
      /\ force[v] = svc[v].force /\ fate[v] = "fresh"
      /\ \A w \in Services \ {v} : force[w] = j.force[w] /\ fate[w] = j.fate[w]
  BY <1>1 DEF Jobs
<1>3. Reread(s, v) = [j EXCEPT !.force = force, !.fate = fate]
  BY DEF Reread
<1> HIDE DEF j, force, fate
<1>4. LET k == [j EXCEPT !.force = force, !.fate = fate] IN
      /\ k \in Jobs /\ k.todo = j.todo /\ k.live = j.live /\ k.left = j.left /\ k.at = j.at
      /\ k.tries = j.tries /\ k.seen = j.seen /\ k.held = j.held /\ k.install = j.install
      /\ k.errs = j.errs /\ k.listed = j.listed /\ k.touched = j.touched
      /\ k.reported = j.reported /\ k.force = force /\ k.fate = fate
  BY <1>1, <1>2 DEF Jobs
<1> QED
  BY <1>2, <1>3, <1>4 DEF j

LEMMA ConflictKeeps == ASSUME IInv, NEW s \in Stacks, Conflict(s) PROVE IInv'
<1> DEFINE v == job[s].at
           k == Reread(s, v)
           tries == k.tries + 1
           reported == k.reported \cup {v}
           j == [k EXCEPT !.tries = tries, !.reported = reported]
<1>1. /\ UNCHANGED <<chart, budget, holder, svc, records, mine>>
      /\ job' = [job EXCEPT ![s] = j] /\ pc' = [pc EXCEPT ![s] = pc[s]]
      /\ pc[s] \in {"write", "self"} /\ v # None /\ job[s].tries < MaxConflictRetries
  BY DEF Conflict, IInv, TypeOK
<1>2. /\ job[s] \in Jobs /\ v \in Services /\ v \in job[s].seen /\ pc[s] \in PCs /\ TypeOK
  BY <1>1, Spent DEF IInv, Jobs, StackInv, SeenInv
<1>3. /\ k \in Jobs /\ k.todo = job[s].todo /\ k.at = v /\ k.seen = job[s].seen
      /\ k.held = job[s].held /\ k.install = job[s].install /\ k.errs = job[s].errs
      /\ k.touched = job[s].touched /\ k.tries = job[s].tries /\ k.reported = job[s].reported
      /\ k.force[v] = svc[v].force /\ k.fate[v] = "fresh"
      /\ \A w \in Services \ {v} : k.force[w] = job[s].force[w] /\ k.fate[w] = job[s].fate[w]
  BY <1>2, RereadType
<1>4. tries \in 0 .. MaxConflictRetries
  BY <1>1, <1>2, <1>3, Assumed DEF Jobs
<1>5. reported \in SUBSET Services /\ \A w \in job[s].reported \cup {v} : w \in reported
  BY <1>2, <1>3 DEF Jobs
<1> HIDE DEF k, tries, reported
<1>6. /\ j \in Jobs /\ j.todo = k.todo /\ j.seen = k.seen /\ j.at = k.at
      /\ j.held = k.held /\ j.install = k.install /\ j.touched = k.touched
      /\ j.fate = k.fate /\ j.force = k.force /\ j.reported = reported
  BY <1>3, <1>4, <1>5 DEF Jobs
<1> HIDE DEF j, v
<1>7. SeenInv(s) /\ IdleInv(s) /\ GuardInv(s) /\ RecordInv(s) /\ RemovalInv(s)
  BY DEF IInv, StackInv
<1>8. ASSUME pc'[s] = pc[s], job'[s] = j PROVE StackInv(s)'
  <2>1. SeenInv(s)'
    <3>1. \A w \in job[s].seen \ {v} : j.fate[w] = job[s].fate[w] /\ j.force[w] = job[s].force[w]
      BY <1>2, <1>3, <1>6 DEF Jobs
    <3>2. j.fate[v] = "fresh" /\ j.force[v] = svc[v].force /\ v \in reported
      BY <1>3, <1>5, <1>6
    <3>3. j.seen = job[s].seen /\ j.touched = job[s].touched /\ j.at = job[s].at
          /\ j.held = job[s].held
      BY <1>3, <1>6 DEF v
    <3>4. \A w \in Services \ j.seen : j.fate[w] = "fresh" /\ w \notin j.touched
      BY <1>2, <1>3, <1>6, <1>7, <3>3 DEF SeenInv
    <3>5. \A w \in j.seen : j.fate[w] # "gone" => svc[w].stack = s
      <4>1. job[s].fate[v] = "changed"
        BY DEF Conflict, v
      <4> QED
        BY <1>7, <3>1, <3>3, <4>1 DEF SeenInv
    <3>6. \A w \in j.seen : j.fate[w] = "fresh" =>
             j.force[w] = svc[w].force /\ w \notin j.touched \ j.reported
      BY <1>5, <1>6, <1>7, <3>1, <3>2, <3>3 DEF SeenInv
    <3> QED
      BY <1>1, <1>7, <1>8, <3>3, <3>4, <3>5, <3>6 DEF SeenInv
  <2>2. IdleInv(s)' /\ GuardInv(s)' /\ RecordInv(s)' /\ RemovalInv(s)'
    BY <1>1, <1>3, <1>6, <1>7, <1>8
       DEF IdleInv, GuardInv, RecordInv, RemovalInv, AtServices, AtRemoval, Guarded, Unrecorded
  <2> QED
    BY <2>1, <2>2 DEF StackInv
<1> QED
  BY <1>1, <1>2, <1>3, <1>6, <1>8, StepKeeps

LEMMA RereadSelfKeeps == ASSUME IInv, NEW s \in Stacks, RereadSelf(s) PROVE IInv'
<1> DEFINE v == ControllerService
<1>1. /\ UNCHANGED <<chart, budget, holder, svc, records, mine>> /\ budget' \in 0 .. MaxMishaps
      /\ pc[s] = "selfRead" /\ job[s] \in Jobs /\ v \in Services /\ TypeOK
  BY Spent, Assumed DEF RereadSelf, swarm, IInv
<1>2. SeenInv(s) /\ IdleInv(s) /\ GuardInv(s) /\ RecordInv(s) /\ RemovalInv(s)
  BY DEF IInv, StackInv
<1>3. v \in job[s].seen /\ s \in Self
  BY <1>1, <1>2 DEF SeenInv
<1>4. CASE job[s].fate[v] = "gone"
  BY <1>1, <1>4, ReturnKeeps DEF RereadSelf
<1>5. CASE job[s].fate[v] # "gone"
  <2> DEFINE k == Reread(s, v)
             touched == k.touched \ {v}
             left == {v}
             j == [k EXCEPT !.at = v, !.tries = 0, !.touched = touched, !.left = left]
  <2>1. job' = [job EXCEPT ![s] = j] /\ pc' = [pc EXCEPT ![s] = "self"]
    BY <1>5 DEF RereadSelf, Goes
  <2>2. /\ k \in Jobs /\ k.todo = job[s].todo /\ k.seen = job[s].seen
        /\ k.held = job[s].held /\ k.install = job[s].install /\ k.errs = job[s].errs
        /\ k.touched = job[s].touched /\ k.reported = job[s].reported
        /\ k.force[v] = svc[v].force /\ k.fate[v] = "fresh"
        /\ \A w \in Services \ {v} : k.force[w] = job[s].force[w] /\ k.fate[w] = job[s].fate[w]
    BY <1>1, RereadType
  <2>3. touched \in SUBSET Services /\ left \in SUBSET Services /\ 0 \in 0 .. MaxConflictRetries
        /\ v \notin touched /\ touched \subseteq job[s].touched
    BY <1>1, <2>2, Assumed DEF Jobs
  <2> HIDE DEF k, touched, left, v
  <2>4. /\ j \in Jobs /\ j.todo = k.todo /\ j.seen = k.seen /\ j.at = v
        /\ j.held = k.held /\ j.install = k.install /\ j.touched = touched
        /\ j.fate = k.fate /\ j.force = k.force /\ j.reported = k.reported
    BY <1>1, <2>2, <2>3 DEF Jobs
  <2> HIDE DEF j
  <2>5. ASSUME pc'[s] = "self", job'[s] = j PROVE StackInv(s)'
    <3>1. SeenInv(s)'
      <4>1. \A w \in job[s].seen \ {v} : j.fate[w] = job[s].fate[w] /\ j.force[w] = job[s].force[w]
        BY <1>1, <2>2, <2>4 DEF Jobs
      <4>2. \A w \in Services \ j.seen : j.fate[w] = "fresh" /\ w \notin j.touched
        BY <1>2, <1>3, <2>2, <2>3, <2>4 DEF SeenInv
      <4>3. \A w \in j.seen : j.fate[w] # "gone" => svc[w].stack = s
        BY <1>2, <1>5, <2>2, <2>4, <4>1 DEF SeenInv
      <4>4. \A w \in j.seen : j.fate[w] = "fresh" =>
               j.force[w] = svc[w].force /\ w \notin j.touched \ j.reported
        BY <1>2, <2>2, <2>3, <2>4, <4>1 DEF SeenInv
      <4> QED
        BY <1>1, <1>2, <1>3, <2>2, <2>4, <2>5, <4>2, <4>3, <4>4 DEF SeenInv, v
    <3>2. IdleInv(s)' /\ GuardInv(s)' /\ RecordInv(s)' /\ RemovalInv(s)'
      BY <1>1, <1>2, <1>3, <2>2, <2>4, <2>5
         DEF IdleInv, GuardInv, RecordInv, RemovalInv, AtServices, AtRemoval, Guarded, Unrecorded
    <3> QED
      BY <3>1, <3>2 DEF StackInv
  <2>6. "self" \in PCs \ Unrecorded
    BY DEF PCs, Unrecorded
  <2> QED
    BY <1>1, <2>1, <2>2, <2>4, <2>5, <2>6, StepKeeps
<1> QED
  BY <1>4, <1>5

LEMMA GiveUpKeeps == ASSUME IInv, NEW s \in Stacks, GiveUp(s) \/ SelfReplaced(s) PROVE IInv'
BY ReturnKeeps, Spent DEF GiveUp, SelfReplaced, swarm, IInv

LEMMA BeginRemovalKeeps == ASSUME IInv, NEW s \in Stacks, BeginRemoval(s) PROVE IInv'
<1>1. /\ UNCHANGED <<chart, budget, holder, svc, records, mine, job>> /\ pc[s] = "idle"
      /\ Goes(s, "rmGuard")
  BY DEF BeginRemoval, swarm, MayBegin, Idle
<1>2. job[s] = NoJob
  BY <1>1 DEF IInv, StackInv, IdleInv
<1>3. pc'[s] = "rmGuard" => StackInv(s)'
  BY <1>1, <1>2, NoJobFields, Assumed
     DEF IInv, StackInv, IdleInv, GuardInv, RecordInv, SeenInv, RemovalInv,
         AtServices, AtRemoval, Guarded, Unrecorded
<1> QED
  BY <1>1, <1>3, GoesKeeps DEF PCs, Unrecorded

LEMMA GuardRemovalKeeps == ASSUME IInv, NEW s \in Stacks, GuardRemoval(s) PROVE IInv'
<1>1. /\ UNCHANGED <<chart, budget, holder, svc, records, mine>> /\ budget' \in 0 .. MaxMishaps
      /\ pc[s] = "rmGuard" /\ job[s] \in Jobs /\ mine = Actual
  BY Spent DEF GuardRemoval, swarm, IInv, TypeOK
<1>2. job[s] = NoJob
  BY <1>1 DEF IInv, StackInv, IdleInv
<1>3. CASE mine.namespace = s
  BY <1>1, <1>3, ReturnKeeps DEF GuardRemoval
<1>4. CASE mine.namespace # s
  <2> DEFINE listed == Running(s)
             j == [job[s] EXCEPT !.listed = listed]
  <2>1. job' = [job EXCEPT ![s] = j] /\ pc' = [pc EXCEPT ![s] = "rmServices"]
    BY <1>4 DEF GuardRemoval, Goes
  <2>2. listed \in SUBSET Services /\ s # Controller
    BY <1>1, <1>4 DEF Running, Actual
  <2>3. Running(s) \subseteq listed /\ Running(s)' \subseteq listed
    BY <1>1 DEF Running
  <2> HIDE DEF listed
  <2>4. /\ j \in Jobs /\ j.seen = {} /\ j.at = None /\ j.held = FALSE /\ j.install = FALSE
        /\ j.touched = {} /\ j.listed = listed
        /\ j.install = job[s].install /\ \A v \in Services : j.fate[v] = "fresh"
    BY <1>1, <1>2, <2>2, NoJobFields DEF Jobs
  <2> HIDE DEF j
  <2>5. pc'[s] = "rmServices" /\ job'[s] = j => StackInv(s)'
    BY <1>1, <2>2, <2>3, <2>4, Assumed
       DEF StackInv, IdleInv, GuardInv, RecordInv, SeenInv, RemovalInv,
           AtServices, AtRemoval, Guarded, Unrecorded
  <2>6. "rmServices" \in PCs \ Unrecorded
    BY DEF PCs, Unrecorded
  <2> QED
    BY <1>1, <2>1, <2>4, <2>5, <2>6, StepKeeps
<1> QED
  BY <1>3, <1>4

LEMMA ListResourcesKeeps == ASSUME IInv, NEW s \in Stacks, ListResources(s) PROVE IInv'
<1> DEFINE listed == Owned(s)
           j == [job[s] EXCEPT !.listed = listed]
<1>1. /\ UNCHANGED <<chart, budget, holder, svc, records, mine>>
      /\ pc[s] = "rmServices" /\ job[s] \in Jobs /\ job[s].listed = {}
      /\ job' = [job EXCEPT ![s] = j] /\ pc' = [pc EXCEPT ![s] = "rmRest"]
  BY Spent DEF ListResources, swarm, IInv, Goes, Owned
<1>2. IdleInv(s) /\ GuardInv(s) /\ SeenInv(s) /\ RemovalInv(s) /\ SpareInv
  BY DEF IInv, StackInv
<1>3. listed \in SUBSET Names /\ Owned(s) \subseteq listed /\ Owned(s)' \subseteq listed
      /\ \A n \in listed : holder[n] = s
  BY <1>1 DEF Owned, Of
<1>4. s # Controller
  BY <1>1, <1>2 DEF GuardInv, AtRemoval
<1>5. listed \cap ControllerMounts = {}
  BY <1>3, <1>4, <1>2, Assumed DEF SpareInv
<1>6. ~job[s].errs => Running(s) = {} /\ Running(s)' = {}
  BY <1>1, <1>2 DEF RemovalInv, Running
<1> HIDE DEF listed
<1>7. /\ j \in Jobs /\ j.seen = job[s].seen /\ j.at = job[s].at /\ j.held = job[s].held
      /\ j.install = job[s].install /\ j.touched = job[s].touched /\ j.listed = listed
      /\ j.errs = job[s].errs /\ j.fate = job[s].fate /\ j.force = job[s].force
      /\ j.reported = job[s].reported
  BY <1>1, <1>3 DEF Jobs
<1> HIDE DEF j
<1>8. pc'[s] = "rmRest" /\ job'[s] = j => StackInv(s)'
  BY <1>1, <1>2, <1>3, <1>4, <1>5, <1>6, <1>7, Assumed
     DEF StackInv, IdleInv, GuardInv, RecordInv, SeenInv, RemovalInv,
         AtServices, AtRemoval, Guarded, Unrecorded
<1>9. "rmRest" \in PCs \ Unrecorded
  BY DEF PCs, Unrecorded
<1> QED
  BY <1>1, <1>7, <1>8, <1>9, StepKeeps

-----------------------------------------------------------------------------
(* Steps that change who holds a name *)

LEMMA InstallFrame ==
    ASSUME InstallInv, UNCHANGED <<records, pc>>,
           \A t \in Stacks : job'[t].install = job[t].install
    PROVE  InstallInv'
BY DEF InstallInv

\* What a removal has listed is still all there is, and networks stay whose they were.
LEMMA HolderFrame ==
    ASSUME NEW t \in Stacks, StackInv(t), pc'[t] = pc[t], job'[t] = job[t],
           UNCHANGED <<svc, records, mine>>,
           pc[t] = "rmRest" =>
              /\ Owned(t)' \subseteq Owned(t)
              /\ \A n \in job[t].listed \cap Of({"network"}) : holder[n] = t => holder'[n] = t
    PROVE  StackInv(t)'
BY DEF StackInv, IdleInv, GuardInv, RecordInv, SeenInv, RemovalInv, Running

\* A step of s, past its guards, that takes a name for it.
LEMMA TakeKeeps ==
    ASSUME IInv, NEW s \in Stacks, NEW n \in Names, pc[s] = "resources",
           Kind[n] = "network" => holder[n] = None \/ holder' = holder,
           holder' = [holder EXCEPT ![n] = s] \/ holder' = holder,
           n \in ControllerMounts => s \in Self \/ holder' = holder,
           Done(s, n), UNCHANGED <<chart, budget, svc, records, mine, pc>>
    PROVE  IInv'
<1> USE Assumed
<1> DEFINE todo == job[s].todo \ {n}
           j == [job[s] EXCEPT !.todo = todo]
<1>1. /\ job' = [job EXCEPT ![s] = j] /\ job[s] \in Jobs /\ job \in [Stacks -> Jobs]
      /\ todo \in SUBSET Names /\ todo \subseteq job[s].todo /\ budget \in 0 .. MaxMishaps
  BY DEF Done, IInv, TypeOK, Jobs
<1> HIDE DEF todo
<1>2. /\ j \in Jobs /\ j.todo = todo /\ j.seen = job[s].seen /\ j.at = job[s].at
      /\ j.held = job[s].held /\ j.install = job[s].install /\ j.touched = job[s].touched
      /\ j.fate = job[s].fate /\ j.force = job[s].force /\ j.reported = job[s].reported
  BY <1>1 DEF Jobs
<1> HIDE DEF j
<1>3. /\ job' \in [Stacks -> Jobs] /\ job'[s] = j
      /\ \A t \in Stacks \ {s} : job'[t] = job[t]
  BY <1>1, <1>2
<1>4. /\ holder' \in [Names -> Stacks \cup {None, Nobody}]
      /\ \A m \in Names : holder'[m] # holder[m] => m = n /\ holder'[m] = s
  BY DEF IInv, TypeOK
<1>5. TypeOK'
  BY <1>3, <1>4 DEF IInv, TypeOK, Actual
<1>6. InstallInv'
  BY <1>2, <1>3, InstallFrame DEF IInv
<1>7. SpareInv' /\ RecordsApart'
  BY <1>4 DEF IInv, SpareInv, RecordsApart
<1>8. ASSUME NEW t \in Stacks PROVE StackInv(t)'
  <2>1. CASE t # s
    <3>1. \A m \in Names : Kind[m] = "network" /\ holder[m] = t => holder'[m] = t
      BY <1>4, <2>1
    <3>2. Owned(t)' \subseteq Owned(t)
      BY <1>4, <2>1 DEF Owned, Of
    <3> QED
      BY <1>3, <2>1, <3>1, <3>2, HolderFrame DEF IInv, Of
  <2>2. CASE t = s
    BY <1>1, <1>2, <1>3, <2>2
       DEF IInv, StackInv, IdleInv, GuardInv, RecordInv, SeenInv, RemovalInv,
           AtServices, AtRemoval, Guarded, Unrecorded
  <2> QED
    BY <2>1, <2>2
<1> QED
  BY <1>5, <1>6, <1>7, <1>8 DEF IInv

LEMMA ApplyNetworkKeeps == ASSUME IInv, NEW s \in Stacks, ApplyNetwork(s) PROVE IInv'
<1> PICK n \in job[s].todo \cap Of({"network"}) :
        /\ pc[s] = "resources"
        /\ IF n \notin job[s].live /\ holder[n] # None
           THEN Return(s) /\ UNCHANGED holder
           ELSE /\ holder' = [holder EXCEPT ![n] = IF n \in job[s].live THEN @ ELSE s]
                /\ Done(s, n) /\ UNCHANGED pc
        /\ UNCHANGED <<chart, budget, svc, records, mine>>
  BY DEF ApplyNetwork
<1>1. n \in Names /\ Kind[n] = "network" /\ n \notin ControllerMounts
      /\ budget' \in 0 .. MaxMishaps /\ holder \in [Names -> Stacks \cup {None, Nobody}]
  BY Assumed, Spent DEF Of, IInv, TypeOK
<1>2. CASE n \notin job[s].live /\ holder[n] # None
  BY <1>1, <1>2, ReturnKeeps
<1>3. CASE n \notin job[s].live /\ holder[n] = None
  BY <1>1, <1>3, TakeKeeps
<1>4. CASE n \in job[s].live
  <2>1. holder' = holder
    BY <1>1, <1>4
  <2> QED
    BY <1>1, <1>4, <2>1, TakeKeeps
<1> QED
  BY <1>2, <1>3, <1>4

LEMMA ApplyResourceKeeps == ASSUME IInv, NEW s \in Stacks, ApplyResource(s) PROVE IInv'
<1> PICK n \in job[s].todo \cap Of({"secret", "config"}) :
        /\ pc[s] = "resources"
        /\ IF holder[n] = None \/ Adoptable(s, n)
           THEN /\ holder' = [holder EXCEPT ![n] = s]
                /\ Done(s, n) /\ UNCHANGED pc
           ELSE Return(s) /\ UNCHANGED holder
        /\ UNCHANGED <<chart, budget, svc, records, mine>>
  BY DEF ApplyResource
<1>1. /\ n \in Names /\ Kind[n] # "network" /\ budget' \in 0 .. MaxMishaps
      /\ n \in ControllerMounts => s \in Self
  BY Spent DEF Of, IInv, StackInv, GuardInv, Protected
<1> QED
  BY <1>1, TakeKeeps, ReturnKeeps

\* What is deleted is on no list any more, and nobody's.
LEMMA DeletedKeeps ==
    ASSUME IInv, NEW n \in Names \ ControllerMounts, NEW others, Deleted(n, others),
           UNCHANGED <<chart, svc, records, mine, pc>>, budget' \in 0 .. MaxMishaps
    PROVE  IInv'
<1> USE Assumed
<1> PICK failed \in SUBSET {t \in others : Kind[n] = "network"} :
        job' = [t \in Stacks |->
                  IF t \in Listing(n)
                  THEN [job[t] EXCEPT !.listed = @ \ {n}, !.errs = @ \/ t \in failed]
                  ELSE job[t]]
  BY DEF Deleted
<1>1. /\ holder' \in [Names -> Stacks \cup {None, Nobody}]
      /\ \A m \in Names \ {n} : holder'[m] = holder[m]
      /\ holder'[n] = None
  BY DEF Deleted, IInv, TypeOK
<1>2. ASSUME NEW t \in Stacks
      PROVE  LET j == job[t] k == job'[t] IN
             /\ k \in Jobs /\ k.todo = j.todo /\ k.at = j.at /\ k.force = j.force
             /\ k.seen = j.seen /\ k.held = j.held /\ k.install = j.install /\ k.fate = j.fate
             /\ k.touched = j.touched /\ k.reported = j.reported
             /\ t \notin Listing(n) => k = j
             /\ t \in Listing(n) => k.listed = j.listed \ {n} /\ (j.errs => k.errs)
  <2> DEFINE j == job[t]
             listed == j.listed \ {n}
             errs == j.errs \/ t \in failed
  <2>1. j \in Jobs
    BY DEF IInv, TypeOK
  <2>2. listed \in SUBSET (Services \cup Names) /\ errs \in BOOLEAN /\ (j.errs => errs)
    BY <2>1 DEF Jobs
  <2>3. t \in Listing(n) => job'[t] = [j EXCEPT !.listed = listed, !.errs = errs]
    OBVIOUS
  <2>4. t \notin Listing(n) => job'[t] = j
    OBVIOUS
  <2>5. listed = j.listed \ {n}
    OBVIOUS
  <2> HIDE DEF j, listed, errs
  <2>6. LET k == [j EXCEPT !.listed = listed, !.errs = errs] IN
        /\ k \in Jobs /\ k.todo = j.todo /\ k.at = j.at /\ k.force = j.force
        /\ k.seen = j.seen /\ k.held = j.held /\ k.install = j.install /\ k.fate = j.fate
        /\ k.touched = j.touched /\ k.reported = j.reported /\ k.listed = listed /\ k.errs = errs
    BY ONLY <2>1, <2>2 DEF Jobs
  <2> QED
    BY <2>1, <2>2, <2>3, <2>4, <2>5, <2>6 DEF j
<1>3. job' \in [Stacks -> Jobs]
  BY <1>2
<1>4. TypeOK'
  BY <1>1, <1>3 DEF IInv, TypeOK, Actual
<1>5. InstallInv'
  BY <1>2, InstallFrame DEF IInv
<1>6. SpareInv' /\ RecordsApart'
  BY <1>1 DEF IInv, SpareInv, RecordsApart
<1>7. ASSUME NEW t \in Stacks PROVE StackInv(t)'
  <2>1. CASE t \notin Listing(n)
    <3>1. job'[t] = job[t] /\ pc'[t] = pc[t]
      BY <1>2, <2>1
    <3>2. Owned(t)' \subseteq Owned(t)
      BY <1>1 DEF Owned, Of
    <3>3. pc[t] = "rmRest" => n \notin job[t].listed
      BY <2>1 DEF Listing
    <3> QED
      BY <1>1, <3>1, <3>2, <3>3, HolderFrame DEF IInv, Of
  <2>2. CASE t \in Listing(n)
    <3>1. /\ pc[t] = "rmRest" /\ StackInv(t) /\ pc'[t] = pc[t]
          /\ job'[t].listed = job[t].listed \ {n} /\ (job[t].errs => job'[t].errs)
      BY <1>2, <2>2 DEF Listing, IInv
    <3>2. Owned(t)' = Owned(t) \ {n} /\ Running(t)' = Running(t)
      BY <1>1 DEF Owned, Of, Running
    <3>3. RemovalInv(t)'
      BY <1>1, <3>1, <3>2 DEF StackInv, RemovalInv, Of
    <3>4. IdleInv(t)' /\ GuardInv(t)' /\ RecordInv(t)'
      BY <1>2, <3>1 DEF StackInv, IdleInv, GuardInv, RecordInv, AtServices, AtRemoval,
                        Guarded, Unrecorded
    <3>5. SeenInv(t)'
      <4>1. /\ job'[t].seen = job[t].seen /\ job'[t].at = job[t].at /\ job'[t].held = job[t].held
            /\ job'[t].fate = job[t].fate /\ job'[t].force = job[t].force
            /\ job'[t].touched = job[t].touched /\ job'[t].reported = job[t].reported
        BY <1>2
      <4>2. SeenInv(t) /\ UNCHANGED <<svc, records, pc>>
        BY <3>1 DEF StackInv
      <4> QED
        BY ONLY <4>1, <4>2 DEF SeenInv
    <3> QED
      BY <3>3, <3>4, <3>5 DEF StackInv
  <2> QED
    BY <2>1, <2>2
<1> QED
  BY <1>4, <1>5, <1>6, <1>7 DEF IInv

LEMMA RemoveResourceKeeps == ASSUME IInv, NEW s \in Stacks, RemoveResource(s) PROVE IInv'
<1> PICK n \in job[s].listed :
        /\ pc[s] = "rmRest"
        /\ \/ ~InUse(n) /\ Deleted(n, Listing(n) \ {s}) /\ UNCHANGED budget
           \/ /\ IF InUse(n) THEN UNCHANGED budget ELSE Mishap
              /\ UNCHANGED holder
              /\ job' = [job EXCEPT ![s].listed = @ \ {n}, ![s].errs = TRUE]
        /\ UNCHANGED <<chart, svc, records, mine, pc>>
  BY DEF RemoveResource
<1>1. /\ IdleInv(s) /\ GuardInv(s) /\ RemovalInv(s) /\ RecordInv(s) /\ SeenInv(s)
      /\ n \in Names \ ControllerMounts /\ budget' \in 0 .. MaxMishaps
      /\ job[s] \in Jobs
  BY Spent DEF IInv, StackInv, IdleInv, RemovalInv
<1>2. CASE Deleted(n, Listing(n) \ {s})
  BY <1>1, <1>2, DeletedKeeps
<1>3. CASE /\ UNCHANGED holder
           /\ job' = [job EXCEPT ![s].listed = @ \ {n}, ![s].errs = TRUE]
  <2> DEFINE listed == job[s].listed \ {n}
             j == [job[s] EXCEPT !.listed = listed, !.errs = TRUE]
  <2>1. job' = [job EXCEPT ![s] = j] /\ pc' = [pc EXCEPT ![s] = "rmRest"] /\ "rmRest" \in PCs
    BY <1>3 DEF IInv, TypeOK, PCs
  <2>2. listed \in SUBSET (Services \cup Names) /\ listed \subseteq job[s].listed
    BY <1>1 DEF Jobs
  <2> HIDE DEF listed
  <2>3. /\ j \in Jobs /\ j.todo = job[s].todo /\ j.seen = job[s].seen /\ j.at = job[s].at
        /\ j.held = job[s].held /\ j.install = job[s].install /\ j.touched = job[s].touched
        /\ j.fate = job[s].fate /\ j.force = job[s].force /\ j.reported = job[s].reported
        /\ j.listed = listed /\ j.errs = TRUE
    BY ONLY <1>1, <2>2 DEF Jobs, j
  <2> HIDE DEF j
  <2>4. pc'[s] = "rmRest" /\ job'[s] = j
    BY <2>1, <2>3 DEF IInv, TypeOK
  <2>5. StackInv(s)'
    <3>1. UNCHANGED <<svc, records, mine, holder, pc>>
      BY <1>3
    <3>2. RemovalInv(s)'
      BY <1>1, <2>2, <2>3, <2>4, <3>1 DEF RemovalInv, Of
    <3>3. IdleInv(s)'
      BY <1>1, <2>2, <2>3, <2>4, <3>1 DEF IdleInv, AtServices, AtRemoval
    <3>4. GuardInv(s)' /\ RecordInv(s)'
      BY <1>1, <2>3, <2>4, <3>1 DEF GuardInv, RecordInv, AtServices, AtRemoval, Guarded,
                                    Unrecorded
    <3>5. SeenInv(s)'
      BY ONLY <1>1, <2>3, <2>4, <3>1 DEF SeenInv
    <3> QED
      BY <3>2, <3>3, <3>4, <3>5 DEF StackInv
  <2>6. j.install = FALSE
    BY <1>1, <2>3 DEF IdleInv, AtRemoval, Jobs
  <2> QED
    BY <1>1, <1>3, <2>1, <2>3, <2>5, <2>6, LocalKeeps DEF Unrecorded
<1> QED
  BY <1>2, <1>3

LEMMA HandDeleteKeeps == ASSUME IInv, HandDelete PROVE IInv'
<1> PICK n \in Names \ ControllerMounts :
        Mishap /\ Deleted(n, Listing(n)) /\ UNCHANGED <<chart, svc, records, mine, pc>>
  BY DEF HandDelete
<1>1. budget' \in 0 .. MaxMishaps
  BY Assumed DEF IInv, TypeOK, Mishap
<1> QED
  BY <1>1, DeletedKeeps

LEMMA HandCreateKeeps == ASSUME IInv, HandCreate PROVE IInv'
<1> USE Assumed
<1> PICK n \in Names, by \in {Nobody} \cup Stacks :
        /\ Mishap /\ holder[n] = None
        /\ by \in Stacks => ~Removing(by)
        /\ holder' = [holder EXCEPT ![n] = by]
        /\ UNCHANGED <<chart, svc, records, mine, pc, job>>
  BY DEF HandCreate
<1>1. /\ holder' \in [Names -> Stacks \cup {None, Nobody}] /\ holder'[n] = by
      /\ \A m \in Names \ {n} : holder'[m] = holder[m]
      /\ budget' \in 0 .. MaxMishaps
  BY DEF IInv, TypeOK, Mishap
<1>2. TypeOK' /\ InstallInv' /\ RecordsApart'
  BY <1>1 DEF IInv, TypeOK, Actual, InstallInv, RecordsApart
<1>3. SpareInv'
  BY <1>1 DEF IInv, SpareInv
<1>4. ASSUME NEW t \in Stacks PROVE StackInv(t)'
  <2>1. ASSUME pc[t] = "rmRest" PROVE Owned(t)' \subseteq Owned(t)
    <3>1. by # t
      BY <2>1 DEF Removing
    <3> QED
      BY <1>1, <3>1 DEF Owned, Of
  <2>2. \A m \in Names : holder[m] = t => holder'[m] = t
    BY <1>1
  <2> QED
    BY <2>1, <2>2, HolderFrame DEF IInv, Of
<1> QED
  BY <1>2, <1>3, <1>4 DEF IInv

-----------------------------------------------------------------------------
(* Steps that write, remove or edit a service *)

\* Who has listed the service is to hear of it; everybody else keeps what is said of them.
LEMMA SvcFrame ==
    ASSUME TypeOK, NEW t \in Stacks, StackInv(t),
           NEW v \in Services, NEW fate \in {"changed", "gone"},
           pc'[t] = pc[t], job'[t] = Met(v, fate)[t], UNCHANGED <<holder, records, mine>>,
           \A w \in Services \ {v} : svc'[w] = svc[w],
           svc'[v].stack = t => svc[v].stack = t,
           v \in job[t].seen /\ job[t].fate[v] # "gone" /\ fate = "changed" => svc'[v].stack = t
    PROVE  StackInv(t)'
<1>1. Running(t)' \subseteq Running(t) /\ Owned(t)' = Owned(t)
  BY DEF Running, Owned
<1>2. IdleInv(t) /\ GuardInv(t) /\ RecordInv(t) /\ SeenInv(t) /\ RemovalInv(t)
  BY DEF StackInv
<1>3. CASE v \notin job[t].seen
  <2>1. job'[t] = job[t]
    BY <1>3, MetType
  <2>2. SeenInv(t)'
    <3>1. job[t].seen \subseteq Services
      BY DEF TypeOK, Jobs
    <3> QED
      BY <1>2, <1>3, <2>1, <3>1 DEF SeenInv
  <2>3. IdleInv(t)' /\ GuardInv(t)' /\ RecordInv(t)'
    BY <1>2, <2>1 DEF IdleInv, GuardInv, RecordInv
  <2>4. RemovalInv(t)'
    BY <1>1, <1>2, <2>1 DEF RemovalInv
  <2> QED
    BY <2>2, <2>3, <2>4 DEF StackInv
<1>4. CASE v \in job[t].seen
  <2> DEFINE j == job[t]
             k == job'[t]
  <2>1. /\ k.todo = j.todo /\ k.at = j.at /\ k.force = j.force /\ k.seen = j.seen
        /\ k.held = j.held /\ k.install = j.install /\ k.errs = j.errs
        /\ k.listed = j.listed /\ k.reported = j.reported
        /\ \A w \in Services \ {v} : k.fate[w] = j.fate[w] /\ (w \in k.touched <=> w \in j.touched)
        /\ k.fate[v] \in {"changed", "gone"}
        /\ k.fate[v] = "gone" <=> (j.fate[v] = "gone" \/ fate = "gone")
        /\ j.seen \subseteq Services
    BY <1>4, MetType DEF TypeOK, Jobs
  <2> HIDE DEF j, k
  <2>2. pc[t] \in AtServices /\ pc'[t] \in AtServices
    BY <1>2, <1>4 DEF IdleInv
  <2>3. IdleInv(t)'
    BY <2>2 DEF IdleInv, AtServices, AtRemoval
  <2>4. GuardInv(t)' /\ RecordInv(t)'
    BY <1>2, <2>2 DEF GuardInv, RecordInv, AtServices, AtRemoval, Guarded, Unrecorded
  <2>5. RemovalInv(t)'
    BY <2>2 DEF RemovalInv, AtServices
  <2>6. SeenInv(t)'
    <3>1. \A w \in Services \ k.seen : k.fate[w] = "fresh" /\ w \notin k.touched
      BY <1>2, <1>4, <2>1 DEF SeenInv, j
    <3>2. \A w \in k.seen : k.fate[w] # "gone" => svc'[w].stack = t
      BY <1>2, <1>4, <2>1 DEF SeenInv, j
    <3>3. \A w \in k.seen : k.fate[w] = "fresh" =>
             k.force[w] = svc'[w].force /\ w \notin k.touched \ k.reported
      BY <1>2, <2>1 DEF SeenInv, j
    <3> QED
      BY <1>2, <2>1, <3>1, <3>2, <3>3 DEF SeenInv, j, k
  <2> QED
    BY <2>3, <2>4, <2>5, <2>6 DEF StackInv
<1> QED
  BY <1>3, <1>4

\* A deploy writes a service that does not run or, as it has read it, its own.
LEMMA WriteKeeps ==
    ASSUME IInv, NEW s \in Stacks, NEW v \in Services, NEW force \in Nat, Write(s, v, force),
           pc[s] \in {"write", "self"}, UNCHANGED <<chart, budget, holder, records, mine, pc>>,
           svc[v].stack \in {None, s},
           svc[v].stack = None => v \notin job[s].seen,
           v \in job[s].seen => svc[v].force = force
    PROVE  IInv'
<1> USE Assumed
<1> DEFINE left == job[s].left \ {v}
           j == [job[s] EXCEPT !.left = left, !.at = None, !.tries = 0]
<1>1. /\ job' = [Met(v, "changed") EXCEPT ![s] = j] /\ job[s] \in Jobs /\ TypeOK
      /\ left \in SUBSET Services /\ 0 \in 0 .. MaxConflictRetries
  BY DEF Write, IInv, TypeOK, Jobs
<1> HIDE DEF left
<1>2. /\ j \in Jobs /\ j.todo = job[s].todo /\ j.seen = job[s].seen /\ j.at = None
      /\ j.held = job[s].held /\ j.install = job[s].install /\ j.touched = job[s].touched
      /\ j.fate = job[s].fate /\ j.force = job[s].force /\ j.reported = job[s].reported
  BY ONLY <1>1 DEF Jobs, j
<1> HIDE DEF j
<1>3. Met(v, "changed") \in [Stacks -> Jobs]
  BY <1>1, MetType
<1>4. /\ job' \in [Stacks -> Jobs] /\ job'[s] = j
      /\ \A t \in Stacks \ {s} : job'[t] = Met(v, "changed")[t]
  BY <1>1, <1>2, <1>3
<1>5. /\ svc' \in [Services -> [stack : Stacks \cup {None}, engine : BOOLEAN, force : Nat]]
      /\ svc'[v].stack = s /\ svc'[v].force = force
      /\ \A w \in Services \ {v} : svc'[w] = svc[w]
  BY DEF Write, IInv, TypeOK
<1>6. TypeOK'
  BY <1>4, <1>5 DEF IInv, TypeOK, Actual
<1>7. \A t \in Stacks : job'[t].install = job[t].install
  BY <1>1, <1>2, <1>4, MetType
<1>8. InstallInv' /\ RecordsApart'
  BY <1>7, InstallFrame DEF IInv, RecordsApart
<1>9. SpareInv'
  BY <1>5 DEF IInv, SpareInv
<1>10. ASSUME NEW t \in Stacks PROVE StackInv(t)'
  <2>1. CASE t # s
    <3>1. v \in job[t].seen => job[t].fate[v] = "gone"
      BY <2>1 DEF IInv, StackInv, SeenInv
    <3>2. svc'[v].stack # t
      BY <1>5, <2>1
    <3>3. job'[t] = Met(v, "changed")[t] /\ StackInv(t) /\ pc'[t] = pc[t]
      BY <1>4, <2>1 DEF IInv
    <3>4. job[t].fate[v] = "gone" \/ v \notin job[t].seen
      BY <3>1
    <3> QED
      BY <1>1, <1>5, <3>2, <3>3, <3>4, SvcFrame
  <2>2. CASE t = s
    <3>1. IdleInv(s) /\ GuardInv(s) /\ RecordInv(s) /\ SeenInv(s) /\ RemovalInv(s)
      BY DEF IInv, StackInv
    <3>2. IdleInv(s)' /\ GuardInv(s)' /\ RecordInv(s)' /\ RemovalInv(s)'
      BY <1>2, <1>4, <3>1
         DEF IdleInv, GuardInv, RecordInv, RemovalInv, AtServices, AtRemoval, Guarded, Unrecorded
    <3>3. SeenInv(s)'
      <4>0. job[s].seen \subseteq Services
        BY <1>1 DEF Jobs
      <4>1. \A w \in job[s].seen : job[s].fate[w] # "gone" => svc'[w].stack = s
        BY <1>5, <3>1, <4>0 DEF SeenInv
      <4>2. \A w \in job[s].seen : job[s].fate[w] = "fresh" => job[s].force[w] = svc'[w].force
        BY <1>5, <3>1, <4>0 DEF SeenInv
      <4> QED
        BY <1>2, <1>4, <3>1, <4>1, <4>2 DEF SeenInv
    <3> QED
      BY <2>2, <3>2, <3>3 DEF StackInv
  <2> QED
    BY <2>1, <2>2
<1> QED
  BY <1>6, <1>8, <1>9, <1>10 DEF IInv

LEMMA CreateKeeps == ASSUME IInv, NEW s \in Stacks, Create(s) PROVE IInv'
<1> PICK v \in job[s].left \ job[s].seen :
        /\ pc[s] = "write" /\ job[s].at = None
        /\ IF svc[v].stack = None
           THEN Write(s, v, 0) /\ UNCHANGED pc
           ELSE Return(s) /\ UNCHANGED svc
        /\ UNCHANGED <<chart, budget, holder, records, mine>>
  BY DEF Create
<1>1. v \in Services /\ budget' \in 0 .. MaxMishaps
  BY Spent DEF IInv, Jobs
<1>2. CASE svc[v].stack = None
  BY <1>1, <1>2, WriteKeeps
<1>3. CASE svc[v].stack # None
  BY <1>1, <1>3, ReturnKeeps
<1> QED
  BY <1>2, <1>3

\* What a deploy is about to write is its own, as it has read it.
LEMMA UpdateReads ==
    ASSUME IInv, NEW s \in Stacks, Update(s)
    PROVE  LET v == job[s].at IN
           /\ v \in Services /\ v \in job[s].seen /\ svc[v].stack = s
           /\ svc[v].force = job[s].force[v] /\ v \notin job[s].touched \ job[s].reported
           /\ job[s].force[v] \in Nat /\ pc[s] \in {"write", "self"}
           /\ Write(s, v, job[s].force[v])
           /\ UNCHANGED <<chart, budget, holder, records, mine, pc>>
<1>1. /\ job[s].at # None /\ job[s].fate[job[s].at] = "fresh" /\ pc[s] \in {"write", "self"}
      /\ Write(s, job[s].at, job[s].force[job[s].at])
      /\ UNCHANGED <<chart, budget, holder, records, mine, pc>>
  BY DEF Update
<1>2. SeenInv(s) /\ job[s] \in Jobs
  BY DEF IInv, StackInv, TypeOK
<1> QED
  BY <1>1, <1>2 DEF SeenInv, Jobs

LEMMA UpdateKeeps == ASSUME IInv, NEW s \in Stacks, Update(s) PROVE IInv'
<1> DEFINE v == job[s].at
           force == job[s].force[v]
<1>1. /\ v \in Services /\ v \in job[s].seen /\ svc[v].stack = s
      /\ svc[v].force = force /\ force \in Nat /\ pc[s] \in {"write", "self"}
      /\ Write(s, v, force) /\ UNCHANGED <<chart, budget, holder, records, mine, pc>>
  BY UpdateReads
<1> HIDE DEF v, force
<1>2. svc[v].stack # None
  BY <1>1, Assumed
<1> QED
  BY <1>1, <1>2, WriteKeeps

LEMMA RemoveServiceKeeps == ASSUME IInv, NEW s \in Stacks, RemoveService(s) PROVE IInv'
<1> USE Assumed
<1> PICK v \in job[s].listed :
        /\ pc[s] = "rmServices"
        /\ \/ /\ svc' = [svc EXCEPT ![v] = IF @.stack = s THEN Absent ELSE @]
              /\ job' = [Met(v, "gone") EXCEPT ![s].listed = @ \ {v}] /\ UNCHANGED budget
           \/ /\ Mishap /\ UNCHANGED svc
              /\ job' = [job EXCEPT ![s].listed = @ \ {v}, ![s].errs = TRUE]
        /\ UNCHANGED <<chart, holder, records, mine, pc>>
  BY DEF RemoveService
<1> DEFINE listed == job[s].listed \ {v}
<1>1. /\ IdleInv(s) /\ GuardInv(s) /\ RemovalInv(s) /\ RecordInv(s) /\ SeenInv(s)
      /\ v \in Services /\ budget' \in 0 .. MaxMishaps /\ job[s] \in Jobs /\ TypeOK
      /\ s # Controller /\ job[s].seen = {} /\ job[s].install = FALSE
  <2>1. IdleInv(s) /\ GuardInv(s) /\ RemovalInv(s) /\ RecordInv(s) /\ SeenInv(s) /\ TypeOK
    BY DEF IInv, StackInv
  <2>2. job[s] \in Jobs /\ budget' \in 0 .. MaxMishaps
    BY <2>1, Spent
  <2> QED
    BY <2>1, <2>2 DEF IdleInv, GuardInv, AtServices, AtRemoval, Jobs
<1>2. listed \in SUBSET (Services \cup Names) /\ listed \subseteq job[s].listed
  BY <1>1 DEF Jobs
<1>3. CASE /\ Mishap /\ UNCHANGED svc
           /\ job' = [job EXCEPT ![s].listed = @ \ {v}, ![s].errs = TRUE]
  <2> DEFINE j == [job[s] EXCEPT !.listed = listed, !.errs = TRUE]
  <2>1. job' = [job EXCEPT ![s] = j] /\ pc' = [pc EXCEPT ![s] = "rmServices"]
    BY <1>3 DEF IInv, TypeOK
  <2> HIDE DEF listed
  <2>2. /\ j \in Jobs /\ j.todo = job[s].todo /\ j.seen = job[s].seen /\ j.at = job[s].at
        /\ j.held = job[s].held /\ j.install = job[s].install /\ j.touched = job[s].touched
        /\ j.fate = job[s].fate /\ j.force = job[s].force /\ j.reported = job[s].reported
        /\ j.listed = listed /\ j.errs = TRUE
    BY ONLY <1>1, <1>2 DEF Jobs, j
  <2> HIDE DEF j
  <2>3. pc'[s] = "rmServices" /\ job'[s] = j /\ UNCHANGED <<svc, records, mine, holder, pc>>
    BY <1>3, <2>1, <2>2 DEF IInv, TypeOK
  <2>4. StackInv(s)'
    <3>1. RemovalInv(s)'
      BY <1>1, <2>2, <2>3 DEF RemovalInv
    <3>2. IdleInv(s)'
      BY <1>1, <1>2, <2>2, <2>3 DEF IdleInv, AtServices, AtRemoval
    <3>3. GuardInv(s)' /\ RecordInv(s)'
      BY <1>1, <2>2, <2>3 DEF GuardInv, RecordInv, AtServices, AtRemoval, Guarded, Unrecorded
    <3>4. SeenInv(s)'
      BY ONLY <1>1, <2>2, <2>3 DEF SeenInv
    <3> QED
      BY <3>1, <3>2, <3>3, <3>4 DEF StackInv
  <2>5. "rmServices" \in PCs \ Unrecorded /\ j.install = FALSE
    BY <1>1, <2>2 DEF PCs, Unrecorded
  <2> QED
    BY <1>1, <1>3, <2>1, <2>2, <2>4, <2>5, LocalKeeps
<1>4. CASE /\ svc' = [svc EXCEPT ![v] = IF @.stack = s THEN Absent ELSE @]
           /\ job' = [Met(v, "gone") EXCEPT ![s].listed = @ \ {v}]
  <2> DEFINE j == [job[s] EXCEPT !.listed = listed]
  <2>1. Met(v, "gone") \in [Stacks -> Jobs] /\ Met(v, "gone")[s] = job[s]
    BY <1>1, MetType
  <2>2. job' = [Met(v, "gone") EXCEPT ![s] = j]
    BY <1>4, <2>1
  <2> HIDE DEF listed
  <2>3. /\ j \in Jobs /\ j.todo = job[s].todo /\ j.seen = job[s].seen /\ j.at = job[s].at
        /\ j.held = job[s].held /\ j.install = job[s].install /\ j.touched = job[s].touched
        /\ j.fate = job[s].fate /\ j.force = job[s].force /\ j.reported = job[s].reported
        /\ j.listed = listed /\ j.errs = job[s].errs
    BY ONLY <1>1, <1>2 DEF Jobs, j
  <2> HIDE DEF j
  <2>4. /\ job' \in [Stacks -> Jobs] /\ job'[s] = j
        /\ \A t \in Stacks \ {s} : job'[t] = Met(v, "gone")[t]
    BY <2>1, <2>2, <2>3
  <2>5. Absent \in [stack : Stacks \cup {None}, engine : BOOLEAN, force : Nat]
        /\ Absent.stack = None
    BY DEF Absent
  <2>6. /\ svc' \in [Services -> [stack : Stacks \cup {None}, engine : BOOLEAN, force : Nat]]
        /\ svc'[v].stack # s /\ (svc[v].stack # s => svc'[v] = svc[v])
        /\ svc'[v].stack \in {svc[v].stack, None}
        /\ \A w \in Services \ {v} : svc'[w] = svc[w]
    BY <1>1, <1>4, <2>5 DEF TypeOK
  <2>7. TypeOK'
    BY <1>1, <2>4, <2>6 DEF TypeOK, Actual
  <2>8. \A t \in Stacks : job'[t].install = job[t].install
    BY <1>1, <2>3, <2>4, MetType
  <2>9. InstallInv' /\ RecordsApart'
    BY <2>8, InstallFrame DEF IInv, RecordsApart
  <2>10. SpareInv'
    BY <1>1, <2>6 DEF IInv, SpareInv
  <2>11. ASSUME NEW t \in Stacks PROVE StackInv(t)'
    <3>1. CASE t # s
      <4>1. svc'[v].stack = t => svc[v].stack = t
        BY <2>6
      <4>2. job'[t] = Met(v, "gone")[t] /\ StackInv(t) /\ pc'[t] = pc[t]
        BY <2>4, <3>1 DEF IInv
      <4> QED
        BY <1>1, <2>6, <4>1, <4>2, SvcFrame
    <3>2. CASE t = s
      <4>1. pc'[s] = pc[s] /\ Running(s)' \subseteq Running(s) \ {v}
        BY <2>6 DEF Running
      <4>2. RemovalInv(s)'
        BY <1>1, <2>3, <2>4, <4>1 DEF RemovalInv, listed
      <4>3. IdleInv(s)' /\ GuardInv(s)' /\ RecordInv(s)'
        BY <1>1, <1>2, <2>3, <2>4, <4>1
           DEF IdleInv, GuardInv, RecordInv, AtServices, AtRemoval, Guarded, Unrecorded
      <4>4. SeenInv(s)'
        BY <1>1, <2>3, <2>4, <4>1 DEF SeenInv
      <4> QED
        BY <3>2, <4>2, <4>3, <4>4 DEF StackInv
    <3> QED
      BY <3>1, <3>2
  <2> QED
    BY <2>7, <2>9, <2>10, <2>11 DEF IInv
<1> QED
  BY <1>3, <1>4

\* People's changes to a service, which every deploy that has listed it is to hear of.
LEMMA HandFrame ==
    ASSUME IInv, NEW v \in Services, NEW fate \in {"changed", "gone"},
           job' = Met(v, fate), UNCHANGED <<chart, holder, records, mine, pc>>,
           budget' \in 0 .. MaxMishaps,
           svc' \in [Services -> [stack : Stacks \cup {None}, engine : BOOLEAN, force : Nat]],
           \A w \in Services \ {v} : svc'[w] = svc[w],
           svc'[v].stack = IF fate = "gone" THEN None ELSE svc[v].stack,
           v = ControllerService => fate # "gone"
    PROVE  IInv'
<1>1. TypeOK /\ job' \in [Stacks -> Jobs] /\ \A t \in Stacks : job'[t].install = job[t].install
  BY MetType DEF IInv
<1>2. TypeOK'
  BY <1>1 DEF TypeOK, Actual
<1>3. InstallInv' /\ RecordsApart'
  BY <1>1, InstallFrame DEF IInv, RecordsApart
<1>4. SpareInv'
  BY Assumed DEF IInv, SpareInv
<1>5. ASSUME NEW t \in Stacks PROVE StackInv(t)'
  <2>1. StackInv(t) /\ job'[t] = Met(v, fate)[t] /\ pc'[t] = pc[t]
    BY DEF IInv
  <2>2. svc'[v].stack = t => svc[v].stack = t
    BY Assumed
  <2>3. v \in job[t].seen /\ job[t].fate[v] # "gone" => svc[v].stack = t
    BY <2>1 DEF StackInv, SeenInv
  <2>4. v \in job[t].seen /\ job[t].fate[v] # "gone" /\ fate = "changed" => svc'[v].stack = t
    BY <2>3
  <2> QED
    BY <1>1, <2>1, <2>2, <2>4, SvcFrame
<1> QED
  BY <1>2, <1>3, <1>4, <1>5 DEF IInv

LEMMA HandRemoveServiceKeeps == ASSUME IInv, HandRemoveService PROVE IInv'
<1> PICK v \in Services \ {ControllerService} :
        /\ Mishap /\ svc' = [svc EXCEPT ![v] = Absent] /\ job' = Met(v, "gone")
        /\ UNCHANGED <<chart, holder, records, mine, pc>>
  BY DEF HandRemoveService
<1>1. budget' \in 0 .. MaxMishaps
  BY Assumed DEF IInv, TypeOK, Mishap
<1>2. /\ svc' \in [Services -> [stack : Stacks \cup {None}, engine : BOOLEAN, force : Nat]]
      /\ svc'[v].stack = None /\ \A w \in Services \ {v} : svc'[w] = svc[w]
  BY DEF IInv, TypeOK, Absent
<1> QED
  BY <1>1, <1>2, HandFrame

LEMMA HandRestartKeeps == ASSUME IInv, HandRestart PROVE IInv'
<1> PICK v \in Services :
        /\ Mishap /\ svc' = [svc EXCEPT ![v].force = @ + 1] /\ job' = Met(v, "changed")
        /\ UNCHANGED <<chart, holder, records, mine, pc>>
  BY DEF HandRestart
<1>1. budget' \in 0 .. MaxMishaps
  BY Assumed DEF IInv, TypeOK, Mishap
<1> DEFINE Svcs == [stack : Stacks \cup {None}, engine : BOOLEAN, force : Nat]
           force == svc[v].force + 1
<1>2. svc \in [Services -> Svcs] /\ svc[v] \in Svcs /\ force \in Nat
      /\ svc' = [svc EXCEPT ![v] = [svc[v] EXCEPT !.force = force]]
  BY DEF IInv, TypeOK
<1> HIDE DEF force
<1>3. [svc[v] EXCEPT !.force = force] \in Svcs
      /\ [svc[v] EXCEPT !.force = force].stack = svc[v].stack
  BY <1>2
<1>4. /\ svc' \in [Services -> Svcs]
      /\ svc'[v].stack = svc[v].stack /\ \A w \in Services \ {v} : svc'[w] = svc[w]
  BY <1>2, <1>3
<1> QED
  BY <1>1, <1>4, HandFrame

LEMMA HandEditKeeps == ASSUME IInv, HandEdit PROVE IInv'
<1> PICK v \in Services :
        job' = Met(v, "changed") /\ UNCHANGED <<chart, budget, holder, svc, records, mine, pc>>
  BY DEF HandEdit
<1>1. /\ svc' \in [Services -> [stack : Stacks \cup {None}, engine : BOOLEAN, force : Nat]]
      /\ budget' \in 0 .. MaxMishaps
  BY DEF IInv, TypeOK
<1> QED
  BY <1>1, HandFrame

LEMMA HandRunKeeps == ASSUME IInv, HandRun PROVE IInv'
<1> USE Assumed
<1> PICK s \in Stacks, v \in Services :
        /\ Mishap /\ svc[v].stack = None /\ ~Removing(s)
        /\ svc' = [svc EXCEPT ![v] = [Absent EXCEPT !.stack = s]]
        /\ UNCHANGED <<chart, holder, records, mine, pc, job>>
  BY DEF HandRun
<1>1. /\ svc' \in [Services -> [stack : Stacks \cup {None}, engine : BOOLEAN, force : Nat]]
      /\ svc'[v].stack = s /\ \A w \in Services \ {v} : svc'[w] = svc[w]
      /\ budget' \in 0 .. MaxMishaps
  <2> DEFINE Svcs == [stack : Stacks \cup {None}, engine : BOOLEAN, force : Nat]
             new == [Absent EXCEPT !.stack = s]
  <2>1. Absent \in Svcs
    BY DEF Absent
  <2>2. new \in Svcs /\ new.stack = s
    BY ONLY <2>1, s \in Stacks
  <2>3. svc' = [svc EXCEPT ![v] = new] /\ svc \in [Services -> Svcs]
    BY DEF IInv, TypeOK
  <2> HIDE DEF Svcs, new
  <2>4. svc' \in [Services -> Svcs] /\ svc'[v] = new /\ \A w \in Services \ {v} : svc'[w] = svc[w]
    BY <2>2, <2>3
  <2>5. budget' \in 0 .. MaxMishaps
    BY DEF IInv, TypeOK, Mishap
  <2> QED
    BY <2>2, <2>4, <2>5 DEF Svcs
<1>2. TypeOK' /\ InstallInv' /\ RecordsApart'
  BY <1>1 DEF IInv, TypeOK, Actual, InstallInv, RecordsApart
<1>3. SpareInv'
  BY <1>1 DEF IInv, SpareInv
<1>4. ASSUME NEW t \in Stacks PROVE StackInv(t)'
  <2>1. /\ IdleInv(t) /\ GuardInv(t) /\ RecordInv(t) /\ SeenInv(t) /\ RemovalInv(t)
        /\ job[t].seen \subseteq Services
    BY DEF IInv, StackInv, TypeOK, Jobs
  <2>2. IdleInv(t)' /\ GuardInv(t)' /\ RecordInv(t)'
    BY <2>1 DEF IdleInv, GuardInv, RecordInv
  <2>3. v \in job[t].seen => job[t].fate[v] = "gone"
    BY <2>1 DEF SeenInv
  <2>4. SeenInv(t)'
    BY <1>1, <2>1, <2>3 DEF SeenInv
  <2>5. RemovalInv(t)'
    <3>1. CASE pc[t] \in AtRemoval
      <4>1. t # s
        BY <3>1 DEF Removing, AtRemoval
      <4>2. Running(t)' \subseteq Running(t) /\ Owned(t)' = Owned(t)
        BY <1>1, <4>1 DEF Running, Owned
      <4> QED
        BY <2>1, <4>2 DEF RemovalInv
    <3>2. CASE pc[t] \notin AtRemoval
      BY <3>2 DEF RemovalInv, AtRemoval
    <3> QED
      BY <3>1, <3>2
  <2> QED
    BY <2>2, <2>4, <2>5 DEF StackInv
<1> QED
  BY <1>2, <1>3, <1>4 DEF IInv

-----------------------------------------------------------------------------
(* Steps that change the records, and those of the process *)

LEMMA RecordKeeps == ASSUME IInv, NEW s \in Stacks, Record(s) PROVE IInv'
<1> USE Assumed
<1>1. /\ pc[s] = "write" /\ records' = records \cup {s}
      /\ UNCHANGED <<chart, budget, holder, svc, mine>>
      /\ StackInv(s) /\ InstallInv /\ RecordsApart /\ TypeOK
      /\ pc \in [Stacks -> PCs] /\ job \in [Stacks -> Jobs]
  BY DEF Record, IInv, TypeOK, PCs
<1>2. /\ \A t \in Stacks \ {s} : pc'[t] = pc[t] /\ job'[t] = job[t]
      /\ \/ pc'[s] = "selfRead" /\ job'[s] = job[s] /\ job[s].held
         \/ pc'[s] = "idle" /\ job'[s] = NoJob
      /\ pc' \in [Stacks -> PCs] /\ job' \in [Stacks -> Jobs]
  BY <1>1, NoJobType DEF Record, Goes, Return, PCs
<1>3. TypeOK'
  BY <1>1, <1>2 DEF TypeOK, PCs, Actual
<1>4. /\ job[s].install <=> s \notin records
      /\ \A t \in records : /\ <<s, t>> \notin SameRecord
                            /\ s \in records \cup Self \/ <<s, t>> \notin Collide
  BY <1>1 DEF StackInv, RecordInv, InstallInv, Unrecorded, Guarded
<1>5. RecordsApart'
  <2> SUFFICES ASSUME NEW t \in records', NEW u \in records', <<t, u>> \in Collide
               PROVE  <<t, u>> \notin SameRecord /\ (t \in Self \/ u \in Self)
    BY DEF RecordsApart
  <2>1. t \in Stacks /\ u \in Stacks /\ t # u /\ <<u, t>> \in Collide
    BY <1>1 DEF TypeOK
  <2>2. CASE t \in records /\ u \in records
    BY <1>1, <2>2 DEF RecordsApart
  <2>3. CASE t = s /\ u \in records /\ s \notin records
    BY <1>4, <2>3
  <2>4. CASE u = s /\ t \in records /\ s \notin records
    BY <1>4, <2>1, <2>4
  <2> QED
    BY <1>1, <2>1, <2>2, <2>3, <2>4
<1>6. InstallInv'
  <2>1. \A t \in Stacks : job'[t].install => job[t].install
    BY <1>2, NoJobFields
  <2>2. ASSUME NEW t \in Stacks, pc'[t] \in Unrecorded
        PROVE  job'[t].install <=> t \notin records'
    BY <1>1, <1>2, <2>2 DEF InstallInv, Unrecorded
  <2> QED
    BY <1>1, <2>1, <2>2 DEF InstallInv
<1>7. SpareInv'
  BY <1>1 DEF IInv, SpareInv
<1>8. ASSUME NEW t \in Stacks PROVE StackInv(t)'
  <2>1. CASE t # s
    <3>1. /\ IdleInv(t) /\ GuardInv(t) /\ RecordInv(t) /\ SeenInv(t) /\ RemovalInv(t)
          /\ pc'[t] = pc[t] /\ job'[t] = job[t]
      BY <1>2, <2>1 DEF IInv, StackInv
    <3>2. IdleInv(t)' /\ GuardInv(t)' /\ RemovalInv(t)'
      BY <1>1, <3>1 DEF IdleInv, GuardInv, RemovalInv, Running, Owned
    <3>3. SeenInv(t)'
      BY <1>1, <3>1 DEF SeenInv
    <3>4. ASSUME pc[t] \in Guarded, s \notin records
          PROVE  <<t, s>> \notin SameRecord /\ (t \in records \/ <<t, s>> \notin Collide)
      <4>1. CASE t \in records
        BY <1>4, <4>1
      <4>2. CASE t \notin records
        <5>1. job[t].install /\ job[s].install
          BY <1>1, <1>4, <3>4, <4>2 DEF InstallInv, Guarded
        <5> QED
          BY <1>1, <5>1 DEF InstallInv
      <4> QED
        BY <4>1, <4>2
    <3>5. RecordInv(t)'
      BY <1>1, <3>1, <3>4 DEF RecordInv
    <3> QED
      BY <3>2, <3>3, <3>5 DEF StackInv
  <2>2. CASE t = s
    BY <1>1, <1>2, <2>2, NoJobFields
       DEF StackInv, IdleInv, GuardInv, RecordInv, SeenInv, RemovalInv, AtServices, AtRemoval,
           Guarded, Unrecorded
  <2> QED
    BY <2>1, <2>2
<1> QED
  BY <1>3, <1>5, <1>6, <1>7, <1>8 DEF IInv

LEMMA EndRemovalKeeps == ASSUME IInv, NEW s \in Stacks, EndRemoval(s) PROVE IInv'
<1> USE Assumed
<1>1. /\ pc[s] = "rmRest" /\ records' \subseteq records /\ records \ {s} \subseteq records'
      /\ UNCHANGED <<chart, budget, holder, svc, mine>>
      /\ InstallInv /\ RecordsApart /\ TypeOK
      /\ pc \in [Stacks -> PCs] /\ job \in [Stacks -> Jobs]
  BY DEF EndRemoval, IInv, TypeOK, PCs
<1>2. /\ \A t \in Stacks \ {s} : pc'[t] = pc[t] /\ job'[t] = job[t]
      /\ pc'[s] = "idle" /\ job'[s] = NoJob
      /\ pc' \in [Stacks -> PCs] /\ job' \in [Stacks -> Jobs]
  BY <1>1, NoJobType DEF EndRemoval, Return, PCs
<1>3. TypeOK'
  BY <1>1, <1>2 DEF TypeOK, PCs, Actual
<1>4. RecordsApart' /\ SpareInv'
  BY <1>1 DEF RecordsApart, IInv, SpareInv
<1>5. InstallInv'
  <2>1. \A t \in Stacks : job'[t].install => job[t].install
    BY <1>2, NoJobFields
  <2>2. ASSUME NEW t \in Stacks, pc'[t] \in Unrecorded
        PROVE  job'[t].install <=> t \notin records'
    BY <1>1, <1>2, <2>2 DEF InstallInv, Unrecorded
  <2> QED
    BY <1>1, <2>1, <2>2 DEF InstallInv
<1>6. ASSUME NEW t \in Stacks PROVE StackInv(t)'
  <2>1. CASE t # s
    <3>1. /\ IdleInv(t) /\ GuardInv(t) /\ RecordInv(t) /\ SeenInv(t) /\ RemovalInv(t)
          /\ pc'[t] = pc[t] /\ job'[t] = job[t] /\ (t \in records' <=> t \in records)
      BY <1>1, <1>2, <2>1 DEF IInv, StackInv
    <3>2. IdleInv(t)' /\ GuardInv(t)' /\ RemovalInv(t)'
      BY <1>1, <3>1 DEF IdleInv, GuardInv, RemovalInv, Running, Owned
    <3>3. SeenInv(t)'
      BY <1>1, <3>1 DEF SeenInv
    <3>4. RecordInv(t)'
      BY <1>1, <3>1 DEF RecordInv
    <3> QED
      BY <3>2, <3>3, <3>4 DEF StackInv
  <2>2. CASE t = s
    BY <1>1, <1>2, <2>2, NoJobFields
       DEF StackInv, IdleInv, GuardInv, RecordInv, SeenInv, RemovalInv, AtServices, AtRemoval,
           Guarded, Unrecorded
  <2> QED
    BY <2>1, <2>2
<1> QED
  BY <1>3, <1>4, <1>5, <1>6 DEF IInv

LEMMA LoadMountsKeeps == ASSUME IInv, LoadMounts PROVE IInv'
<1>1. mine' = Actual /\ UNCHANGED <<chart, budget, holder, svc, records, pc, job>>
  BY DEF LoadMounts, swarm
<1>2. TypeOK' /\ InstallInv' /\ RecordsApart' /\ SpareInv'
  BY <1>1 DEF IInv, TypeOK, Actual, InstallInv, RecordsApart, SpareInv
<1>3. ASSUME NEW t \in Stacks PROVE StackInv(t)'
  <2>1. StackInv(t)
    BY DEF IInv
  <2>2. GuardInv(t)'
    BY <1>1, <2>1 DEF StackInv, GuardInv, Actual, Protected
  <2>3. IdleInv(t)' /\ RecordInv(t)' /\ SeenInv(t)' /\ RemovalInv(t)'
    BY <1>1, <2>1 DEF StackInv, IdleInv, RecordInv, SeenInv, RemovalInv, Running, Owned
  <2> QED
    BY <2>2, <2>3 DEF StackInv
<1> QED
  BY <1>2, <1>3 DEF IInv

LEMMA RestartKeeps == ASSUME IInv, Restart PROVE IInv'
<1>1. /\ mine' = None /\ UNCHANGED <<chart, holder, svc, records>> /\ budget' \in 0 .. MaxMishaps
      /\ pc' \in [Stacks -> PCs] /\ job' \in [Stacks -> Jobs]
      /\ \A t \in Stacks : pc'[t] = "idle" /\ job'[t] = NoJob
  BY NoJobType, Assumed DEF Restart, swarm, Mishap, IInv, TypeOK, PCs
<1>2. TypeOK' /\ RecordsApart' /\ SpareInv'
  BY <1>1 DEF IInv, TypeOK, PCs, RecordsApart, SpareInv
<1>3. InstallInv'
  BY <1>1, NoJobFields DEF InstallInv, Unrecorded
<1>4. ASSUME NEW t \in Stacks PROVE StackInv(t)'
  BY <1>1, NoJobFields
     DEF StackInv, IdleInv, GuardInv, RecordInv, SeenInv, RemovalInv, AtServices, AtRemoval,
         Guarded, Unrecorded
<1> QED
  BY <1>2, <1>3, <1>4 DEF IInv

LEMMA StutterKeeps == ASSUME IInv, UNCHANGED vars PROVE IInv'
<1>1. UNCHANGED <<chart, budget, holder, svc, records, mine, pc, job>>
  BY DEF vars, swarm
<1>2. TypeOK' /\ InstallInv' /\ RecordsApart' /\ SpareInv'
  BY <1>1 DEF IInv, TypeOK, Actual, InstallInv, RecordsApart, SpareInv
<1>3. \A t \in Stacks : StackInv(t)'
  BY <1>1, Frame DEF IInv
<1> QED
  BY <1>2, <1>3 DEF IInv

LEMMA StepKeepsInv == ASSUME IInv, [Next]_vars PROVE IInv'
<1>1. CASE Hands
  BY <1>1, HandCreateKeeps, HandDeleteKeeps, HandRunKeeps, HandRemoveServiceKeeps,
     HandRestartKeeps, HandEditKeeps DEF Hands
<1>2. ASSUME NEW s \in Stacks, Proceeds(s) PROVE IInv'
  BY <1>2, GuardKeeps, AdmitKeeps, ListNetworksKeeps, ApplyNetworkKeeps, ApplyResourceKeeps,
     ResolveKeeps, ListServicesKeeps, CreateKeeps, DeferKeeps, PickKeeps, UpdateKeeps,
     ConflictKeeps, GiveUpKeeps, RecordKeeps, RereadSelfKeeps, GuardRemovalKeeps,
     RemoveServiceKeeps, ListResourcesKeeps, RemoveResourceKeeps, EndRemovalKeeps DEF Proceeds
<1>3. ASSUME NEW s \in Stacks, Begin(s) \/ BeginRemoval(s) \/ Fails(s) PROVE IInv'
  BY <1>3, BeginKeeps, BeginRemovalKeeps, FailsKeeps
<1> QED
  BY <1>1, <1>2, <1>3, LoadMountsKeeps, RestartKeeps, StutterKeeps DEF Next

\* What holds of every deploy and removal at every moment: the argument of the theorems
\* below.
THEOREM Inductive == Spec => []IInv
<1>1. IInv /\ [Next]_vars => IInv'
  BY StepKeepsInv
<1> QED
  BY <1>1, InitKeeps, PTL DEF Spec

-----------------------------------------------------------------------------
(* What the invariant says of the properties *)

\* Whatever the audit leaves out of what an allowlist would need is permitted
\* already, or refused whatever the allowlist says.
LEMMA AuditHolds == ASSUME TypeOK PROVE AuditSuffices
<1> SUFFICES ASSUME NEW s \in Stacks, NEW n \in Names, NEW declared \in BOOLEAN,
                    NEW driven \in {FALSE, Kind[n] = "volume"}
             PROVE  LET c == [declares |-> IF declared THEN {n} ELSE {},
                              external |-> IF declared THEN {} ELSE {n},
                              driven |-> IF driven THEN {n} ELSE {}]
                        allow == Allow[s] \cup Need(Actual, s, c, holder, Allow[s])
                    IN  Ungranted(Actual, s, c, holder, allow, n) =>
                            Forbidden(Actual, s, c, holder, n)
  BY DEF AuditSuffices
<1> DEFINE c == [declares |-> IF declared THEN {n} ELSE {},
                 external |-> IF declared THEN {} ELSE {n},
                 driven |-> IF driven THEN {n} ELSE {}]
           allow == Allow[s] \cup Need(Actual, s, c, holder, Allow[s])
<1>1. /\ n \in c.declares <=> declared
      /\ n \in c.external <=> ~declared
      /\ n \in c.driven => Kind[n] = "volume"
      /\ n \in Refs(c)
  BY DEF Refs
<1>2. Kind[n] \in {"secret", "config", "volume", "network"}
  BY AdmissionAssumption DEF AdmissionAssumption
<1>3. n \in Need(Actual, s, c, holder, Allow[s]) <=>
         ~Passed(Actual, Allow[s], n) /\ (n \in c.external \/ Lacking(s, c, holder, n))
  BY <1>1 DEF Need
<1> HIDE DEF c
<1> SUFFICES ASSUME Ungranted(Actual, s, c, holder, allow, n)
             PROVE  Forbidden(Actual, s, c, holder, n)
  BY DEF c
<1>4. ~Spared(Actual, s, c, n) /\ n \notin Allow[s]
      /\ n \notin Need(Actual, s, c, holder, Allow[s])
  BY DEF Ungranted
<1>5. CASE Passed(Actual, Allow[s], n)
  <2>1. CASE Kind[n] = "network"
    BY <1>1, <1>4, <1>5, <2>1 DEF Passed, Ungranted
  <2>2. CASE Kind[n] # "network"
    BY <1>4, <1>5, <2>2 DEF Passed, Forbidden
  <2> QED
    BY <2>1, <2>2
<1>6. CASE ~Passed(Actual, Allow[s], n)
  <2>1. n \in c.declares /\ n \notin c.external /\ ~Lacking(s, c, holder, n)
    BY <1>1, <1>3, <1>4, <1>6
  <2>2. CASE Kind[n] = "network"
    BY <1>1, <2>1, <2>2 DEF Lacking, Ungranted
  <2>3. CASE Kind[n] = "volume"
    BY <1>4, <2>1, <2>3 DEF Lacking, Ungranted, Forbidden
  <2>4. CASE Kind[n] \in {"secret", "config"}
    BY <1>1, <2>1, <2>4 DEF Lacking, Ungranted, Forbidden
  <2> QED
    BY <1>2, <2>2, <2>3, <2>4
<1> QED
  BY <1>5, <1>6

\* The audit misses nothing that an allowlist could grant, and no two releases are
\* on record that Swarm could not keep apart, however installs of colliding names
\* overlap: an install is marked before its guards read the records.
THEOREM DeploySafe == Spec => []DeployInv
<1>1. IInv => DeployInv
  BY AuditHolds DEF IInv, DeployInv
<1> QED
  BY <1>1, Inductive, PTL

LEMMA OnlyTheseWrite ==
    ASSUME [Next]_vars
    PROVE  \/ svc' = svc
           \/ \E s \in Stacks : Create(s) \/ Update(s) \/ RemoveService(s)
           \/ HandRun \/ HandRemoveService \/ HandRestart
<1>1. ASSUME NEW s \in Stacks, Begin(s) \/ BeginRemoval(s) \/ Fails(s) PROVE svc' = svc
  BY <1>1 DEF Begin, BeginRemoval, Fails, swarm
<1>2. ASSUME NEW s \in Stacks, Proceeds(s) PROVE svc' = svc \/ Create(s) \/ Update(s)
                                                 \/ RemoveService(s)
  <2>1. CASE Guard(s) \/ Admit(s) \/ ListNetworks(s) \/ Resolve(s) \/ ListServices(s)
    BY <2>1 DEF Guard, Admit, ListNetworks, Resolve, ListServices, swarm
  <2>2. CASE ApplyNetwork(s) \/ ApplyResource(s) \/ RemoveResource(s)
    BY <2>2 DEF ApplyNetwork, ApplyResource, RemoveResource
  <2>3. CASE Defer(s) \/ Pick(s) \/ Conflict(s) \/ GiveUp(s) \/ Record(s)
    BY <2>3 DEF Defer, Pick, Conflict, GiveUp, Record, swarm
  <2>4. CASE RereadSelf(s) \/ SelfReplaced(s) \/ GuardRemoval(s) \/ ListResources(s)
             \/ EndRemoval(s)
    BY <2>4 DEF RereadSelf, SelfReplaced, GuardRemoval, ListResources, EndRemoval, swarm
  <2> QED
    BY <1>2, <2>1, <2>2, <2>3, <2>4 DEF Proceeds
<1>3. CASE LoadMounts \/ Restart \/ HandCreate \/ HandDelete \/ HandEdit \/ UNCHANGED vars
  BY <1>3 DEF LoadMounts, Restart, HandCreate, HandDelete, HandEdit, vars, swarm
<1> QED
  BY <1>1, <1>2, <1>3 DEF Next, Hands

\* What a step may make of a service that runs.
LEMMA ServiceSteps ==
    ASSUME IInv, [Next]_vars, NEW v \in Services, svc[v].stack # None
    PROVE  \/ svc'[v].stack = None /\ ~svc'[v].engine
           \/ /\ svc'[v].stack = svc[v].stack /\ svc'[v].force >= svc[v].force
              /\ svc'[v].engine => svc[v].engine \/ svc'[v].stack \in records \cup Self
<1> DEFINE goal == \/ svc'[v].stack = None /\ ~svc'[v].engine
                   \/ /\ svc'[v].stack = svc[v].stack /\ svc'[v].force >= svc[v].force
                      /\ svc'[v].engine => svc[v].engine \/ svc'[v].stack \in records \cup Self
<1>1. /\ svc \in [Services -> [stack : Stacks \cup {None}, engine : BOOLEAN, force : Nat]]
      /\ svc[v].force >= svc[v].force
  BY DEF IInv, TypeOK
<1>2. CASE svc'[v] = svc[v]
  BY <1>1, <1>2
<1>3. ASSUME NEW s \in Stacks, Create(s) PROVE goal
  <2> PICK w \in job[s].left \ job[s].seen :
          IF svc[w].stack = None THEN Write(s, w, 0) ELSE UNCHANGED svc
    BY <1>3 DEF Create
  <2>1. svc'[v] = svc[v]
    BY <1>1 DEF Write
  <2> QED
    BY <1>2, <2>1
<1>4. ASSUME NEW s \in Stacks, Update(s) PROVE goal
  <2> DEFINE w == job[s].at
  <2>1. /\ w \in job[s].seen /\ svc[w].stack = s /\ svc[w].force = job[s].force[w]
        /\ Write(s, w, job[s].force[w])
    BY <1>4, UpdateReads
  <2>2. s \in records \cup Self
    BY <2>1 DEF IInv, StackInv, SeenInv
  <2> HIDE DEF w
  <2>3. CASE w = v
    <3>1. svc'[v].stack = s /\ svc'[v].force = svc[v].force
      BY <1>1, <2>1, <2>3 DEF Write
    <3> QED
      BY <1>1, <2>1, <2>2, <2>3, <3>1
  <2>4. CASE w # v
    <3>1. svc'[v] = svc[v]
      BY <1>1, <2>1, <2>4 DEF Write
    <3> QED
      BY <1>2, <3>1
  <2> QED
    BY <2>3, <2>4
<1>5. ASSUME NEW s \in Stacks, RemoveService(s) PROVE goal
  <2>1. svc'[v] = svc[v] \/ svc'[v] = Absent
    BY <1>1, <1>5 DEF RemoveService
  <2> QED
    BY <1>2, <2>1 DEF Absent
<1>6. CASE HandRun
  <2>1. svc'[v] = svc[v]
    BY <1>1, <1>6 DEF HandRun
  <2> QED
    BY <1>2, <2>1
<1>7. CASE HandRemoveService
  <2>1. svc'[v] = svc[v] \/ svc'[v] = Absent
    BY <1>1, <1>7 DEF HandRemoveService
  <2> QED
    BY <1>2, <2>1 DEF Absent
<1>8. CASE HandRestart
  <2> PICK w \in Services : svc' = [svc EXCEPT ![w].force = @ + 1]
    BY <1>8 DEF HandRestart
  <2>1. CASE w = v
    <3>1. svc'[v] = [svc[v] EXCEPT !.force = svc[v].force + 1]
      BY <1>1, <2>1
    <3>2. /\ svc'[v].stack = svc[v].stack /\ svc'[v].engine = svc[v].engine
          /\ svc'[v].force = svc[v].force + 1
      BY <1>1, <3>1
    <3> QED
      BY <1>1, <3>2
  <2>2. CASE w # v
    <3>1. svc'[v] = svc[v]
      BY <1>1, <2>2
    <3> QED
      BY <1>2, <3>1
  <2> QED
    BY <2>1, <2>2
<1> QED
  BY <1>2, <1>3, <1>4, <1>5, <1>6, <1>7, <1>8, OnlyTheseWrite

\* A step may give a name to a stack only if nobody had it, or the release may have it.
LEMMA HolderSteps ==
    ASSUME IInv, [Next]_vars, NEW n \in Names, holder'[n] \notin {holder[n], None}
    PROVE  holder[n] = None \/ n \in Allow[holder'[n]]
<1>1. holder \in [Names -> Stacks \cup {None, Nobody}]
  BY DEF IInv, TypeOK
<1>2. ASSUME NEW s \in Stacks, ApplyNetwork(s) PROVE holder[n] = None
  <2> PICK m \in job[s].todo \cap Of({"network"}) :
          IF m \notin job[s].live /\ holder[m] # None
          THEN UNCHANGED holder
          ELSE holder' = [holder EXCEPT ![m] = IF m \in job[s].live THEN @ ELSE s]
    BY <1>2 DEF ApplyNetwork
  <2> QED
    BY <1>1 DEF Of
<1>3. ASSUME NEW s \in Stacks, ApplyResource(s)
      PROVE  holder[n] = None \/ n \in Allow[holder'[n]]
  <2> PICK m \in job[s].todo \cap Of({"secret", "config"}) :
          IF holder[m] = None \/ Adoptable(s, m)
          THEN holder' = [holder EXCEPT ![m] = s] ELSE UNCHANGED holder
    BY <1>3 DEF ApplyResource
  <2> QED
    BY <1>1 DEF Adoptable, Of
<1>4. ASSUME NEW m, NEW others, Deleted(m, others) PROVE FALSE
  BY <1>1, <1>4 DEF Deleted
<1>5. CASE HandCreate
  BY <1>1, <1>5 DEF HandCreate
<1>6. ASSUME NEW s \in Stacks, Begin(s) \/ BeginRemoval(s) \/ Fails(s) PROVE FALSE
  BY <1>6 DEF Begin, BeginRemoval, Fails, swarm
<1>7. ASSUME NEW s \in Stacks, Proceeds(s) PROVE ApplyNetwork(s) \/ ApplyResource(s)
  <2>1. CASE Guard(s) \/ Admit(s) \/ ListNetworks(s) \/ Resolve(s) \/ ListServices(s)
    BY <2>1 DEF Guard, Admit, ListNetworks, Resolve, ListServices, swarm
  <2>2. CASE Create(s) \/ Update(s) \/ RemoveService(s)
    BY <2>2 DEF Create, Update, RemoveService
  <2>3. CASE Defer(s) \/ Pick(s) \/ Conflict(s) \/ GiveUp(s) \/ Record(s)
    BY <2>3 DEF Defer, Pick, Conflict, GiveUp, Record, swarm
  <2>4. CASE RereadSelf(s) \/ SelfReplaced(s) \/ GuardRemoval(s) \/ ListResources(s)
             \/ EndRemoval(s)
    BY <2>4 DEF RereadSelf, SelfReplaced, GuardRemoval, ListResources, EndRemoval, swarm
  <2>5. CASE RemoveResource(s)
    BY <1>4, <2>5 DEF RemoveResource
  <2> QED
    BY <1>7, <2>1, <2>2, <2>3, <2>4, <2>5 DEF Proceeds
<1>8. CASE LoadMounts \/ Restart \/ HandRun \/ HandRemoveService \/ HandRestart \/ HandEdit
           \/ UNCHANGED vars
  BY <1>8 DEF LoadMounts, Restart, HandRun, HandRemoveService, HandRestart, HandEdit, vars, swarm
<1>9. CASE HandDelete
  BY <1>4, <1>9 DEF HandDelete
<1> QED
  BY <1>2, <1>3, <1>5, <1>6, <1>7, <1>8, <1>9 DEF Next, Hands

\* What another release does leaves the controller's files, networks and service.
LEMMA ProceedsSpares ==
    ASSUME IInv, NEW s \in Stacks \ Self, Proceeds(s)
    PROVE  /\ \A n \in ControllerMounts \cup
                       {m \in Of({"network"}) : Controller \in Under[m] /\ holder[m] # s} :
                 holder'[n] = holder[n]
           /\ svc'[ControllerService] = svc[ControllerService]
<1> USE Assumed
<1>1. /\ StackInv(s) /\ SpareInv /\ TypeOK
      /\ holder \in [Names -> Stacks \cup {None, Nobody}]
      /\ svc \in [Services -> [stack : Stacks \cup {None}, engine : BOOLEAN, force : Nat]]
  BY DEF IInv, TypeOK
<1> DEFINE kept == /\ \A n \in ControllerMounts \cup
                               {m \in Of({"network"}) : Controller \in Under[m] /\ holder[m] # s} :
                         holder'[n] = holder[n]
                   /\ svc'[ControllerService] = svc[ControllerService]
<1>2. CASE holder' = holder /\ svc' = svc
  BY <1>2
<1>3. CASE ApplyNetwork(s)
  <2> PICK m \in job[s].todo \cap Of({"network"}) :
          /\ pc[s] = "resources" /\ UNCHANGED svc
          /\ \/ UNCHANGED holder
             \/ holder' = [holder EXCEPT ![m] = IF m \in job[s].live THEN @ ELSE s]
    BY <1>3 DEF ApplyNetwork
  <2>1. m \notin Protected
    BY <1>1 DEF StackInv, GuardInv
  <2>2. \A n \in Names \ {m} : holder'[n] = holder[n]
    BY <1>1
  <2> QED
    BY <2>1, <2>2 DEF Protected, Of
<1>4. CASE ApplyResource(s)
  <2> PICK m \in job[s].todo \cap Of({"secret", "config"}) :
          /\ pc[s] = "resources" /\ UNCHANGED svc
          /\ \/ UNCHANGED holder
             \/ holder' = [holder EXCEPT ![m] = s]
    BY <1>4 DEF ApplyResource
  <2>1. m \notin Protected
    BY <1>1 DEF StackInv, GuardInv
  <2>2. \A n \in Names \ {m} : holder'[n] = holder[n]
    BY <1>1
  <2> QED
    BY <2>1, <2>2 DEF Protected, Of
<1>5. CASE RemoveResource(s)
  <2> PICK m \in job[s].listed :
          /\ pc[s] = "rmRest" /\ UNCHANGED svc
          /\ UNCHANGED holder \/ Deleted(m, Listing(m) \ {s})
    BY <1>5 DEF RemoveResource
  <2>1. /\ m \notin ControllerMounts /\ (m \in Of({"network"}) => holder[m] = s)
    BY <1>1 DEF StackInv, RemovalInv
  <2>2. \A n \in Names \ {m} : holder'[n] = holder[n]
    BY <1>1 DEF Deleted
  <2> QED
    BY <2>1, <2>2 DEF Of
<1>6. CASE Create(s)
  <2> PICK v \in job[s].left \ job[s].seen :
          /\ UNCHANGED holder
          /\ IF svc[v].stack = None THEN Write(s, v, 0) ELSE UNCHANGED svc
    BY <1>6 DEF Create
  <2>1. svc'[ControllerService] = svc[ControllerService]
    BY <1>1 DEF Write, SpareInv
  <2> QED
    BY <2>1
<1>7. CASE Update(s)
  <2> DEFINE v == job[s].at
  <2>1. /\ svc[v].stack = s /\ pc[s] \in {"write", "self"} /\ UNCHANGED holder
        /\ Write(s, v, job[s].force[v])
    BY <1>7, UpdateReads
  <2>2. s # Controller
    BY <1>1, <2>1 DEF StackInv, GuardInv, AtServices
  <2> HIDE DEF v
  <2>3. v # ControllerService
    BY <1>1, <2>1, <2>2 DEF SpareInv
  <2>4. svc'[ControllerService] = svc[ControllerService]
    BY <1>1, <2>1, <2>3 DEF Write
  <2> QED
    BY <2>1, <2>4
<1>8. CASE RemoveService(s)
  <2> PICK v \in job[s].listed :
          /\ pc[s] = "rmServices" /\ UNCHANGED holder
          /\ \/ svc' = [svc EXCEPT ![v] = IF @.stack = s THEN Absent ELSE @]
             \/ UNCHANGED svc
    BY <1>8 DEF RemoveService
  <2>1. s # Controller
    BY <1>1 DEF StackInv, GuardInv, AtRemoval
  <2>2. svc'[ControllerService] = svc[ControllerService]
    BY <1>1, <2>1 DEF SpareInv
  <2> QED
    BY <2>2
<1>9. CASE Guard(s) \/ Admit(s) \/ ListNetworks(s) \/ Resolve(s) \/ ListServices(s)
  BY <1>2, <1>9 DEF Guard, Admit, ListNetworks, Resolve, ListServices, swarm
<1>10. CASE Defer(s) \/ Pick(s) \/ Conflict(s) \/ GiveUp(s) \/ Record(s)
  BY <1>2, <1>10 DEF Defer, Pick, Conflict, GiveUp, Record, swarm
<1>11. CASE RereadSelf(s) \/ SelfReplaced(s) \/ GuardRemoval(s) \/ ListResources(s)
            \/ EndRemoval(s)
  BY <1>2, <1>11 DEF RereadSelf, SelfReplaced, GuardRemoval, ListResources, EndRemoval, swarm
<1> QED
  BY <1>3, <1>4, <1>5, <1>6, <1>7, <1>8, <1>9, <1>10, <1>11 DEF Proceeds

\* A deploy takes over nothing: neither a name that another stack holds or that has no
\* stack, unless the application permits it -- whatever happens between its guards
\* and its writes -- nor a service that is not its own, nor one made by hand, nor what
\* the controller runs on.
THEOREM TakeoverSafe == Spec => NothingTaken
<1>1. IInv /\ [Next]_vars =>
        [/\ \A n \in Names : holder'[n] \notin {holder[n], None} =>
               holder[n] = None \/ n \in Allow[holder'[n]]
         /\ \A v \in Services : svc[v].stack # None =>
               svc'[v].stack \in {svc[v].stack, None}]_vars
  BY HolderSteps, ServiceSteps
<1>2. IInv /\ [Next]_vars =>
        [\A v \in Services :
            svc[v].stack # None /\ ~svc[v].engine /\ svc'[v].engine =>
                svc'[v].stack \in records \cup Self]_vars
  BY ServiceSteps
<1>3. IInv /\ [Next]_vars =>
        [\A s \in Stacks \ Self : Proceeds(s) =>
            /\ \A n \in ControllerMounts \cup
                         {m \in Of({"network"}) : Controller \in Under[m] /\ holder[m] # s} :
                  holder'[n] = holder[n]
            /\ svc'[ControllerService] = svc[ControllerService]]_vars
  BY ProceedsSpares
<1> QED
  BY <1>1, <1>2, <1>3, Inductive, PTL
     DEF Spec, NothingTaken, NoTakeover, HandMadeSpared, ControllerSpared

\* No deploy takes back a restart that somebody forced, nor overwrites in silence what
\* somebody wrote since it read the service: its write carries the version it read, and
\* until it has read the service again that version does not pass.
THEOREM HandsSafe == Spec => HandsKept
<1>1. IInv /\ [Next]_vars =>
        [\A v \in Services : {svc[v].stack, svc'[v].stack} \cap {None} = {} =>
            svc'[v].force >= svc[v].force]_vars
  <2>1. ASSUME IInv, [Next]_vars, NEW v \in Services,
               {svc[v].stack, svc'[v].stack} \cap {None} = {}
        PROVE  svc'[v].force >= svc[v].force
    BY <2>1, ServiceSteps
  <2> QED
    BY <2>1
<1>2. IInv /\ [Next]_vars =>
        [\A s \in Stacks, v \in Services : Update(s) /\ v = job[s].at =>
            v \notin job[s].touched \ job[s].reported]_vars
  <2>1. ASSUME IInv, NEW s \in Stacks, Update(s)
        PROVE  job[s].at \notin job[s].touched \ job[s].reported
    BY <2>1, UpdateReads
  <2> QED
    BY <2>1
<1> QED
  BY <1>1, <1>2, Inductive, PTL DEF Spec, HandsKept, RestartsKept, EditsReported

\* A release loses its record only as its removal ends, and then nothing of it is left,
\* whatever failed on the way and whatever others deleted meanwhile.
THEOREM RemovalSafe == Spec => RemovedIsGone
<1>1. ASSUME IInv, [Next]_vars, NEW s \in records \ records' PROVE ~Remains(s)
  <2>1. ASSUME NEW t \in Stacks, EndRemoval(t) PROVE ~Remains(s)
    <3>1. /\ t = s /\ pc[s] = "rmRest" /\ job[s].listed = {} /\ ~(job[s].errs /\ Remains(s))
      BY <1>1, <2>1 DEF EndRemoval
    <3>2. StackInv(s)
      BY <1>1, <2>1, <3>1 DEF IInv
    <3>3. ~job[s].errs => Running(s) = {} /\ Owned(s) = {}
      BY <3>1, <3>2 DEF StackInv, RemovalInv
    <3> QED
      BY <3>1, <3>3 DEF Remains, Owned
  <2>2. CASE LoadMounts \/ Restart \/ Hands \/ UNCHANGED vars
    BY <1>1, <2>2 DEF LoadMounts, Restart, Hands, HandCreate, HandDelete, HandRun,
       HandRemoveService, HandRestart, HandEdit, vars, swarm
  <2>3. ASSUME NEW t \in Stacks, Begin(t) \/ BeginRemoval(t) \/ Fails(t) PROVE FALSE
    BY <1>1, <2>3 DEF Begin, BeginRemoval, Fails, swarm
  <2>4. ASSUME NEW t \in Stacks, Proceeds(t) PROVE EndRemoval(t)
    <3>1. CASE Guard(t) \/ Admit(t) \/ ListNetworks(t) \/ Resolve(t) \/ ListServices(t)
      BY <1>1, <3>1 DEF Guard, Admit, ListNetworks, Resolve, ListServices, swarm
    <3>2. CASE ApplyNetwork(t) \/ ApplyResource(t) \/ Create(t) \/ Update(t) \/ RemoveService(t)
               \/ RemoveResource(t)
      BY <1>1, <3>2 DEF ApplyNetwork, ApplyResource, Create, Update, RemoveService,
         RemoveResource
    <3>3. CASE Defer(t) \/ Pick(t) \/ Conflict(t) \/ GiveUp(t) \/ Record(t)
      BY <1>1, <3>3 DEF Defer, Pick, Conflict, GiveUp, Record, swarm
    <3>4. CASE RereadSelf(t) \/ SelfReplaced(t) \/ GuardRemoval(t) \/ ListResources(t)
      BY <1>1, <3>4 DEF RereadSelf, SelfReplaced, GuardRemoval, ListResources, swarm
    <3> QED
      BY <2>4, <3>1, <3>2, <3>3, <3>4 DEF Proceeds
  <2> QED
    BY <1>1, <2>1, <2>2, <2>3, <2>4 DEF Next
<1>2. IInv /\ [Next]_vars => [\A s \in records \ records' : ~Remains(s)]_vars
  BY <1>1
<1> QED
  BY <1>2, Inductive, PTL DEF Spec, RemovedIsGone
=============================================================================
