------------------------ MODULE ResourceSweepProofs -------------------------
(***************************************************************************)
(* What the sweep inside a release deletes: only what it found, nothing the*)
(* chart declares, nothing a rollback needs, and nothing more than         *)
(* MaxPruneAttempts times; for any names, charts and bounds.               *)
(***************************************************************************)
EXTENDS ResourceSweep, TLAPS

-----------------------------------------------------------------------------
(* The inductive invariant *)

Things == pass.services \cup pass.resources

\* Nothing is left to delete between passes, and nothing the chart declares.
FoundInv ==
    /\ pc = "idle" => Things = {}
    /\ \A thing \in Things : thing[1] \notin pass.chart

\* What observe found unused, no running service has come to refer to, nor to
\* what it would be rolled back to.
UnusedInv == \A thing \in pass.resources : thing[1] \notin InUse

\* A resource is found once, and not once it has failed too often.
CountInv ==
    /\ \A thing \in pass.resources : failures[thing[1]] < MaxPruneAttempts
    /\ \A t, u \in pass.resources : t[1] = u[1] => t = u

IInv == SweepInv /\ FoundInv /\ UnusedInv /\ CountInv

-----------------------------------------------------------------------------
(* Types *)

LEMMA FaultStep ==
    ASSUME TypeOK, Fault
    PROVE  budget' \in [commits: 0..MaxCommits, hands: 0..MaxHands, faults: 0..MaxFaults]
<1>1. budget.faults \in 0..MaxFaults /\ budget.faults - 1 \in 0..MaxFaults
  BY SweepAssumption DEF TypeOK, Fault, SweepAssumption
<1> QED
  BY <1>1 DEF TypeOK, Fault

LEMMA HandStep ==
    ASSUME TypeOK, Hand
    PROVE  budget' \in [commits: 0..MaxCommits, hands: 0..MaxHands, faults: 0..MaxFaults]
<1>1. budget.hands \in 0..MaxHands /\ budget.hands - 1 \in 0..MaxHands
  BY SweepAssumption DEF TypeOK, Hand, SweepAssumption
<1> QED
  BY <1>1 DEF TypeOK, Hand

LEMMA TypeInit == Init => TypeOK
<1> SUFFICES ASSUME Init PROVE TypeOK
  OBVIOUS
<1>1. /\ chart \in SUBSET Names /\ failures \in [Resources -> Nat]
      /\ budget \in [commits: 0..MaxCommits, hands: 0..MaxHands, faults: 0..MaxFaults]
  BY SweepAssumption DEF Init, SweepAssumption, Zero
<1>2. live \in [Names -> 0..fresh - 1] /\ fresh \in Nat
  BY DEF Init
<1>3. spec \in [Services -> SUBSET Resources] /\ previous \in [Services -> SUBSET Resources]
  BY DEF Init, Refers
<1>4. history \in Seq([declares: SUBSET Names, own: BOOLEAN])
  BY <1>1 DEF Init
<1>5. pass \in [chart: SUBSET Names, services: SUBSET (Services \X Nat),
                resources: SUBSET (Resources \X Nat)]
  BY DEF Init, NoPass
<1> QED
  BY <1>1, <1>2, <1>3, <1>4, <1>5 DEF Init, TypeOK

\* What is found is called by its name and its identity, and is what runs.
LEMMA FoundThings ==
    ASSUME TypeOK, NEW declared, NEW outcome \in {"all", "services", "nothing"}
    PROVE  /\ Found(declared, outcome) \subseteq Live(Names) \ declared
           /\ Found(declared, outcome) \cap Resources \cap InUse = {}
<1>1. Found(declared, outcome) \subseteq Candidates(declared)
  BY DEF Found, Claimed
<1>2. /\ Candidates(declared) \subseteq Live(Names) \ declared
      /\ Candidates(declared) \cap Resources \cap InUse = {}
  BY SweepAssumption DEF Candidates, Live, Names, SweepAssumption
<1> QED
  BY <1>1, <1>2

LEMMA ObserveTypes ==
    ASSUME TypeOK, NEW outcome \in {"all", "services", "nothing"}, ObserveAt(chart, outcome)
    PROVE  /\ failures' \in [Resources -> Nat]
           /\ pass' \in [chart: SUBSET Names, services: SUBSET (Services \X Nat),
                         resources: SUBSET (Resources \X Nat)]
<1>1. failures' \in [Resources -> Nat]
  BY DEF ObserveAt, Kept, TypeOK
<1>2. \A n \in Names : live[n] \in Nat
  BY DEF TypeOK
<1>3. chart \subseteq Names
  BY SweepAssumption DEF TypeOK, SweepAssumption
<1> QED
  BY <1>1, <1>2, <1>3 DEF ObserveAt, Names

\* The engine's apply of a set of names: those that are missing are created.
Applied(names, own) ==
    /\ live' = [n \in Names |-> IF n \in names /\ live[n] = 0 THEN fresh ELSE live[n]]
    /\ fresh' = IF live' = live THEN fresh ELSE fresh + 1
    /\ spec' = [s \in Services |-> IF s \in names THEN Refers(names) ELSE spec[s]]
    /\ previous' = [s \in Services |->
                      IF s \notin names THEN previous[s]
                      ELSE IF live[s] # 0 THEN spec[s] ELSE {}]
    /\ history' = LET h == Append(history, [declares |-> names, own |-> own])
                  IN  IF Len(h) > Retention THEN Tail(h) ELSE h
    /\ UNCHANGED held

LEMMA AppliedTypes ==
    ASSUME TypeOK, NEW names \in SUBSET Names, NEW own \in BOOLEAN, Applied(names, own)
    PROVE  /\ live' \in [Names -> 0..fresh' - 1] /\ fresh' \in Nat
           /\ spec' \in [Services -> SUBSET Resources]
           /\ previous' \in [Services -> SUBSET Resources]
           /\ held' \subseteq Resources
           /\ history' \in Seq([declares: SUBSET Names, own: BOOLEAN])
<1>1. fresh' \in Nat /\ live' \in [Names -> 0..fresh' - 1]
  BY DEF TypeOK, Applied
<1>2. spec' \in [Services -> SUBSET Resources] /\ previous' \in [Services -> SUBSET Resources]
  BY DEF TypeOK, Applied, Refers
<1>3. history' \in Seq([declares: SUBSET Names, own: BOOLEAN])
  <2> DEFINE T == [declares: SUBSET Names, own: BOOLEAN]
             h == Append(history, [declares |-> names, own |-> own])
  <2>1. [declares |-> names, own |-> own] \in T /\ history \in Seq(T)
    BY DEF TypeOK
  <2>2. h \in Seq(T) /\ Len(h) = Len(history) + 1 /\ h # <<>>
    <3> HIDE DEF T
    <3> QED
      BY <2>1
  <2>3. Tail(h) \in Seq(T)
    <3> HIDE DEF T, h
    <3> QED
      BY <2>2
  <2> QED
    BY <2>2, <2>3 DEF Applied
<1> QED
  BY <1>1, <1>2, <1>3 DEF TypeOK, Applied

LEMMA TypeStep == TypeOK /\ [Next]_vars => TypeOK'
<1> SUFFICES ASSUME TypeOK, [Next]_vars PROVE TypeOK'
  OBVIOUS
<1> DEFINE Passes == [chart: SUBSET Names, services: SUBSET (Services \X Nat),
                      resources: SUBSET (Resources \X Nat)]
           Budgets == [commits: 0..MaxCommits, hands: 0..MaxHands, faults: 0..MaxFaults]
<1>0. NoPass \in Passes /\ Zero \in [Resources -> Nat]
  BY DEF NoPass, Zero
<1>1. CASE Observe
  <2>1. budget' \in Budgets
    BY <1>1, FaultStep DEF Observe, TypeOK
  <2>2. PICK outcome \in {"all", "services", "nothing"} : ObserveAt(chart, outcome)
    BY <1>1 DEF Observe
  <2>3. failures' \in [Resources -> Nat] /\ pass' \in Passes
    BY <2>2, ObserveTypes
  <2> QED
    BY <1>1, <2>1, <2>3 DEF Observe, swarm, TypeOK
<1>2. CASE Apply
  <2>1. CASE pass.chart = Latest
    BY <1>2, <2>1 DEF Apply, swarm, TypeOK
  <2>2. CASE pass.chart # Latest
    <3>1. Applied(pass.chart, TRUE) /\ pass.chart \in SUBSET Names
      BY <1>2, <2>2 DEF Apply, Applied, TypeOK
    <3> QED
      BY <1>2, <3>1, AppliedTypes DEF Apply, TypeOK
  <2> QED
    BY <2>1, <2>2
<1>3. CASE PruneService \/ PruneResource
  <2>1. budget' \in Budgets
    BY <1>3, FaultStep DEF PruneService, PruneResource, TypeOK
  <2>2. pass' \in Passes
    <3>1. CASE PruneService
      <4> PICK thing : pass' = [pass EXCEPT !.services = @ \ {thing}]
        BY <3>1 DEF PruneService
      <4> QED
        BY DEF TypeOK
    <3>2. CASE PruneResource
      <4> PICK thing : pass' = [pass EXCEPT !.resources = @ \ {thing}]
        BY <3>2 DEF PruneResource
      <4> QED
        BY DEF TypeOK
    <3> QED
      BY <1>3, <3>1, <3>2
  <2>3. failures' \in [Resources -> Nat] /\ chart' = chart /\ pc' = pc
    <3>1. CASE PruneService
      BY <3>1 DEF PruneService, TypeOK
    <3>2. CASE PruneResource
      <4> PICK n \in Resources : \/ failures' = [failures EXCEPT ![n] = 0]
                                 \/ failures' = [failures EXCEPT ![n] = @ + 1]
        BY <3>2 DEF PruneResource, TypeOK
      <4> QED
        BY <3>2 DEF PruneResource, TypeOK
    <3> QED
      BY <1>3, <3>1, <3>2
  <2>4. UNCHANGED swarm \/ \E n \in Names : Gone(n)
    BY <1>3 DEF PruneService, PruneResource, TypeOK, Names
  <2>5. UNCHANGED <<fresh, spec, previous, held, history>>
    BY <2>4 DEF Gone, swarm
  <2>6. live' \in [Names -> 0..fresh - 1]
    <3>1. ASSUME NEW n \in Names, live[n] \in 0..fresh - 1 PROVE 0 \in 0..fresh - 1
      BY <3>1 DEF TypeOK
    <3>2. ASSUME NEW n \in Names, Gone(n) PROVE live' \in [Names -> 0..fresh - 1]
      BY <3>1, <3>2 DEF Gone, TypeOK
    <3> QED
      BY <2>4, <3>2 DEF swarm, TypeOK
  <2> QED
    BY <2>1, <2>2, <2>3, <2>5, <2>6 DEF TypeOK
<1>4. CASE ServicesEnd
  BY <1>4 DEF ServicesEnd, swarm, TypeOK
<1>5. CASE Confirm
  <2>1. failures' \in [Resources -> Nat]
    BY <1>5 DEF Confirm, Kept, TypeOK
  <2> QED
    BY <1>0, <1>5, <2>1 DEF Confirm, swarm, TypeOK
<1>6. CASE ApplyFails \/ Restart
  BY <1>0, <1>6, FaultStep DEF ApplyFails, Restart, swarm, TypeOK
<1>7. CASE Commit
  <2>1. budget.commits \in 0..MaxCommits /\ budget.commits - 1 \in 0..MaxCommits
    BY <1>7, SweepAssumption DEF Commit, TypeOK, SweepAssumption
  <2>2. budget' \in Budgets
    BY <1>7, <2>1 DEF Commit, TypeOK
  <2> QED
    BY <1>7, <2>2 DEF Commit, swarm, TypeOK
<1>8. CASE RollBack
  BY <1>8, HandStep DEF RollBack, Live, TypeOK
<1>9. CASE Recreate
  <2>1. budget' \in Budgets
    BY <1>9, HandStep DEF Recreate
  <2>2. fresh' \in Nat /\ live' \in [Names -> 0..fresh' - 1]
    BY <1>9 DEF Recreate, Live, TypeOK
  <2> QED
    BY <1>9, <2>1, <2>2 DEF Recreate, TypeOK
<1>10. CASE Hold
  BY <1>10, HandStep DEF Hold, Live, TypeOK
<1>11. CASE Intrude
  <2>1. PICK other \in Charts : Applied(other, FALSE)
    BY <1>11 DEF Intrude, Applied
  <2>2. other \in SUBSET Names
    BY SweepAssumption DEF SweepAssumption
  <2> QED
    BY <1>11, <2>1, <2>2, AppliedTypes, HandStep DEF Intrude, TypeOK
<1>12. CASE UNCHANGED vars
  BY <1>12 DEF vars, swarm, TypeOK
<1> QED
  BY <1>1, <1>2, <1>3, <1>4, <1>5, <1>6, <1>7, <1>8, <1>9, <1>10, <1>11, <1>12
     DEF Next, Sweep

-----------------------------------------------------------------------------
(* What a step does to what runs and to what is in use *)

\* Whoever makes a name's thing disappear found it, by that identity.
LEMMA Deletions ==
    ASSUME TypeOK, [Next]_vars, NEW n \in Names, live[n] # 0, live'[n] = 0
    PROVE  <<n, live[n]>> \in Things /\ (PruneService \/ PruneResource)
<1>0. fresh # 0
  BY DEF TypeOK
<1>1. CASE PruneService
  <2>1. PICK thing \in pass.services : live[thing[1]] = thing[2] /\ Gone(thing[1])
    BY <1>1 DEF PruneService, swarm
  <2>2. thing[1] = n /\ thing = <<thing[1], thing[2]>>
    BY <2>1 DEF Gone, TypeOK, Names
  <2> QED
    BY <1>1, <2>1, <2>2 DEF Things
<1>2. CASE PruneResource
  <2>1. PICK thing \in pass.resources : live[thing[1]] = thing[2] /\ Gone(thing[1])
    BY <1>2 DEF PruneResource, Deletable, swarm
  <2>2. thing[1] = n /\ thing = <<thing[1], thing[2]>>
    BY <2>1 DEF Gone, TypeOK, Names
  <2> QED
    BY <1>2, <2>1, <2>2 DEF Things
<1>3. CASE Apply
  BY <1>3 DEF Apply, swarm
<1>4. CASE Intrude
  BY <1>4 DEF Intrude
<1>5. CASE Recreate
  BY <1>0, <1>5 DEF Recreate, Live, TypeOK
<1>6. CASE \/ Observe \/ ServicesEnd \/ Confirm \/ ApplyFails \/ Commit \/ RollBack \/ Hold
           \/ Restart \/ UNCHANGED vars
  BY <1>6 DEF Observe, ServicesEnd, Confirm, ApplyFails, Commit, RollBack, Hold, Restart, swarm,
         vars
<1> QED
  BY <1>1, <1>2, <1>3, <1>4, <1>5, <1>6 DEF Next, Sweep

\* What is in use after an apply was in use before it, or is what it deployed.
LEMMA AppliedUses ==
    ASSUME TypeOK, NEW names \in SUBSET Names, NEW own, Applied(names, own)
    PROVE  InUse' \subseteq InUse \cup names
<1> SUFFICES ASSUME NEW s \in Services, live'[s] # 0, NEW n \in spec'[s] \cup previous'[s]
             PROVE  n \in names \/ (live[s] # 0 /\ n \in spec[s] \cup previous[s])
  BY DEF InUse, Live
<1> QED
  BY DEF Applied, Refers, TypeOK, Names

\* Nobody but an apply, of this application or of another, makes a running service
\* refer to what none referred to.
LEMMA UseStep ==
    ASSUME TypeOK, [Next]_vars
    PROVE  \/ InUse' \subseteq InUse
           \/ Intrude /\ \E names \in SUBSET Names : Applied(names, FALSE)
           \/ Apply /\ Applied(pass.chart, TRUE)
<1>1. CASE Apply /\ ~UNCHANGED swarm
  BY <1>1 DEF Apply, Applied
<1>2. CASE PruneService \/ PruneResource \/ Recreate
  <2>1. UNCHANGED <<spec, previous>>
    BY <1>2 DEF PruneService, PruneResource, Recreate, Gone, swarm
  <2>2. \A s \in Services : live'[s] # 0 => live[s] # 0
    <3>1. CASE Recreate
      BY <3>1 DEF Recreate, Live, TypeOK, Names
    <3>2. CASE \E n \in Names : Gone(n)
      BY <3>2 DEF Gone, TypeOK, Names
    <3>3. CASE PruneService \/ PruneResource
      BY <3>2, <3>3 DEF PruneService, PruneResource, TypeOK, Names, swarm
    <3> QED
      BY <1>2, <3>1, <3>3
  <2> QED
    BY <2>1, <2>2 DEF InUse, Live
<1>3. CASE RollBack
  <2> PICK s \in Services : /\ spec' = [spec EXCEPT ![s] = previous[s]]
                            /\ previous' = [previous EXCEPT ![s] = spec[s]]
                            /\ live' = live
    BY <1>3 DEF RollBack, Live
  <2>1. InUse' \subseteq InUse
    BY DEF InUse, Live, TypeOK
  <2> QED
    BY <2>1
<1>4. CASE UNCHANGED swarm \/ Hold
  BY <1>4 DEF Hold, swarm, InUse, Live
<1>5. CASE Intrude
  BY <1>5, SweepAssumption DEF Intrude, Applied, SweepAssumption
<1> QED
  BY <1>1, <1>2, <1>3, <1>4, <1>5 DEF Next, Sweep, Observe, ServicesEnd, Confirm, ApplyFails,
     Commit, Restart, vars

-----------------------------------------------------------------------------
(* The parts of the invariant *)

LEMMA IInit == Init => IInv
<1> SUFFICES ASSUME Init PROVE IInv
  OBVIOUS
<1>1. TypeOK
  BY TypeInit
<1>2. RollbackPossible
  BY DEF Init, RollbackPossible, Refers, Live, Names
<1>3. AttemptsBounded
  BY SweepAssumption DEF Init, Zero, AttemptsBounded, SweepAssumption
<1>4. FoundInv /\ UnusedInv /\ CountInv
  BY DEF Init, NoPass, FoundInv, UnusedInv, CountInv, Things
<1> QED
  BY <1>1, <1>2, <1>3, <1>4 DEF IInv, SweepInv

\* What a service refers to, or would after a rollback, is created before it is
\* referred to and not deleted while it is.
LEMMA RollbackStep == IInv /\ [Next]_vars => RollbackPossible'
<1> SUFFICES ASSUME IInv, [Next]_vars, NEW n \in InUse' PROVE live'[n] # 0
  BY DEF RollbackPossible, InUse, Live
<1>0. TypeOK /\ TypeOK'
  BY TypeStep DEF IInv, SweepInv
<1>1. n \in Resources
  BY <1>0 DEF TypeOK, InUse, Live
<1>2. fresh # 0
  BY <1>0, <1>1 DEF TypeOK, Names
<1>3. CASE n \in InUse
  <2>1. live[n] # 0
    BY <1>3 DEF IInv, SweepInv, RollbackPossible, InUse, Live
  <2>2. n \in Names /\ n \notin Services
    BY <1>1, SweepAssumption DEF Names, SweepAssumption
  <2>3. <<n, live[n]>> \notin Things
    BY <1>0, <1>3, <2>2 DEF IInv, UnusedInv, Things, TypeOK
  <2> QED
    BY <1>0, <2>1, <2>2, <2>3, Deletions
<1>4. CASE n \notin InUse
  <2>1. PICK names \in SUBSET Names, own \in BOOLEAN : Applied(names, own)
    BY <1>0, <1>4, UseStep DEF TypeOK
  <2>2. n \in names
    BY <1>0, <1>4, <2>1, AppliedUses
  <2> QED
    BY <1>0, <1>1, <1>2, <2>1, <2>2 DEF Applied, Names
<1> QED
  BY <1>3, <1>4

\* What an observation finds is not declared and not in use, and is once found.
LEMMA Observed ==
    ASSUME TypeOK, NEW outcome \in {"all", "services", "nothing"}, ObserveAt(chart, outcome)
    PROVE  /\ pass'.chart = chart
           /\ \A thing \in Things' : thing[1] \notin chart
           /\ \A thing \in pass'.resources :
                 thing[1] \notin InUse /\ failures'[thing[1]] < MaxPruneAttempts
           /\ \A t, u \in pass'.resources : t[1] = u[1] => t = u
<1> DEFINE found == Found(chart, outcome)
<1>1. /\ pass'.chart = chart
      /\ pass'.services = {<<n, live[n]>> : n \in found \cap Services}
      /\ pass'.resources = {<<n, live[n]>> : n \in (found \cap Resources) \ Retained(found)}
      /\ failures' = Kept(found)
  BY DEF ObserveAt
<1>2. found \cap chart = {} /\ found \cap Resources \cap InUse = {}
  BY FoundThings
<1>3. \A n \in (found \cap Resources) \ Retained(found) :
         failures'[n] = failures[n] /\ failures[n] < MaxPruneAttempts
  <2> HIDE DEF found
  <2> QED
    BY <1>1, SweepAssumption DEF Kept, Retained, TypeOK, SweepAssumption
<1> HIDE DEF found
<1> QED
  BY <1>1, <1>2, <1>3 DEF Things

\* Between passes nothing is left to delete, and a pass deletes nothing that its
\* chart declares.
LEMMA FoundStep == IInv /\ [Next]_vars => FoundInv'
<1> SUFFICES ASSUME IInv, [Next]_vars PROVE FoundInv'
  OBVIOUS
<1>0. TypeOK /\ FoundInv
  BY DEF IInv, SweepInv
<1>1. CASE Observe
  <2>1. PICK outcome \in {"all", "services", "nothing"} : ObserveAt(chart, outcome)
    BY <1>1 DEF Observe
  <2>2. pc' = "idle" => Things' = {}
    BY <1>1 DEF Observe, Things
  <2> QED
    BY <1>0, <2>1, <2>2, Observed DEF FoundInv
<1>2. CASE Confirm \/ ApplyFails \/ Restart
  BY <1>2 DEF Confirm, ApplyFails, Restart, NoPass, FoundInv, Things
<1>3. CASE PruneService
  <2>1. PICK thing : pass' = [pass EXCEPT !.services = @ \ {thing}] /\ pc' = pc
    BY <1>3 DEF PruneService
  <2>2. pass'.chart = pass.chart /\ Things' \subseteq Things
    BY <1>0, <2>1 DEF Things, TypeOK
  <2> QED
    BY <1>0, <2>1, <2>2 DEF FoundInv
<1>4. CASE PruneResource
  <2>1. PICK thing : pass' = [pass EXCEPT !.resources = @ \ {thing}] /\ pc' = pc
    BY <1>4 DEF PruneResource
  <2>2. pass'.chart = pass.chart /\ Things' \subseteq Things
    BY <1>0, <2>1 DEF Things, TypeOK
  <2> QED
    BY <1>0, <2>1, <2>2 DEF FoundInv
<1>5. CASE Apply \/ ServicesEnd
  BY <1>0, <1>5 DEF Apply, ServicesEnd, FoundInv, Things
<1>6. CASE Commit \/ RollBack \/ Recreate \/ Hold \/ Intrude \/ UNCHANGED vars
  BY <1>0, <1>6 DEF Commit, RollBack, Recreate, Hold, Intrude, vars, FoundInv, Things
<1> QED
  BY <1>1, <1>2, <1>3, <1>4, <1>5, <1>6 DEF Next, Sweep

\* Nobody comes to use what is found unused: only applies make a service refer to
\* more, this one's deploys nothing that was found, and others come between passes.
LEMMA UnusedStep == IInv /\ [Next]_vars => UnusedInv'
<1> SUFFICES ASSUME IInv, [Next]_vars PROVE UnusedInv'
  OBVIOUS
<1>0. TypeOK /\ FoundInv /\ UnusedInv
  BY DEF IInv, SweepInv
<1>1. CASE Observe
  <2>1. PICK outcome \in {"all", "services", "nothing"} : ObserveAt(chart, outcome)
    BY <1>1 DEF Observe
  <2>2. InUse' = InUse
    BY <1>1 DEF Observe, swarm, InUse, Live
  <2> QED
    BY <1>0, <2>1, <2>2, Observed DEF UnusedInv
<1>2. CASE Intrude
  BY <1>0, <1>2 DEF Intrude, FoundInv, UnusedInv, Things
<1>3. CASE ~Observe /\ ~Intrude
  <2>1. pass'.resources \subseteq pass.resources
    <3>1. CASE PruneService \/ PruneResource
      BY <1>0, <3>1 DEF PruneService, PruneResource, TypeOK
    <3> QED
      BY <1>3, <3>1 DEF Next, Sweep, Apply, ServicesEnd, Confirm, ApplyFails, Commit, RollBack,
         Recreate, Hold, Restart, vars, NoPass
  <2>2. InUse' \subseteq InUse \cup pass.chart
    BY <1>0, <1>3, UseStep, AppliedUses DEF TypeOK
  <2> QED
    BY <1>0, <2>1, <2>2 DEF FoundInv, UnusedInv, Things
<1> QED
  BY <1>1, <1>2, <1>3

\* A resource that failed MaxPruneAttempts times is not tried again, so no count
\* passes it.
LEMMA CountStep == IInv /\ [Next]_vars => CountInv' /\ AttemptsBounded'
<1> SUFFICES ASSUME IInv, [Next]_vars PROVE CountInv' /\ AttemptsBounded'
  OBVIOUS
<1>0. TypeOK /\ CountInv /\ AttemptsBounded /\ MaxPruneAttempts \in Nat
  BY SweepAssumption DEF IInv, SweepInv, SweepAssumption
<1>1. CASE Observe
  <2>1. PICK outcome \in {"all", "services", "nothing"} : ObserveAt(chart, outcome)
    BY <1>1 DEF Observe
  <2>2. AttemptsBounded'
    BY <1>0, <2>1 DEF ObserveAt, Kept, AttemptsBounded
  <2> QED
    BY <1>0, <2>1, <2>2, Observed DEF CountInv
<1>2. CASE Confirm
  BY <1>0, <1>2 DEF Confirm, NoPass, Kept, CountInv, AttemptsBounded
<1>3. CASE ApplyFails \/ Restart
  BY <1>0, <1>3 DEF ApplyFails, Restart, NoPass, Zero, CountInv, AttemptsBounded
<1>4. CASE PruneResource
  <2>1. PICK thing \in pass.resources :
           /\ pass' = [pass EXCEPT !.resources = @ \ {thing}]
           /\ \/ failures' = [failures EXCEPT ![thing[1]] = 0]
              \/ failures' = [failures EXCEPT ![thing[1]] = @ + 1]
    BY <1>4 DEF PruneResource
  <2>2. pass'.resources = pass.resources \ {thing}
    BY <1>0, <2>1 DEF TypeOK
  <2>3. thing[1] \in Resources /\ failures[thing[1]] < MaxPruneAttempts
    BY <1>0, <2>1 DEF CountInv, TypeOK
  <2>4. \A n \in Resources \ {thing[1]} : failures'[n] = failures[n]
    BY <1>0, <2>1, <2>3 DEF TypeOK
  <2>5. failures'[thing[1]] \in Nat /\ failures'[thing[1]] <= MaxPruneAttempts
    BY <1>0, <2>1, <2>3 DEF TypeOK
  <2>6. \A t \in pass'.resources : t[1] \in Resources \ {thing[1]}
    BY <1>0, <2>1, <2>2 DEF CountInv, TypeOK
  <2> QED
    BY <1>0, <2>2, <2>4, <2>5, <2>6 DEF CountInv, AttemptsBounded
<1>5. CASE PruneService
  <2>1. PICK thing : pass' = [pass EXCEPT !.services = @ \ {thing}] /\ failures' = failures
    BY <1>5 DEF PruneService
  <2>2. pass'.resources = pass.resources
    BY <1>0, <2>1 DEF TypeOK
  <2> QED
    BY <1>0, <2>1, <2>2 DEF CountInv, AttemptsBounded
<1>6. CASE \/ Apply \/ ServicesEnd \/ Commit \/ RollBack \/ Recreate \/ Hold \/ Intrude
           \/ UNCHANGED vars
  BY <1>0, <1>6 DEF Apply, ServicesEnd, Commit, RollBack, Recreate, Hold, Intrude, vars,
     CountInv, AttemptsBounded
<1> QED
  BY <1>1, <1>2, <1>3, <1>4, <1>5, <1>6 DEF Next, Sweep

LEMMA IStep == IInv /\ [Next]_vars => IInv'
  BY TypeStep, RollbackStep, FoundStep, UnusedStep, CountStep DEF IInv, SweepInv

LEMMA InvariantHolds == Spec => []IInv
  BY IInit, IStep, PTL DEF Spec

-----------------------------------------------------------------------------

\* Whatever Swarm may roll a service back to is still there, and a resource that
\* cannot be deleted is given up: inUse, and the counts of recordPruneFailures.
THEOREM SweepSafe == Spec => []SweepInv
<1>1. IInv => SweepInv
  BY DEF IInv
<1> QED
  BY <1>1, InvariantHolds, PTL

\* pruneServices and pruneResources delete what observe found, by its identity, and
\* nothing that the chart just applied declares.
THEOREM DeletesSafe == Spec => DeletesOnlyFound
<1>1. ASSUME IInv, [Next]_vars, NEW n \in Names, live[n] # 0, live'[n] = 0
      PROVE  <<n, live[n]>> \in pass.services \cup pass.resources /\ n \notin pass.chart
  <2>1. <<n, live[n]>> \in Things
    BY <1>1, Deletions DEF IInv, SweepInv
  <2> QED
    BY <1>1, <2>1 DEF Things, IInv, FoundInv
<1>2. IInv /\ [Next]_vars =>
        [\A n \in Names : live[n] # 0 /\ live'[n] = 0 =>
           <<n, live[n]>> \in pass.services \cup pass.resources]_vars
  BY <1>1
<1>3. IInv /\ [Next]_vars =>
        [\A n \in Names : live[n] # 0 /\ live'[n] = 0 => n \notin pass.chart]_vars
  BY <1>1
<1> QED
  BY <1>2, <1>3, InvariantHolds, PTL
     DEF Spec, DeletesOnlyFound, DeletesWhatItSaw, SparesDeclared
=============================================================================
