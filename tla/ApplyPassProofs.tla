-------------------------- MODULE ApplyPassProofs ---------------------------
(***************************************************************************)
(* One pass does what it says: it claims nothing that is not so, holds the *)
(* waves apart, sweeps in its order and replaces the controller last; for  *)
(* any releases, waves, commits, policies and bounds.                      *)
(***************************************************************************)
EXTENDS ApplyPass, TLAPS

-----------------------------------------------------------------------------
(* The inductive invariant *)

\* What the commit of the pass declares and is not deployed.
Missing == {r \in Declared(pass.rev) : rec[r] # Declares[pass.rev][r]}

\* A sync is open while its apply runs, and nobody claims to be synced meanwhile.
OpenInv ==
    /\ open \in {0, 1}
    /\ pc = "idle" /\ ~stopping => open = 0
    /\ pc \in {"sweepFirst", "apply", "correct"} => open = 1
    /\ pc \in {"sweep", "confirm", "self"} => open = 0
    /\ status.sync = "synced" => pc \in {"idle", "self"} /\ status.rev \in Commits
    /\ pc = "self" => status.last = "ok" /\ status.rev = pass.rev

\* What a pass works on is what its commit declares; what it sweeps is not.
PlanInv ==
    /\ pc = "idle" => pass = NoPass
    /\ pc # "idle" => /\ pass.rev \in Commits
                      /\ pass.deploy \cup pass.want \subseteq Declared(pass.rev)
                      /\ pass.fix \cup pass.fixed \subseteq pass.want
                      /\ pass.orphans \cap Declared(pass.rev) = {}
                      /\ pass.elsewhere \subseteq others
    /\ pass.await # None => pass.await \in pass.fixed
    /\ pass.scopes \subseteq pass.fixed

\* Where a sweep stands in the pass, and where nothing can have failed yet.
OrderInv ==
    /\ pc = "sweepFirst" => policy.pruneFirst
    /\ pc = "sweep" => ~policy.pruneFirst
    /\ pc \in {"apply", "confirm", "self"} => ~pass.failed
    /\ pc \in {"sweepFirst", "apply"} =>
          /\ pass.fix = pass.want /\ pass.fixed = {} /\ pass.settled = {}
          /\ pass.scopes = {} /\ pass.await = None

\* The engine has still to deploy what is missing, and after it nothing is.
DeployedInv ==
    /\ pc \in {"sweepFirst", "apply"} => Missing \subseteq pass.deploy
    /\ pc \in {"correct", "sweep", "confirm", "self"} => Missing = {}

\* Waves are corrected upwards; what is not known to have settled is in the scopes
\* of the wave that the barrier is about to look at.
WaveInv ==
    pc = "correct" =>
        /\ \A r \in pass.fix : pass.wave <= Wave[r]
        /\ \A q \in pass.scopes : Wave[q] = pass.wave
        /\ pass.await # None => Wave[pass.await] = pass.wave
        /\ ~policy.wait /\ pass.fix # {} => pass.fixed \subseteq pass.settled \cup pass.scopes

\* What was to be corrected is written or still to be, or the pass has failed.
CorrectedInv ==
    /\ \A r \in pass.fixed : phase[r] = "converged" => r \in pass.settled
    /\ pc = "correct" /\ ~pass.failed =>
          /\ pass.want \subseteq pass.fix \cup pass.fixed
          /\ policy.wait => pass.fixed \subseteq pass.settled \cup {pass.await}
    /\ pc \in {"sweep", "confirm", "self"} =>
          pass.want \subseteq IF policy.wait THEN pass.settled ELSE pass.fixed

\* What the commit left behind is still to be swept, or another application's.
OrphanInv ==
    /\ pc # "idle" /\ (pc \in {"sweepFirst", "sweep"} => ~pass.failed) =>
          Orphaned(pass.rev) \subseteq pass.orphans \cup pass.elsewhere
    /\ pc \in {"confirm", "self"} \/ (policy.pruneFirst /\ pc \in {"apply", "correct"}) =>
          pass.orphans = {}

DoomedInv ==
    /\ pc = "sweepFirst" /\ ~pass.failed => Doomed(pass.rev) \subseteq pass.doomed \cup pass.elsewhere
    /\ pc = "apply" /\ policy.pruneFirst => Doomed(pass.rev) \ pass.landed \subseteq pass.elsewhere

IInv ==
    /\ TypeOK /\ SyncedIsDeployed /\ OpenInv /\ PlanInv /\ OrderInv /\ DeployedInv
    /\ WaveInv /\ CorrectedInv /\ OrphanInv /\ DoomedInv

-----------------------------------------------------------------------------
(* Types *)

LEMMA Assumed ==
    /\ None \notin Releases /\ None \notin Manifests
    /\ Wave \in [Releases -> Nat] /\ Waves \subseteq Nat
    /\ 1 \in Commits /\ Commits \subseteq Nat /\ 0 \notin Commits
    /\ Declares \in [Commits -> [Releases -> Manifests \cup {None}]]
    /\ Own \in Releases \cup {None}
    /\ \A p \in Policies : {p.automated, p.live, p.wait, p.pruneFirst} \subseteq BOOLEAN
    /\ MaxEdits \in Nat /\ MaxFaults \in Nat /\ MaxForced \in Nat
<1>1. Waves \subseteq Nat
  BY PassAssumption DEF PassAssumption, Waves
<1>2. 1 \in Commits /\ Commits \subseteq Nat /\ 0 \notin Commits
  <2> DEFINE n == Cardinality(Commits)
  <2>1. n \in Nat \ {0} /\ Commits = 1 .. n
    BY PassAssumption DEF PassAssumption
  <2> HIDE DEF n
  <2> QED
    BY <2>1
<1> QED
  BY <1>1, <1>2, PassAssumption DEF PassAssumption

Budgets == [edits: 0..MaxEdits, faults: 0..MaxFaults, forced: 0..MaxForced]
Statuses == [sync: {"unknown", "synced", "out"}, drift: {"unknown", "none", "detected"},
             rev: Commits \cup {0}, last: {"none", "ok", "failed"}]

LEMMA FaultStep == ASSUME TypeOK, Fault PROVE budget' \in Budgets
<1>1. budget.faults \in 0..MaxFaults /\ budget.faults - 1 \in 0..MaxFaults
  BY Assumed DEF TypeOK, Fault
<1> QED
  BY <1>1 DEF TypeOK, Fault, Budgets

LEMMA EditStep == ASSUME TypeOK, Edit PROVE budget' \in Budgets
<1>1. budget.edits \in 0..MaxEdits /\ budget.edits - 1 \in 0..MaxEdits
  BY Assumed DEF TypeOK, Edit
<1> QED
  BY <1>1 DEF TypeOK, Edit, Budgets

LEMMA PublishedType ==
    ASSUME NEW c \in Commits, NEW again, NEW last \in {"none", "ok", "failed"}
    PROVE  /\ Published(c, again, last) \in Statuses
           /\ Published(c, again, last).rev = c /\ Published(c, again, last).last = last
           /\ Published(c, again, last).sync = "synced" <=>
                 ToDeploy(c, again) \cup Differing(c, again) = {}
BY DEF Published, Status, Statuses

LEMMA LastType ==
    ASSUME TypeOK, NEW last \in {"none", "ok", "failed"}
    PROVE  /\ [status EXCEPT !.last = last] \in Statuses
           /\ [status EXCEPT !.last = last].sync = status.sync
           /\ [status EXCEPT !.last = last].rev = status.rev
           /\ [status EXCEPT !.last = last].last = last
BY DEF TypeOK, Statuses

LEMMA NoPassType == NoPass \in Passes
BY DEF NoPass, Passes

\* The types of everything but what a step is about.
LEMMA SetTypes ==
    ASSUME NEW c \in Commits, NEW again
    PROVE  /\ ToDeploy(c, again) \subseteq Declared(c) /\ Fixable(c, again) \subseteq Declared(c)
           /\ Doomed(c) \subseteq Declared(c) /\ Declared(c) \subseteq Releases
           /\ Orphaned(c) \subseteq Releases /\ Orphaned(c) \cap Declared(c) = {}
           /\ Fixable(c, again) \subseteq Differing(c, again)
           /\ Doomed(c) \subseteq Differing(c, again)
BY DEF ToDeploy, Fixable, Drifted, Compared, Doomed, Declared, Orphaned, Differing

-----------------------------------------------------------------------------
(* Steps that end a pass, or do not begin one *)

LEMMA RestKeeps ==
    ASSUME TypeOK', pc' = "idle", pass' = NoPass, open' \in {0, 1},
           ~stopping' => open' = 0, SyncedIsDeployed',
           status'.sync = "synced" => status'.rev \in Commits
    PROVE  IInv'
<1>1. /\ pass'.fixed = {} /\ pass'.await = None /\ pass'.scopes = {}
  BY DEF NoPass
<1>2. OpenInv' /\ PlanInv'
  BY <1>1 DEF OpenInv, PlanInv
<1>3. OrderInv' /\ DeployedInv' /\ WaveInv' /\ CorrectedInv' /\ OrphanInv' /\ DoomedInv'
  BY <1>1 DEF OrderInv, DeployedInv, WaveInv, CorrectedInv, OrphanInv, DoomedInv
<1> QED
  BY <1>2, <1>3 DEF IInv

LEMMA InitKeeps == Init => IInv
<1> SUFFICES ASSUME Init PROVE IInv
  OBVIOUS
<1>1. /\ head = 1 /\ pc = "idle" /\ pass = NoPass /\ open = 0 /\ status = Unknown
      /\ status.sync = "unknown"
  BY DEF Init, Unknown, Status
<1>2. budget \in Budgets
  BY Assumed DEF Init, Budgets
<1>3. status \in Statuses
  BY <1>1 DEF Unknown, Status, Statuses
<1>4. TypeOK
  <2>1. /\ policy \in Policies /\ head \in Commits /\ wide \subseteq Releases /\ others \subseteq Releases
        /\ error \in BOOLEAN /\ stopping \in BOOLEAN /\ open \in Nat /\ unstable \in Commits \cup {0}
    BY Assumed DEF Init
  <2>2. /\ rec \in [Releases -> Manifests \cup {None}] /\ deploys \in [Releases -> 0..2]
        /\ run \in [Releases -> {"gone", "asRecorded", "edited", "reverted", "deferred"}]
        /\ phase \in [Releases -> {"converged", "updating", "wedged"}]
    BY DEF Init
  <2>3. pass \in Passes
    BY <1>1, NoPassType
  <2> QED
    BY <1>1, <1>2, <1>3, <2>1, <2>2, <2>3 DEF TypeOK, Budgets, Statuses
<1>5. /\ pass.fixed = {} /\ pass.await = None /\ pass.scopes = {}
  BY <1>1 DEF NoPass
<1>6. OpenInv /\ PlanInv /\ SyncedIsDeployed
  BY <1>1, <1>5 DEF OpenInv, PlanInv, SyncedIsDeployed
<1>7. OrderInv /\ DeployedInv /\ WaveInv /\ CorrectedInv /\ OrphanInv /\ DoomedInv
  BY <1>1, <1>5 DEF OrderInv, DeployedInv, WaveInv, CorrectedInv, OrphanInv, DoomedInv
<1> QED
  BY <1>4, <1>6, <1>7 DEF IInv

\* Return, with nothing else but the status, the budget and the swarm's rollouts changed.
LEMMA ReturnKeeps ==
    ASSUME IInv, pc' = "idle", pass' = NoPass, error' \in BOOLEAN,
           UNCHANGED <<policy, head, rec, wide, others, unstable, deploys>>,
           run' \in [Releases -> {"gone", "asRecorded", "edited", "reverted", "deferred"}],
           phase' \in [Releases -> {"converged", "updating", "wedged"}],
           budget' \in Budgets, status' \in Statuses,
           status'.sync = status.sync /\ status'.rev = status.rev,
           stopping' \in BOOLEAN, open' \in {0, 1}, ~stopping' => open' = 0
    PROVE  IInv'
<1>1. TypeOK'
  BY NoPassType DEF IInv, TypeOK, Budgets, Statuses
<1>2. SyncedIsDeployed' /\ (status'.sync = "synced" => status'.rev \in Commits)
  BY DEF IInv, OpenInv, SyncedIsDeployed
<1> QED
  BY <1>1, <1>2, RestKeeps

LEMMA PassFailsKeeps == ASSUME IInv, PassFails PROVE IInv'
<1>1. budget' \in Budgets
  BY FaultStep DEF PassFails, IInv
<1> QED
  BY <1>1, ReturnKeeps DEF PassFails, Return, world, IInv, TypeOK, Budgets, Statuses, OpenInv

LEMMA EngineFailsKeeps == ASSUME IInv, EngineFails PROVE IInv'
<1>1. budget' \in Budgets
  BY FaultStep DEF EngineFails, NotSettled, IInv, TypeOK, Budgets
<1>2. open' = 0
  BY DEF EngineFails, Outcome, IInv, OpenInv
<1>3. status' \in Statuses /\ status'.sync = status.sync /\ status'.rev = status.rev
  BY LastType DEF EngineFails, Outcome, IInv
<1> QED
  BY <1>1, <1>2, <1>3, ReturnKeeps DEF EngineFails, Return, world, IInv, TypeOK

LEMMA ConfirmFailsKeeps == ASSUME IInv, ConfirmFails PROVE IInv'
<1>1. budget' \in Budgets
  BY FaultStep DEF ConfirmFails, IInv
<1>2. open' = 0
  BY DEF ConfirmFails, IInv, OpenInv
<1>3. status' \in Statuses /\ status'.sync = status.sync /\ status'.rev = status.rev
  BY LastType DEF ConfirmFails, IInv
<1> QED
  BY <1>1, <1>2, <1>3, ReturnKeeps DEF ConfirmFails, Return, world, IInv, TypeOK

LEMMA ReplaceSelfKeeps == ASSUME IInv, ReplaceSelf PROVE IInv'
<1>1. open' = 0
  BY DEF ReplaceSelf, IInv, OpenInv
<1>2. /\ run' \in [Releases -> {"gone", "asRecorded", "edited", "reverted", "deferred"}]
      /\ phase' \in [Releases -> {"converged", "updating", "wedged"}]
  BY DEF ReplaceSelf, IInv, TypeOK
<1>3. stopping' \in BOOLEAN
  BY DEF ReplaceSelf, IInv, TypeOK
<1> QED
  BY <1>1, <1>2, <1>3, ReturnKeeps DEF ReplaceSelf, Return, IInv, TypeOK, Budgets, Statuses

LEMMA ReplaceFailsKeeps == ASSUME IInv, ReplaceFails PROVE IInv'
<1>1. budget' \in Budgets
  BY FaultStep DEF ReplaceFails, IInv
<1>2. open' = 0
  BY DEF ReplaceFails, IInv, OpenInv
<1> QED
  BY <1>1, <1>2, ReturnKeeps DEF ReplaceFails, Return, world, IInv, TypeOK, Statuses

LEMMA AbandonKeeps == ASSUME IInv, Abandon PROVE IInv'
<1>1. status' \in Statuses /\ status'.sync = status.sync /\ status'.rev = status.rev
  <2>1. CASE pc \in {"sweep", "confirm"}
    BY <2>1, LastType DEF Abandon, IInv
  <2>2. CASE pc \notin {"sweep", "confirm"}
    BY <2>2 DEF Abandon, IInv, TypeOK, Statuses
  <2> QED
    BY <2>1, <2>2
<1>2. open' \in {0, 1} /\ stopping'
  BY DEF Abandon, IInv, OpenInv
<1> QED
  BY <1>1, <1>2, ReturnKeeps DEF Abandon, Return, world, IInv, TypeOK, Budgets

LEMMA RestartKeeps == ASSUME IInv, Restart PROVE IInv'
<1>1. pc' = "idle" /\ pass' = NoPass /\ open' = 0 /\ status' = Unknown
  BY DEF Restart, IInv, PlanInv
<1>2. status' \in Statuses /\ status'.sync = "unknown"
  BY <1>1 DEF Unknown, Status, Statuses
<1>3. deploys' \in [Releases -> 0..2]
  BY DEF Restart
<1>4. TypeOK'
  <2>1. /\ UNCHANGED <<policy, head, rec, run, phase, wide, others, budget, pc, pass>>
        /\ stopping' = FALSE /\ error' = FALSE /\ unstable' = 0 /\ open' = 0 /\ 0 \in Nat
    BY DEF Restart, world
  <2>2. TypeOK
    BY DEF IInv
  <2> QED
    BY <1>2, <1>3, <2>1, <2>2 DEF TypeOK, Statuses
<1>5. SyncedIsDeployed'
  BY <1>2 DEF SyncedIsDeployed
<1> QED
  BY <1>1, <1>2, <1>4, <1>5, RestKeeps

\* A pass up to the gates: what it publishes is true, and synced is nothing to do.
LEMMA ReadTypes ==
    ASSUME TypeOK, NEW force, NEW again, Read(force, again), UNCHANGED rec
    PROVE  /\ budget' \in Budgets /\ status' \in Statuses /\ unstable' \in Commits \cup {0}
           /\ status'.rev = head /\ head \in Commits /\ pc = "idle"
           /\ status'.sync = "synced" => ToDo(again) = {}
           /\ SyncedIsDeployed'
<1>1. budget' \in Budgets
  <2>1. CASE force
    <3>1. budget.forced \in 0..MaxForced /\ budget.forced - 1 \in 0..MaxForced
      BY <2>1, Assumed DEF TypeOK, Read
    <3> QED
      BY <2>1, <3>1 DEF TypeOK, Read, Budgets
  <2>2. CASE ~force
    BY <2>2 DEF TypeOK, Read, Budgets
  <2> QED
    BY <2>1, <2>2
<1>2. head \in Commits /\ status.last \in {"none", "ok", "failed"}
  BY DEF TypeOK
<1>3. /\ status' = Published(head, again, status.last) /\ pc = "idle"
      /\ unstable' \in Commits \cup {0}
  BY DEF Read, TypeOK
<1>4. /\ status' \in Statuses /\ status'.rev = head
      /\ status'.sync = "synced" <=> ToDeploy(head, again) \cup Differing(head, again) = {}
  BY <1>2, <1>3, PublishedType
<1>5. status'.sync = "synced" => ToDo(again) = {}
  BY <1>2, <1>4, SetTypes DEF ToDo
<1>6. SyncedIsDeployed'
  BY <1>4 DEF SyncedIsDeployed, ToDeploy, Declared
<1> QED
  BY <1>1, <1>2, <1>3, <1>4, <1>5, <1>6

LEMMA PassRestsKeeps == ASSUME IInv, PassRests PROVE IInv'
<1> PICK again \in SUBSET Flapping :
       /\ Read(FALSE, again) /\ error' = FALSE
       /\ deploys' = [r \in Releases |-> IF r \in ToDeploy(head, again) THEN deploys[r] ELSE 0]
       /\ UNCHANGED <<policy, world, pc, pass, stopping, open>>
  BY DEF PassRests
<1>1. UNCHANGED rec /\ TypeOK
  BY DEF world, IInv
<1>2. /\ budget' \in Budgets /\ status' \in Statuses /\ unstable' \in Commits \cup {0}
      /\ status'.rev \in Commits /\ pc = "idle" /\ SyncedIsDeployed'
  BY <1>1, ReadTypes
<1>3. deploys' \in [Releases -> 0..2]
  BY <1>1 DEF TypeOK
<1>4. TypeOK'
  BY <1>1, <1>2, <1>3 DEF TypeOK, world, Budgets, Statuses
<1>5. pass' = NoPass /\ open' \in {0, 1} /\ (~stopping' => open' = 0) /\ pc' = "idle"
  BY <1>2 DEF IInv, PlanInv, OpenInv
<1> QED
  BY <1>2, <1>4, <1>5, RestKeeps

LEMMA PassHeldKeeps == ASSUME IInv, PassHeld PROVE IInv'
<1> PICK again \in SUBSET Flapping :
       /\ Read(FALSE, again) /\ error' = TRUE
       /\ UNCHANGED <<policy, world, pc, pass, stopping, open, deploys>>
  BY DEF PassHeld
<1>1. UNCHANGED rec /\ TypeOK
  BY DEF world, IInv
<1>2. /\ budget' \in Budgets /\ status' \in Statuses /\ unstable' \in Commits \cup {0}
      /\ status'.rev \in Commits /\ pc = "idle" /\ SyncedIsDeployed'
  BY <1>1, ReadTypes
<1>3. TypeOK'
  BY <1>1, <1>2 DEF TypeOK, world, Budgets, Statuses
<1>4. pass' = NoPass /\ open' \in {0, 1} /\ (~stopping' => open' = 0) /\ pc' = "idle"
  BY <1>2 DEF IInv, PlanInv, OpenInv
<1> QED
  BY <1>2, <1>3, <1>4, RestKeeps

-----------------------------------------------------------------------------
(* Steps of a pass *)

LEMMA BegunType ==
    ASSUME NEW rev \in Commits, NEW forced \in BOOLEAN, NEW d \in SUBSET Releases,
           NEW f \in SUBSET Releases, NEW o \in SUBSET Releases, NEW g \in SUBSET Releases,
           NEW e \in SUBSET Releases
    PROVE  [NoPass EXCEPT !.rev = rev, !.forced = forced, !.deploy = d, !.want = f, !.fix = f,
                          !.orphans = o, !.doomed = g, !.elsewhere = e] \in Passes
<1>1. \A p \in Passes :
         [p EXCEPT !.rev = rev, !.forced = forced, !.deploy = d, !.want = f, !.fix = f,
                   !.orphans = o, !.doomed = g, !.elsewhere = e] \in Passes
  BY DEF Passes
<1> QED
  BY <1>1, NoPassType

LEMMA PassStartsKeeps == ASSUME IInv, NEW force \in BOOLEAN, PassStarts(force) PROVE IInv'
<1> PICK again \in SUBSET Flapping :
       /\ Read(force, again) /\ ToDo(again) # {}
       /\ pass' = [NoPass EXCEPT
                     !.rev = head, !.forced = force, !.deploy = ToDeploy(head, again),
                     !.want = Fixable(head, again), !.fix = Fixable(head, again), !.orphans = Orphaned(head),
                     !.doomed = Doomed(head), !.elsewhere = Elsewhere]
       /\ pc' = IF policy.pruneFirst THEN "sweepFirst" ELSE "apply"
       /\ open' = open + 1 /\ error' = FALSE
       /\ deploys' = [r \in Releases |->
                         IF ~force /\ r \in ToDeploy(head, again) THEN deploys[r] ELSE 0]
       /\ UNCHANGED <<policy, world, stopping>>
  BY DEF PassStarts
<1>1. /\ UNCHANGED <<policy, head, rec, run, phase, wide, others, stopping>> /\ TypeOK
      /\ pc' \in {"sweepFirst", "apply"} /\ (pc' = "sweepFirst" <=> policy.pruneFirst)
      /\ policy.pruneFirst \in BOOLEAN
  BY Assumed DEF world, IInv, TypeOK
<1>2. /\ budget' \in Budgets /\ status' \in Statuses /\ unstable' \in Commits \cup {0}
      /\ status'.rev = head /\ head \in Commits /\ pc = "idle" /\ SyncedIsDeployed'
      /\ status'.sync # "synced"
  BY <1>1, ReadTypes
<1>3. open' = 1
  BY <1>2 DEF IInv, OpenInv, Read
<1>4. /\ pass'.rev = head /\ pass'.deploy = ToDeploy(head, again)
      /\ pass'.want = Fixable(head, again) /\ pass'.fix = pass'.want
      /\ pass'.orphans = Orphaned(head) /\ pass'.doomed = Doomed(head) /\ pass'.elsewhere = others
      /\ pass'.fixed = {} /\ pass'.settled = {} /\ pass'.scopes = {} /\ pass'.await = None
      /\ pass'.failed = FALSE /\ pass'.landed = {}
  BY DEF NoPass, Elsewhere
<1>5. pass' \in Passes
  <2> DEFINE d == ToDeploy(head, again)
             f == Fixable(head, again)
             o == Orphaned(head)
             g == Doomed(head)
  <2>1. /\ d \in SUBSET Releases /\ f \in SUBSET Releases /\ o \in SUBSET Releases
        /\ g \in SUBSET Releases
    BY <1>2, SetTypes
  <2>2. others \in SUBSET Releases
    BY <1>1 DEF TypeOK
  <2>3. pass' = [NoPass EXCEPT !.rev = head, !.forced = force, !.deploy = d, !.want = f, !.fix = f,
                               !.orphans = o, !.doomed = g, !.elsewhere = others]
    BY DEF Elsewhere
  <2> HIDE DEF d, f, o, g
  <2>4. head \in Commits /\ force \in BOOLEAN
    BY <1>2
  <2>5. [NoPass EXCEPT !.rev = head, !.forced = force, !.deploy = d, !.want = f, !.fix = f,
                       !.orphans = o, !.doomed = g, !.elsewhere = others] \in Passes
    BY ONLY <2>1, <2>2, <2>4, BegunType, Zenon
  <2> QED
    BY <2>3, <2>5
<1>6. deploys' \in [Releases -> 0..2]
  BY <1>1 DEF TypeOK
<1>7. TypeOK'
  <2>1. /\ pc' \in {"idle", "sweepFirst", "apply", "correct", "sweep", "confirm", "self"}
        /\ open' \in Nat
    BY <1>1, <1>3
  <2>2. error' \in BOOLEAN
    OBVIOUS
  <2> QED
    BY <1>1, <1>2, <1>5, <1>6, <2>1, <2>2 DEF TypeOK, Budgets, Statuses
<1>8. OpenInv'
  BY <1>1, <1>2, <1>3 DEF OpenInv
<1>9. PlanInv'
  BY <1>1, <1>2, <1>4, SetTypes DEF PlanInv, Declared, Orphaned
<1>10. OrderInv'
  BY <1>1, <1>4 DEF OrderInv
<1>11. DeployedInv'
  BY <1>1, <1>4 DEF DeployedInv, Missing, ToDeploy, Declared
<1>12. WaveInv' /\ CorrectedInv'
  BY <1>1, <1>4 DEF WaveInv, CorrectedInv
<1>13. OrphanInv'
  BY <1>1, <1>4 DEF OrphanInv, Orphaned, Declared
<1>14. DoomedInv'
  BY <1>1, <1>4 DEF DoomedInv, Doomed, Declared
<1> QED
  BY <1>2, <1>7, <1>8, <1>9, <1>10, <1>11, <1>12, <1>13, <1>14 DEF IInv

LEMMA EngineDeploysKeeps == ASSUME IInv, EngineDeploys PROVE IInv'
<1> PICK r \in pass.deploy :
       /\ pc = "apply"
       /\ rec' = [rec EXCEPT ![r] = Declares[pass.rev][r]]
       /\ run' = [run EXCEPT ![r] = IF r = Own THEN "deferred" ELSE "asRecorded"]
       /\ wide' = IF Declares[pass.rev][r] \in Wide THEN wide \cup {r} ELSE wide
       /\ Write(r)
       /\ pass' = [pass EXCEPT !.deploy = @ \ {r}, !.landed = @ \cup {r},
                               !.replace = @ \/ r = Own]
       /\ deploys' = [deploys EXCEPT ![r] =
                         IF pass.forced \/ r \notin Flapping \/ @ = 2 THEN @ ELSE @ + 1]
       /\ UNCHANGED <<policy, head, others, budget, entry, pc, stopping, open>>
  BY DEF EngineDeploys
<1> USE DEF IInv
<1>1. /\ UNCHANGED <<policy, head, others, budget, status, error, unstable, pc, stopping, open>>
      /\ pass \in Passes /\ pass.rev \in Commits /\ r \in Declared(pass.rev) /\ r \in Releases
      /\ Declares[pass.rev][r] \in Manifests
  BY Assumed DEF entry, TypeOK, PlanInv, Declared
<1>2. /\ pass'.rev = pass.rev /\ pass'.deploy = pass.deploy \ {r} /\ pass'.want = pass.want
      /\ pass'.fix = pass.fix /\ pass'.orphans = pass.orphans /\ pass'.doomed = pass.doomed
      /\ pass'.elsewhere = pass.elsewhere /\ pass'.fixed = pass.fixed
      /\ pass'.settled = pass.settled /\ pass'.scopes = pass.scopes /\ pass'.await = pass.await
      /\ pass'.failed = pass.failed /\ pass'.landed = pass.landed \cup {r}
      /\ pass' \in Passes
  BY <1>1 DEF Passes
<1>3. /\ rec' \in [Releases -> Manifests \cup {None}] /\ rec'[r] = Declares[pass.rev][r]
      /\ \A q \in Releases \ {r} : rec'[q] = rec[q]
  BY <1>1 DEF TypeOK
<1>4. TypeOK'
  <2>1. phase' \in [Releases -> {"converged", "updating", "wedged"}]
    BY <1>1 DEF TypeOK, Write
  <2>2. run' \in [Releases -> {"gone", "asRecorded", "edited", "reverted", "deferred"}]
    BY <1>1 DEF TypeOK
  <2>3. deploys' \in [Releases -> 0..2]
    <3>1. deploys[r] \in 0..2 /\ (deploys[r] # 2 => deploys[r] + 1 \in 0..2)
      BY <1>1 DEF TypeOK
    <3> QED
      BY <3>1 DEF TypeOK
  <2>4. wide' \subseteq Releases
    BY <1>1 DEF TypeOK
  <2> QED
    BY <1>1, <1>2, <1>3, <2>1, <2>2, <2>3, <2>4 DEF TypeOK
<1>5. OpenInv' /\ SyncedIsDeployed'
  BY <1>1 DEF OpenInv, SyncedIsDeployed
<1>6. PlanInv'
  BY <1>1, <1>2 DEF PlanInv, Declared
<1>7. OrderInv'
  BY <1>1, <1>2 DEF OrderInv
<1>8. DeployedInv'
  BY <1>1, <1>2, <1>3 DEF DeployedInv, Missing, Declared
<1>9. WaveInv' /\ CorrectedInv'
  BY <1>1, <1>2 DEF WaveInv, CorrectedInv, OrderInv
<1>10. OrphanInv'
  BY <1>1, <1>2, <1>3 DEF OrphanInv, Orphaned, Declared
<1>11. DoomedInv'
  BY <1>1, <1>2, <1>3 DEF DoomedInv, Doomed, Declared
<1> QED
  BY <1>4, <1>5, <1>6, <1>7, <1>8, <1>9, <1>10, <1>11

LEMMA EngineEndsKeeps == ASSUME IInv, EngineEnds PROVE IInv'
<1> PICK w \in Lowest(Waves) : pass' = [pass EXCEPT !.wave = w]
  BY DEF EngineEnds
<1> USE DEF IInv
<1>1. /\ UNCHANGED <<policy, head, rec, run, phase, wide, others, budget, status, error, unstable,
                     stopping, open, deploys>>
      /\ pc = "apply" /\ pc' = "correct" /\ pass.deploy = {} /\ pass \in Passes
      /\ pass.rev \in Commits
  BY DEF EngineEnds, Settled, world, entry, TypeOK, PlanInv
<1>2. w \in Waves /\ \A v \in Waves : w <= v
  BY DEF Lowest
<1>3. /\ pass'.rev = pass.rev /\ pass'.deploy = pass.deploy /\ pass'.want = pass.want
      /\ pass'.fix = pass.fix /\ pass'.orphans = pass.orphans /\ pass'.wave = w
      /\ pass'.elsewhere = pass.elsewhere /\ pass'.fixed = pass.fixed
      /\ pass'.settled = pass.settled /\ pass'.scopes = pass.scopes /\ pass'.await = pass.await
      /\ pass'.failed = pass.failed /\ pass' \in Passes
  BY <1>1, <1>2 DEF Passes
<1>4. TypeOK'
  BY <1>1, <1>3 DEF TypeOK
<1>5. OpenInv' /\ SyncedIsDeployed'
  BY <1>1 DEF OpenInv, SyncedIsDeployed
<1>6. PlanInv' /\ OrderInv'
  BY <1>1, <1>3 DEF PlanInv, OrderInv, Declared
<1>7. DeployedInv'
  BY <1>1, <1>3 DEF DeployedInv, Missing, Declared
<1>8. WaveInv'
  <2>1. \A r \in pass.fix : r \in Releases /\ Wave[r] \in Waves
    BY <1>1 DEF Passes, Waves
  <2> QED
    BY <1>1, <1>2, <1>3, <2>1 DEF WaveInv, OrderInv
<1>9. CorrectedInv'
  BY <1>1, <1>3 DEF CorrectedInv, OrderInv
<1>10. OrphanInv'
  BY <1>1, <1>3 DEF OrphanInv, Orphaned, Declared
<1>11. DoomedInv'
  BY <1>1 DEF DoomedInv
<1> QED
  BY <1>4, <1>5, <1>6, <1>7, <1>8, <1>9, <1>10, <1>11

\* What the correction does to the pass touches neither its plan nor the records.
LEMMA CorrectionKeeps ==
    ASSUME IInv, pc = "correct",
           UNCHANGED <<policy, head, rec, others, entry, pc, stopping, open, deploys>>,
           run' \in [Releases -> {"gone", "asRecorded", "edited", "reverted", "deferred"}],
           phase' \in [Releases -> {"converged", "updating", "wedged"}],
           wide' \subseteq Releases, budget' \in Budgets, pass' \in Passes,
           pass'.rev = pass.rev, pass'.deploy = pass.deploy, pass'.want = pass.want,
           pass'.orphans = pass.orphans, pass'.elsewhere = pass.elsewhere,
           pass'.fix \cup pass'.fixed \subseteq pass.want,
           pass'.await # None => pass'.await \in pass'.fixed,
           pass'.scopes \subseteq pass'.fixed,
           WaveInv', CorrectedInv'
    PROVE  IInv'
<1> USE DEF IInv
<1>1. TypeOK'
  BY DEF TypeOK, entry, Budgets
<1>2. OpenInv' /\ SyncedIsDeployed'
  BY DEF OpenInv, SyncedIsDeployed, entry
<1>3. PlanInv'
  BY DEF PlanInv, Declared
<1>4. OrderInv' /\ DoomedInv'
  BY DEF OrderInv, DoomedInv
<1>5. DeployedInv'
  BY DEF DeployedInv, Missing, Declared
<1>6. OrphanInv'
  BY DEF OrphanInv, Orphaned, Declared
<1> QED
  BY <1>1, <1>2, <1>3, <1>4, <1>5, <1>6

LEMMA CorrectKeeps == ASSUME IInv, Correct PROVE IInv'
<1> PICK r \in InWave(pass.fix) :
       /\ pc = "correct" /\ pass.await = None
       /\ run' = [run EXCEPT ![r] = IF r = Own THEN @ ELSE "asRecorded"]
       /\ wide' = IF rec[r] \in Wide THEN wide \cup {r} ELSE wide
       /\ Write(r)
       /\ pass' = [pass EXCEPT
                     !.fix = @ \ {r}, !.fixed = @ \cup {r}, !.replace = @ \/ r = Own,
                     !.settled = IF r = Own THEN @ \cup {r} ELSE @ \ {r},
                     !.await = IF policy.wait THEN r ELSE None,
                     !.scopes = IF policy.wait THEN @ ELSE @ \cup {r}]
       /\ UNCHANGED <<policy, head, rec, others, budget, entry, pc, stopping, open, deploys>>
  BY DEF Correct
<1> USE DEF IInv
<1>1. /\ pass \in Passes /\ r \in pass.fix /\ r \in Releases /\ Wave[r] = pass.wave
      /\ r \in pass.want /\ r # None /\ pass.fixed \subseteq Releases
      /\ policy.wait \in BOOLEAN
  BY Assumed DEF TypeOK, PlanInv, Passes, InWave
<1>2. /\ pass'.rev = pass.rev /\ pass'.deploy = pass.deploy /\ pass'.want = pass.want
      /\ pass'.fix = pass.fix \ {r} /\ pass'.orphans = pass.orphans /\ pass'.wave = pass.wave
      /\ pass'.elsewhere = pass.elsewhere /\ pass'.fixed = pass.fixed \cup {r}
      /\ pass'.settled = (IF r = Own THEN pass.settled \cup {r} ELSE pass.settled \ {r})
      /\ pass'.scopes = (IF policy.wait THEN pass.scopes ELSE pass.scopes \cup {r})
      /\ pass'.await = (IF policy.wait THEN r ELSE None)
      /\ pass'.failed = pass.failed /\ pass' \in Passes
  <2> DEFINE s == IF r = Own THEN pass.settled \cup {r} ELSE pass.settled \ {r}
             w == IF policy.wait THEN pass.scopes ELSE pass.scopes \cup {r}
             a == IF policy.wait THEN r ELSE None
             b == pass.replace \/ r = Own
             x == pass.fix \ {r}
             y == pass.fixed \cup {r}
  <2>1. /\ s \in SUBSET Releases /\ w \in SUBSET Releases /\ a \in Releases \cup {None}
        /\ b \in BOOLEAN /\ x \in SUBSET Releases /\ y \in SUBSET Releases
    BY <1>1 DEF Passes
  <2>2. pass' = [pass EXCEPT !.fix = x, !.fixed = y, !.replace = b, !.settled = s, !.await = a,
                             !.scopes = w]
    OBVIOUS
  <2> HIDE DEF s, w, a, b, x, y
  <2>3. pass' \in Passes
    <3>1. pass \in Passes
      BY <1>1
    <3>2. [pass EXCEPT !.fix = x, !.fixed = y, !.replace = b, !.settled = s, !.await = a,
                       !.scopes = w] \in Passes
      BY ONLY <2>1, <3>1 DEF Passes
    <3> QED
      BY <2>2, <3>2
  <2>4. /\ pass'.rev = pass.rev /\ pass'.deploy = pass.deploy /\ pass'.want = pass.want
        /\ pass'.fix = x /\ pass'.orphans = pass.orphans /\ pass'.wave = pass.wave
        /\ pass'.elsewhere = pass.elsewhere /\ pass'.fixed = y /\ pass'.settled = s
        /\ pass'.scopes = w /\ pass'.await = a /\ pass'.failed = pass.failed
    BY <1>1, <2>2 DEF Passes
  <2> QED
    BY <2>3, <2>4 DEF s, w, a, x, y
<1>3. /\ phase' \in [Releases -> {"converged", "updating", "wedged"}]
      /\ \A q \in Releases \ {r} : phase'[q] = phase[q]
      /\ r # Own => phase'[r] = "updating"
  BY <1>1 DEF TypeOK, Write
<1>4. /\ run' \in [Releases -> {"gone", "asRecorded", "edited", "reverted", "deferred"}]
      /\ wide' \subseteq Releases /\ budget' \in Budgets
  BY <1>1 DEF TypeOK, Budgets
<1>5. /\ pass'.fix \cup pass'.fixed \subseteq pass.want
      /\ pass'.await # None => pass'.await \in pass'.fixed
      /\ pass'.scopes \subseteq pass'.fixed
  BY <1>1, <1>2 DEF PlanInv
<1>6. WaveInv'
  BY <1>1, <1>2 DEF WaveInv
<1>7. CorrectedInv'
  <2>1. \A q \in pass'.fixed : phase'[q] = "converged" => q \in pass'.settled
    BY <1>1, <1>2, <1>3 DEF CorrectedInv
  <2>2. ~pass'.failed => pass'.want \subseteq pass'.fix \cup pass'.fixed
    BY <1>2 DEF CorrectedInv
  <2>3. ~pass'.failed /\ policy.wait => pass'.fixed \subseteq pass'.settled \cup {pass'.await}
    BY <1>1, <1>2, Assumed DEF CorrectedInv
  <2> QED
    BY <2>1, <2>2, <2>3 DEF CorrectedInv
<1> QED
  BY <1>2, <1>3, <1>4, <1>5, <1>6, <1>7, CorrectionKeeps

LEMMA CorrectFailsKeeps == ASSUME IInv, CorrectFails PROVE IInv'
<1> PICK r \in InWave(pass.fix) :
       /\ pc = "correct" /\ pass.await = None /\ Fault
       /\ pass' = [pass EXCEPT !.fix = @ \ {r}, !.failed = TRUE]
       /\ UNCHANGED <<policy, world, entry, pc, stopping, open, deploys>>
  BY DEF CorrectFails
<1>1. budget' \in Budgets
  BY FaultStep DEF IInv
<1> USE DEF IInv
<1>2. pass \in Passes /\ UNCHANGED <<policy, head, rec, run, phase, wide, others>>
  BY DEF TypeOK, world
<1>3. /\ pass'.rev = pass.rev /\ pass'.deploy = pass.deploy /\ pass'.want = pass.want
      /\ pass'.fix = pass.fix \ {r} /\ pass'.orphans = pass.orphans /\ pass'.wave = pass.wave
      /\ pass'.elsewhere = pass.elsewhere /\ pass'.fixed = pass.fixed
      /\ pass'.settled = pass.settled /\ pass'.scopes = pass.scopes /\ pass'.await = pass.await
      /\ pass'.failed = TRUE /\ pass' \in Passes
  BY <1>2 DEF Passes
<1>4. WaveInv' /\ CorrectedInv'
  BY <1>2, <1>3 DEF WaveInv, CorrectedInv
<1>5. /\ run' \in [Releases -> {"gone", "asRecorded", "edited", "reverted", "deferred"}]
      /\ phase' \in [Releases -> {"converged", "updating", "wedged"}] /\ wide' \subseteq Releases
  BY <1>2 DEF TypeOK
<1>6. /\ pass'.fix \cup pass'.fixed \subseteq pass.want
      /\ pass'.await # None => pass'.await \in pass'.fixed
      /\ pass'.scopes \subseteq pass'.fixed
  BY <1>3 DEF PlanInv
<1> QED
  BY <1>1, <1>2, <1>3, <1>4, <1>5, <1>6, CorrectionKeeps

LEMMA AwaitedKeeps == ASSUME IInv, Awaited PROVE IInv'
<1> USE DEF IInv
<1>1. budget' \in Budgets
  BY FaultStep DEF Awaited, Settled, NotSettled, TypeOK, Budgets
<1>2. /\ pass \in Passes /\ pc = "correct" /\ pass.await # None /\ pass.await \in pass.fixed
      /\ UNCHANGED <<policy, head, rec, run, phase, wide, others, entry, pc, stopping, open, deploys>>
  BY DEF Awaited, TypeOK, world, PlanInv
<1>3. /\ run' \in [Releases -> {"gone", "asRecorded", "edited", "reverted", "deferred"}]
      /\ phase' \in [Releases -> {"converged", "updating", "wedged"}] /\ wide' \subseteq Releases
  BY <1>2 DEF TypeOK
<1>4. CASE /\ Settled({pass.await})
           /\ pass' = [pass EXCEPT !.scopes = @ \cup {pass.await}, !.await = None]
  <2>1. /\ pass'.rev = pass.rev /\ pass'.deploy = pass.deploy /\ pass'.want = pass.want
        /\ pass'.fix = pass.fix /\ pass'.orphans = pass.orphans /\ pass'.wave = pass.wave
        /\ pass'.elsewhere = pass.elsewhere /\ pass'.fixed = pass.fixed
        /\ pass'.settled = pass.settled /\ pass'.scopes = pass.scopes \cup {pass.await}
        /\ pass'.await = None /\ pass'.failed = pass.failed /\ pass' \in Passes
    BY <1>2, <1>4 DEF Passes
  <2>2. phase[pass.await] = "converged" /\ pass.await \in pass.settled
    BY <1>2, <1>4 DEF Settled, CorrectedInv
  <2>3. CorrectedInv'
    BY <1>2, <2>1, <2>2 DEF CorrectedInv
  <2>4. WaveInv'
    BY <1>2, <2>1, <2>2 DEF WaveInv
  <2>5. /\ pass'.fix \cup pass'.fixed \subseteq pass.want
        /\ pass'.scopes \subseteq pass'.fixed
    BY <1>2, <2>1 DEF PlanInv
  <2> QED
    BY <1>1, <1>2, <1>3, <2>1, <2>3, <2>4, <2>5, CorrectionKeeps
<1>5. CASE /\ NotSettled({pass.await})
           /\ pass' = [pass EXCEPT !.failed = TRUE, !.await = None]
  <2>1. /\ pass'.rev = pass.rev /\ pass'.deploy = pass.deploy /\ pass'.want = pass.want
        /\ pass'.fix = pass.fix /\ pass'.orphans = pass.orphans /\ pass'.wave = pass.wave
        /\ pass'.elsewhere = pass.elsewhere /\ pass'.fixed = pass.fixed
        /\ pass'.settled = pass.settled /\ pass'.scopes = pass.scopes
        /\ pass'.await = None /\ pass'.failed = TRUE /\ pass' \in Passes
    BY <1>2, <1>5 DEF Passes
  <2>2. WaveInv' /\ CorrectedInv'
    BY <1>2, <2>1 DEF WaveInv, CorrectedInv
  <2>3. /\ pass'.fix \cup pass'.fixed \subseteq pass.want
        /\ pass'.scopes \subseteq pass'.fixed
    BY <1>2, <2>1 DEF PlanInv
  <2> QED
    BY <1>1, <1>2, <1>3, <2>1, <2>2, <2>3, CorrectionKeeps
<1> QED
  BY <1>4, <1>5 DEF Awaited

\* A wave ends with everything it wrote converged: the next one starts.
LEMMA NextWaveKeeps ==
    ASSUME IInv, WaveWritten, NextWave, budget' \in Budgets,
           \A r \in pass.scopes : phase[r] = "converged",
           UNCHANGED <<policy, world, entry, pc, stopping, open, deploys>>
    PROVE  IInv'
<1> USE DEF IInv
<1>1. /\ pass \in Passes /\ pc = "correct" /\ pass.await = None /\ InWave(pass.fix) = {}
      /\ pass.rev \in Commits /\ pass.fix \subseteq Declared(pass.rev) /\ pass.fix \subseteq Releases
      /\ UNCHANGED <<policy, head, rec, run, phase, wide, others>>
  BY DEF WaveWritten, TypeOK, Passes, PlanInv, world
<1>2. PICK w \in Lowest(LaterWaves) : pass' = [pass EXCEPT !.wave = w, !.scopes = {}]
  BY DEF NextWave
<1>3. w \in Waves /\ \A v \in LaterWaves : w <= v
  BY DEF Lowest, LaterWaves
<1>4. /\ pass'.rev = pass.rev /\ pass'.deploy = pass.deploy /\ pass'.want = pass.want
      /\ pass'.fix = pass.fix /\ pass'.orphans = pass.orphans /\ pass'.wave = w
      /\ pass'.elsewhere = pass.elsewhere /\ pass'.fixed = pass.fixed
      /\ pass'.settled = pass.settled /\ pass'.scopes = {} /\ pass'.await = None
      /\ pass'.failed = pass.failed /\ pass' \in Passes
  BY <1>1, <1>2, <1>3 DEF Passes
<1>5. \A r \in pass.fix : w <= Wave[r]
  <2> SUFFICES ASSUME NEW r \in pass.fix PROVE w <= Wave[r]
    OBVIOUS
  <2>1. pass.wave <= Wave[r] /\ Wave[r] # pass.wave
    BY <1>1 DEF WaveInv, InWave
  <2>2. Wave[r] \in Waves /\ Wave[r] \in Nat /\ pass.wave \in Nat
    BY <1>1, Assumed DEF Waves, Passes
  <2>3. Wave[r] > pass.wave
    BY <2>1, <2>2
  <2>4. Wave[r] \in LaterWaves
    BY <1>1, <2>2, <2>3 DEF LaterWaves
  <2> QED
    BY <1>3, <2>4
<1>6. pass.scopes \subseteq pass.settled
  BY <1>1 DEF CorrectedInv, PlanInv
<1>7. WaveInv'
  BY <1>1, <1>4, <1>5, <1>6 DEF WaveInv
<1>8. CorrectedInv'
  BY <1>1, <1>4 DEF CorrectedInv
<1>9. /\ run' \in [Releases -> {"gone", "asRecorded", "edited", "reverted", "deferred"}]
      /\ phase' \in [Releases -> {"converged", "updating", "wedged"}] /\ wide' \subseteq Releases
  BY <1>1 DEF TypeOK
<1>10. /\ pass'.fix \cup pass'.fixed \subseteq pass.want
       /\ pass'.scopes \subseteq pass'.fixed
  BY <1>1, <1>4 DEF PlanInv
<1> QED
  BY <1>1, <1>4, <1>7, <1>8, <1>9, <1>10, CorrectionKeeps

LEMMA WaveSkippedKeeps == ASSUME IInv, WaveSkipped PROVE IInv'
<1>1. /\ WaveWritten /\ NextWave /\ pass.scopes = {}
      /\ UNCHANGED <<policy, world, entry, pc, stopping, open, deploys>>
  BY DEF WaveSkipped
<1>2. budget' \in Budgets
  BY DEF WaveSkipped, IInv, TypeOK, Budgets
<1> QED
  BY <1>1, <1>2, NextWaveKeeps

LEMMA BarrierKeeps == ASSUME IInv, Barrier PROVE IInv'
<1>1. budget' \in Budgets
  BY FaultStep DEF Barrier, Settled, NotSettled, IInv, TypeOK, Budgets
<1>2. WaveWritten /\ UNCHANGED <<policy, world, entry, pc, stopping, open, deploys>>
  BY DEF Barrier
<1>3. CASE Settled(pass.scopes) /\ NextWave
  BY <1>1, <1>2, <1>3, NextWaveKeeps DEF Settled
<1>4. CASE \E w \in Waves :
             pass' = [pass EXCEPT !.fix = {}, !.scopes = {}, !.failed = TRUE, !.wave = w]
  <2> USE DEF IInv
  <2>1. PICK w \in Waves :
           pass' = [pass EXCEPT !.fix = {}, !.scopes = {}, !.failed = TRUE, !.wave = w]
    BY <1>4
  <2>2. /\ pass \in Passes /\ pc = "correct" /\ pass.await = None
        /\ UNCHANGED <<policy, head, rec, run, phase, wide, others>>
    BY <1>2 DEF WaveWritten, TypeOK, world
  <2>3. /\ pass'.rev = pass.rev /\ pass'.deploy = pass.deploy /\ pass'.want = pass.want
        /\ pass'.fix = {} /\ pass'.orphans = pass.orphans /\ pass'.wave = w
        /\ pass'.elsewhere = pass.elsewhere /\ pass'.fixed = pass.fixed
        /\ pass'.settled = pass.settled /\ pass'.scopes = {} /\ pass'.await = None
        /\ pass'.failed = TRUE /\ pass' \in Passes
    BY <2>1, <2>2 DEF Passes
  <2>4. WaveInv' /\ CorrectedInv'
    BY <1>2, <2>2, <2>3 DEF WaveInv, CorrectedInv
  <2>5. /\ run' \in [Releases -> {"gone", "asRecorded", "edited", "reverted", "deferred"}]
        /\ phase' \in [Releases -> {"converged", "updating", "wedged"}] /\ wide' \subseteq Releases
    BY <2>2 DEF TypeOK
  <2>6. /\ pass'.fix \cup pass'.fixed \subseteq pass.want
        /\ pass'.scopes \subseteq pass'.fixed
    BY <2>2, <2>3 DEF PlanInv
  <2> QED
    BY <1>1, <1>2, <2>2, <2>3, <2>4, <2>5, <2>6, CorrectionKeeps
<1> QED
  BY <1>3, <1>4 DEF Barrier

\* When the last wave has been written and nothing failed, what the plan could
\* correct is written, and has settled if the policy waits.
LEMMA AllCorrected ==
    ASSUME IInv, WaveWritten, LaterWaves = {}, ~pass.failed
    PROVE  pass.want \subseteq IF policy.wait THEN pass.settled ELSE pass.fixed
<1> USE DEF IInv
<1>1. /\ pass \in Passes /\ pc = "correct" /\ pass.await = None /\ InWave(pass.fix) = {}
      /\ pass.rev \in Commits /\ pass.fix \subseteq Declared(pass.rev) /\ pass.fix \subseteq Releases
      /\ pass.fixed \subseteq Releases /\ policy.wait \in BOOLEAN
  BY Assumed DEF WaveWritten, TypeOK, Passes, PlanInv
<1>2. pass.fix = {}
  <2> SUFFICES ASSUME NEW r \in pass.fix PROVE FALSE
    OBVIOUS
  <2>1. pass.wave <= Wave[r] /\ Wave[r] # pass.wave
    BY <1>1 DEF WaveInv, InWave
  <2>2. Wave[r] \in Waves /\ Wave[r] \in Nat /\ pass.wave \in Nat
    BY <1>1, Assumed DEF Waves, Passes
  <2>3. Wave[r] > pass.wave
    BY <2>1, <2>2
  <2> QED
    BY <1>1, <2>2, <2>3 DEF LaterWaves
<1>3. pass.want \subseteq pass.fixed /\ (policy.wait => pass.fixed \subseteq pass.settled)
  BY <1>1, <1>2, Assumed DEF CorrectedInv
<1> QED
  BY <1>1, <1>3

LEMMA ApplyEndsKeeps == ASSUME IInv, ApplyEnds PROVE IInv'
<1> USE DEF IInv
<1>1. /\ WaveWritten /\ pc = "correct" /\ LaterWaves = {} /\ open' = 0 /\ pass \in Passes
      /\ UNCHANGED <<policy, head, rec, run, phase, wide, others, budget, unstable, stopping,
                     deploys>>
  BY DEF ApplyEnds, WaveWritten, world, OpenInv, TypeOK
<1>2. CASE pass.failed
  <2>1. status' = [status EXCEPT !.last = "failed"] /\ Return(TRUE)
    BY <1>2 DEF ApplyEnds
  <2>2. status' \in Statuses /\ status'.sync = status.sync /\ status'.rev = status.rev
    BY <2>1, LastType
  <2> QED
    BY <1>1, <2>1, <2>2, ReturnKeeps DEF Return, TypeOK, Budgets
<1>3. CASE ~pass.failed
  <2>1. /\ pc' = (IF policy.pruneFirst THEN "confirm" ELSE "sweep")
        /\ pass' = [pass EXCEPT !.elsewhere = others] /\ UNCHANGED <<status, error>>
    BY <1>3 DEF ApplyEnds, Elsewhere
  <2>2. /\ pass'.rev = pass.rev /\ pass'.deploy = pass.deploy /\ pass'.want = pass.want
        /\ pass'.fix = pass.fix /\ pass'.orphans = pass.orphans /\ pass'.wave = pass.wave
        /\ pass'.elsewhere = others /\ pass'.fixed = pass.fixed
        /\ pass'.settled = pass.settled /\ pass'.scopes = pass.scopes /\ pass'.await = pass.await
        /\ pass'.failed = FALSE /\ pass' \in Passes
    BY <1>1, <1>3, <2>1 DEF Passes, TypeOK
  <2>3. /\ pc' \in {"confirm", "sweep"} /\ (pc' = "confirm" <=> policy.pruneFirst)
        /\ policy.pruneFirst \in BOOLEAN
    BY <2>1, Assumed DEF TypeOK
  <2>4. TypeOK'
    BY <1>1, <2>1, <2>2, <2>3 DEF TypeOK
  <2>5. OpenInv' /\ SyncedIsDeployed'
    BY <1>1, <2>1, <2>3 DEF OpenInv, SyncedIsDeployed
  <2>6. PlanInv'
    BY <1>1, <2>2, <2>3 DEF PlanInv, Declared
  <2>7. OrderInv' /\ WaveInv' /\ DoomedInv'
    BY <1>1, <2>2, <2>3 DEF OrderInv, WaveInv, DoomedInv
  <2>8. DeployedInv'
    BY <1>1, <2>2, <2>3 DEF DeployedInv, Missing, Declared
  <2>9. CorrectedInv'
    BY <1>1, <1>3, <2>2, <2>3, AllCorrected DEF CorrectedInv
  <2>10. OrphanInv'
    BY <1>1, <1>3, <2>2, <2>3 DEF OrphanInv, PlanInv, Orphaned, Declared
  <2> QED
    BY <2>4, <2>5, <2>6, <2>7, <2>8, <2>9, <2>10
<1> QED
  BY <1>2, <1>3

-----------------------------------------------------------------------------
(* The sweeps, the confirmation, and what goes on around the pass *)

LEMMA PruneReleaseKeeps == ASSUME IInv, PruneRelease PROVE IInv'
<1> PICK r \in pass.orphans :
       /\ Sweeping
       /\ pass' = [pass EXCEPT !.orphans = @ \ {r}]
       /\ IF r \in pass.elsewhere
          THEN UNCHANGED world
          ELSE /\ rec' = [rec EXCEPT ![r] = None]
               /\ run' = [run EXCEPT ![r] = "gone"]
               /\ phase' = [phase EXCEPT ![r] = "converged"]
               /\ wide' = wide \ {r}
               /\ UNCHANGED <<head, others>>
       /\ UNCHANGED <<policy, budget, entry, pc, stopping, open, deploys>>
  BY DEF PruneRelease
<1> USE DEF IInv
<1>1. /\ pc \in {"sweepFirst", "sweep"} /\ pass \in Passes /\ pass.rev \in Commits
      /\ r \in Releases /\ r \notin Declared(pass.rev) /\ Declared(pass.rev) \subseteq Releases
      /\ UNCHANGED <<policy, head, others, budget, status, error, unstable, pc, stopping, open,
                     deploys>>
  BY DEF Sweeping, TypeOK, Passes, PlanInv, entry, world, Declared
<1>2. /\ pass'.orphans = pass.orphans \ {r} /\ pass'.doomed = pass.doomed
      /\ pass'.rev = pass.rev /\ pass'.deploy = pass.deploy /\ pass'.want = pass.want
      /\ pass'.fix = pass.fix /\ pass'.wave = pass.wave
      /\ pass'.elsewhere = pass.elsewhere /\ pass'.fixed = pass.fixed
      /\ pass'.settled = pass.settled /\ pass'.scopes = pass.scopes /\ pass'.await = pass.await
      /\ pass'.landed = pass.landed
      /\ pass'.failed = pass.failed /\ pass' \in Passes
  BY <1>1 DEF Passes
<1>3. /\ rec' \in [Releases -> Manifests \cup {None}]
      /\ r \notin pass.elsewhere => rec'[r] = None
      /\ \A q \in Releases \ {r} : rec'[q] = rec[q] /\ phase'[q] = phase[q]
      /\ wide' \subseteq wide /\ (r \in pass.elsewhere => rec' = rec)
  BY <1>1 DEF TypeOK, world
<1>4. TypeOK'
  <2>1. /\ run' \in [Releases -> {"gone", "asRecorded", "edited", "reverted", "deferred"}]
        /\ phase' \in [Releases -> {"converged", "updating", "wedged"}] /\ wide' \subseteq Releases
    BY <1>1 DEF TypeOK, world
  <2> QED
    BY <1>1, <1>2, <1>3, <2>1 DEF TypeOK
<1>5. OpenInv' /\ SyncedIsDeployed'
  BY <1>1 DEF OpenInv, SyncedIsDeployed
<1>6. PlanInv' /\ OrderInv'
  BY <1>1, <1>2 DEF PlanInv, OrderInv, Declared
<1>7. DeployedInv'
  BY <1>1, <1>2, <1>3 DEF DeployedInv, Missing, Declared
<1>8. WaveInv'
  BY <1>1 DEF WaveInv
<1>9. CorrectedInv'
  <2>1. \A q \in pass.fixed : q \in Releases \ {r}
    BY <1>1 DEF PlanInv
  <2> QED
    BY <1>1, <1>2, <1>3, <2>1 DEF CorrectedInv
<1>10. OrphanInv'
  BY <1>1, <1>2, <1>3 DEF OrphanInv, Orphaned, Declared
<1>11. DoomedInv'
  BY <1>1, <1>2, <1>3 DEF DoomedInv, Doomed, Declared
<1> QED
  BY <1>4, <1>5, <1>6, <1>7, <1>8, <1>9, <1>10, <1>11

LEMMA PruneServiceKeeps == ASSUME IInv, PruneService PROVE IInv'
<1> PICK r \in pass.doomed :
       /\ Sweeping /\ pass.orphans = {}
       /\ pass' = [pass EXCEPT !.doomed = @ \ {r}]
       /\ wide' = IF r \in pass.elsewhere THEN wide ELSE wide \ {r}
       /\ UNCHANGED <<policy, head, rec, run, phase, others, budget, entry, pc,
                      stopping, open, deploys>>
  BY DEF PruneService
<1> USE DEF IInv
<1>1. /\ pc \in {"sweepFirst", "sweep"} /\ pass \in Passes /\ r \in Releases
      /\ UNCHANGED <<status, error, unstable>>
  BY DEF Sweeping, TypeOK, Passes, entry
<1>2. /\ pass'.orphans = pass.orphans /\ pass'.doomed = pass.doomed \ {r}
      /\ pass'.rev = pass.rev /\ pass'.deploy = pass.deploy /\ pass'.want = pass.want
      /\ pass'.fix = pass.fix /\ pass'.wave = pass.wave
      /\ pass'.elsewhere = pass.elsewhere /\ pass'.fixed = pass.fixed
      /\ pass'.settled = pass.settled /\ pass'.scopes = pass.scopes /\ pass'.await = pass.await
      /\ pass'.landed = pass.landed
      /\ pass'.failed = pass.failed /\ pass' \in Passes
  BY <1>1 DEF Passes
<1>3. wide' \subseteq wide /\ (r \notin pass.elsewhere => r \notin wide')
  OBVIOUS
<1>4. TypeOK'
  BY <1>1, <1>2, <1>3 DEF TypeOK
<1>5. OpenInv' /\ SyncedIsDeployed'
  BY <1>1 DEF OpenInv, SyncedIsDeployed
<1>6. PlanInv' /\ OrderInv'
  BY <1>1, <1>2 DEF PlanInv, OrderInv, Declared
<1>7. DeployedInv' /\ WaveInv'
  BY <1>1, <1>2 DEF DeployedInv, Missing, Declared, WaveInv
<1>8. CorrectedInv'
  BY <1>1, <1>2 DEF CorrectedInv
<1>9. OrphanInv'
  BY <1>1, <1>2 DEF OrphanInv, Orphaned, Declared
<1>10. DoomedInv'
  BY <1>1, <1>2, <1>3 DEF DoomedInv, Doomed, Declared
<1> QED
  BY <1>4, <1>5, <1>6, <1>7, <1>8, <1>9, <1>10

LEMMA PruneFailsKeeps == ASSUME IInv, PruneFails PROVE IInv'
<1> PICK r \in pass.orphans \cup pass.doomed :
       /\ Sweeping /\ Fault
       /\ pass' = [pass EXCEPT !.failed = TRUE, !.orphans = @ \ {r},
                     !.doomed = IF r \in pass.orphans THEN @ ELSE @ \ {r}]
       /\ UNCHANGED <<policy, world, entry, pc, stopping, open, deploys>>
  BY DEF PruneFails
<1>1. budget' \in Budgets
  BY FaultStep DEF IInv
<1> USE DEF IInv
<1>2. /\ pc \in {"sweepFirst", "sweep"} /\ pass \in Passes
      /\ UNCHANGED <<policy, head, rec, run, phase, wide, others, status, error, unstable>>
  BY DEF Sweeping, TypeOK, entry, world
<1>3. /\ pass'.orphans = pass.orphans \ {r}
      /\ pass'.rev = pass.rev /\ pass'.deploy = pass.deploy /\ pass'.want = pass.want
      /\ pass'.fix = pass.fix /\ pass'.wave = pass.wave
      /\ pass'.elsewhere = pass.elsewhere /\ pass'.fixed = pass.fixed
      /\ pass'.settled = pass.settled /\ pass'.scopes = pass.scopes /\ pass'.await = pass.await
      /\ pass'.landed = pass.landed
      /\ pass'.failed = TRUE /\ pass' \in Passes
  BY <1>2 DEF Passes
<1>4. TypeOK'
  BY <1>1, <1>2, <1>3 DEF TypeOK, Budgets
<1>5. OpenInv' /\ SyncedIsDeployed'
  BY <1>2 DEF OpenInv, SyncedIsDeployed
<1>6. PlanInv' /\ OrderInv'
  BY <1>2, <1>3 DEF PlanInv, OrderInv, Declared
<1>7. DeployedInv' /\ WaveInv'
  BY <1>2, <1>3 DEF DeployedInv, Missing, Declared, WaveInv
<1>8. CorrectedInv'
  BY <1>2, <1>3 DEF CorrectedInv
<1>9. OrphanInv' /\ DoomedInv'
  BY <1>2, <1>3 DEF OrphanInv, DoomedInv
<1> QED
  BY <1>4, <1>5, <1>6, <1>7, <1>8, <1>9

LEMMA SweepEndsKeeps == ASSUME IInv, SweepEnds PROVE IInv'
<1> USE DEF IInv
<1>1. /\ pc \in {"sweepFirst", "sweep"} /\ pass.orphans = {} /\ pass.doomed = {}
      /\ pass \in Passes /\ open \in {0, 1} /\ (pc = "sweepFirst" => open = 1)
      /\ (pc = "sweep" => open = 0)
      /\ UNCHANGED <<policy, head, rec, run, phase, wide, others, budget, unstable, stopping,
                     deploys>>
  BY DEF SweepEnds, Sweeping, world, OpenInv, TypeOK
<1>2. CASE pass.failed
  <2>0. Return(TRUE)
    BY <1>2 DEF SweepEnds
  <2>1. open' = 0
    <3>1. CASE pc = "sweepFirst"
      <4>1. open' = open - 1
        BY <1>2, <3>1 DEF SweepEnds, Outcome
      <4> QED
        BY <1>1, <3>1, <4>1
    <3>2. CASE pc # "sweepFirst"
      BY <1>1, <1>2, <3>2 DEF SweepEnds
    <3> QED
      BY <3>1, <3>2
  <2>2. \E last \in {"none", "ok", "failed"} : status' = [status EXCEPT !.last = last]
    <3>1. CASE pc = "sweepFirst"
      <4>1. status' = [status EXCEPT !.last = "failed"]
        BY <1>2, <3>1 DEF SweepEnds, Outcome
      <4> QED
        BY <4>1
    <3>2. CASE pc # "sweepFirst"
      <4>1. status' = [status EXCEPT !.last = "ok"]
        BY <1>2, <3>2 DEF SweepEnds
      <4> QED
        BY <4>1
    <3> QED
      BY <3>1, <3>2
  <2>3. status' \in Statuses /\ status'.sync = status.sync /\ status'.rev = status.rev
    BY <2>2, LastType
  <2> QED
    BY <1>1, <2>0, <2>1, <2>3, ReturnKeeps DEF Return, TypeOK, Budgets
<1>3. CASE ~pass.failed
  <2>1. /\ pc' = (IF pc = "sweepFirst" THEN "apply" ELSE "confirm")
        /\ UNCHANGED <<pass, status, error, open>>
    BY <1>3 DEF SweepEnds
  <2>2. /\ (pc = "sweepFirst" /\ pc' = "apply") \/ (pc = "sweep" /\ pc' = "confirm")
    BY <1>1, <2>1
  <2>3. TypeOK'
    BY <1>1, <2>1, <2>2 DEF TypeOK
  <2>4. OpenInv' /\ SyncedIsDeployed'
    BY <1>1, <2>1, <2>2 DEF OpenInv, SyncedIsDeployed
  <2>5. PlanInv' /\ OrderInv' /\ WaveInv'
    BY <1>1, <1>3, <2>1, <2>2 DEF PlanInv, OrderInv, WaveInv, Declared
  <2>6. DeployedInv' /\ CorrectedInv'
    BY <1>1, <2>1, <2>2 DEF DeployedInv, Missing, Declared, CorrectedInv
  <2>7. OrphanInv'
    BY <1>1, <1>3, <2>1, <2>2 DEF OrphanInv, OrderInv, Orphaned, Declared
  <2>8. DoomedInv'
    BY <1>1, <1>3, <2>1, <2>2 DEF DoomedInv, Doomed, Declared
  <2> QED
    BY <2>3, <2>4, <2>5, <2>6, <2>7, <2>8
<1> QED
  BY <1>2, <1>3

LEMMA ConfirmKeeps == ASSUME IInv, Confirm PROVE IInv'
<1> PICK again \in SUBSET Flapping :
       /\ pc = "confirm"
       /\ status' = Published(pass.rev, again, "ok")
       /\ unstable' = IF ToDeploy(pass.rev, again) = {} THEN 0 ELSE pass.rev
       /\ deploys' = [r \in Releases |->
                         IF r \in ToDeploy(pass.rev, again) THEN deploys[r] ELSE 0]
       /\ IF pass.replace THEN pc' = "self" /\ UNCHANGED <<pass, error>> ELSE Return(FALSE)
       /\ UNCHANGED <<policy, world, budget, stopping, open>>
  BY DEF Confirm
<1> USE DEF IInv
<1>1. /\ pass \in Passes /\ pass.rev \in Commits /\ open = 0 /\ ~pass.failed
      /\ UNCHANGED <<policy, head, rec, run, phase, wide, others, budget, stopping, open>>
  BY DEF TypeOK, PlanInv, OpenInv, OrderInv, world
<1>2. /\ status' \in Statuses /\ status'.rev = pass.rev /\ status'.last = "ok"
      /\ status'.sync = "synced" => ToDeploy(pass.rev, again) = {}
  BY <1>1, PublishedType
<1>3. SyncedIsDeployed'
  BY <1>1, <1>2 DEF SyncedIsDeployed, ToDeploy, Declared
<1>4. deploys' \in [Releases -> 0..2]
  BY DEF TypeOK
<1>5. CASE pass.replace
  <2>1. pc' = "self" /\ UNCHANGED <<pass, error>>
    BY <1>5
  <2>2. TypeOK'
    <3>1. unstable' \in Commits \cup {0}
      BY <1>1
    <3> QED
      BY <1>1, <1>2, <1>4, <2>1, <3>1 DEF TypeOK, Statuses
  <2>3. OpenInv' /\ PlanInv' /\ OrderInv'
    BY <1>1, <1>2, <2>1 DEF OpenInv, PlanInv, OrderInv, Declared
  <2>4. DeployedInv' /\ WaveInv' /\ CorrectedInv'
    BY <1>1, <2>1 DEF DeployedInv, Missing, Declared, WaveInv, CorrectedInv
  <2>5. OrphanInv' /\ DoomedInv'
    BY <1>1, <2>1 DEF OrphanInv, Orphaned, Declared, DoomedInv
  <2> QED
    BY <1>3, <2>2, <2>3, <2>4, <2>5
<1>6. CASE ~pass.replace
  <2>1. pc' = "idle" /\ pass' = NoPass /\ error' \in BOOLEAN
    BY <1>6 DEF Return, TypeOK
  <2>2. TypeOK'
    <3>1. unstable' \in Commits \cup {0}
      BY <1>1
    <3> QED
      BY <1>1, <1>2, <1>4, <2>1, <3>1, NoPassType DEF TypeOK, Statuses
  <2> QED
    BY <1>1, <1>2, <1>3, <2>1, <2>2, RestKeeps
<1> QED
  BY <1>5, <1>6

\* Around the pass: no rollout converges, and nothing the pass knows changes.
LEMMA AroundKeeps ==
    ASSUME IInv, TypeOK', UNCHANGED <<policy, rec, wide, status, pc, pass, open>>,
           others \subseteq others', stopping => stopping',
           \A r \in Releases : phase'[r] = "converged" => phase[r] = "converged"
    PROVE  IInv'
<1> USE DEF IInv
<1>1. OpenInv' /\ SyncedIsDeployed'
  BY DEF OpenInv, SyncedIsDeployed
<1>2. PlanInv' /\ OrderInv' /\ WaveInv'
  BY DEF PlanInv, OrderInv, WaveInv, Declared
<1>3. CorrectedInv'
  BY DEF CorrectedInv, TypeOK, Passes
<1>4. DeployedInv' /\ OrphanInv' /\ DoomedInv'
  BY DEF DeployedInv, Missing, Declared, OrphanInv, Orphaned, DoomedInv, Doomed
<1> QED
  BY <1>1, <1>2, <1>3, <1>4

LEMMA StopKeeps == ASSUME IInv, Stop PROVE IInv'
<1>1. budget' \in Budgets
  BY FaultStep DEF IInv, Stop
<1>2. UNCHANGED <<policy, world, entry, pc, pass, open, deploys>> /\ stopping'
  BY DEF Stop
<1>3. TypeOK'
  BY <1>1 DEF Stop, IInv, TypeOK, world, entry, Budgets
<1> QED
  BY <1>2, <1>3, AroundKeeps DEF world, entry

LEMMA PushKeeps == ASSUME IInv, Push PROVE IInv'
<1>1. TypeOK'
  <2>1. deploys' \in [Releases -> 0..2] /\ head' \in Commits
    BY DEF Push
  <2> QED
    BY <2>1 DEF Push, IInv, TypeOK, entry
<1> QED
  BY <1>1, AroundKeeps DEF Push, entry

LEMMA DisturbKeeps == ASSUME IInv, Disturb PROVE IInv'
<1> PICK r \in Releases \ {Own} :
       /\ Edit
       /\ \/ /\ run[r] = "asRecorded"
             /\ run' = [run EXCEPT ![r] = "edited"] /\ UNCHANGED phase
          \/ /\ phase[r] = "updating"
             /\ phase' = [phase EXCEPT ![r] = "wedged"]
             /\ run' \in {run, [run EXCEPT ![r] = "reverted"]}
       /\ UNCHANGED <<policy, head, rec, wide, others, entry, pc, pass, stopping, open, deploys>>
  BY DEF Disturb
<1>1. budget' \in Budgets
  BY EditStep DEF IInv
<1>2. /\ run' \in [Releases -> {"gone", "asRecorded", "edited", "reverted", "deferred"}]
      /\ phase' \in [Releases -> {"converged", "updating", "wedged"}]
      /\ \A q \in Releases : phase'[q] = "converged" => phase[q] = "converged"
  BY DEF IInv, TypeOK
<1>3. TypeOK'
  BY <1>1, <1>2 DEF IInv, TypeOK, entry, Budgets
<1> QED
  BY <1>2, <1>3, AroundKeeps DEF entry

LEMMA OtherDeclaresKeeps == ASSUME IInv, OtherDeclares PROVE IInv'
<1> PICK r \in Releases \ Declared(head) :
       /\ Edit /\ others' = others \cup {r}
       /\ UNCHANGED <<policy, head, rec, run, phase, wide, entry, pc, pass, stopping, open, deploys>>
  BY DEF OtherDeclares
<1>1. budget' \in Budgets
  BY EditStep DEF IInv
<1>2. TypeOK'
  BY <1>1 DEF IInv, TypeOK, entry, Budgets
<1> QED
  BY <1>2, AroundKeeps DEF entry

LEMMA SettleKeeps == ASSUME IInv, NEW r \in Releases, Settle(r) PROVE IInv'
<1> USE DEF IInv
<1>1. /\ pass \in Passes
      /\ UNCHANGED <<policy, head, rec, run, wide, others, budget, status, error, unstable, pc,
                     stopping, open, deploys>>
      /\ phase' \in [Releases -> {"converged", "updating", "wedged"}]
      /\ \A q \in Releases \ {r} : phase'[q] = phase[q]
  BY DEF Settle, entry, TypeOK
<1>2. /\ pass'.orphans = pass.orphans /\ pass'.doomed = pass.doomed
      /\ pass'.rev = pass.rev /\ pass'.deploy = pass.deploy /\ pass'.want = pass.want
      /\ pass'.fix = pass.fix /\ pass'.wave = pass.wave
      /\ pass'.elsewhere = pass.elsewhere /\ pass'.fixed = pass.fixed
      /\ pass'.settled = (IF r \in pass.fixed THEN pass.settled \cup {r} ELSE pass.settled)
      /\ pass'.scopes = pass.scopes /\ pass'.await = pass.await
      /\ pass'.landed = pass.landed /\ pass'.failed = pass.failed /\ pass' \in Passes
  BY <1>1 DEF Settle, Passes
<1>3. TypeOK'
  BY <1>1, <1>2 DEF TypeOK
<1>4. r \notin pass.fixed => pass' = pass
  BY <1>1 DEF Settle, Passes
<1>5. OpenInv' /\ SyncedIsDeployed'
  BY <1>1, <1>2 DEF OpenInv, SyncedIsDeployed
<1>6. PlanInv'
  BY <1>1, <1>2, <1>4 DEF PlanInv, NoPass, Declared
<1>7. OrderInv' /\ WaveInv'
  BY <1>1, <1>2 DEF OrderInv, WaveInv
<1>8. CorrectedInv'
  BY <1>1, <1>2 DEF CorrectedInv, Passes
<1>9. DeployedInv' /\ OrphanInv' /\ DoomedInv'
  BY <1>1, <1>2 DEF DeployedInv, Missing, Declared, OrphanInv, Orphaned, DoomedInv, Doomed
<1> QED
  BY <1>3, <1>5, <1>6, <1>7, <1>8, <1>9

LEMMA StutterKeeps == ASSUME IInv, UNCHANGED vars PROVE IInv'
<1>1. UNCHANGED <<policy, head, rec, run, phase, wide, others, budget, status, error, unstable,
                  pc, pass, stopping, open, deploys>>
  BY DEF vars, world, entry
<1>2. TypeOK'
  BY <1>1 DEF IInv, TypeOK
<1> QED
  BY <1>1, <1>2, AroundKeeps

LEMMA StepKeeps == IInv /\ [Next]_vars => IInv'
<1> SUFFICES ASSUME IInv, [Next]_vars PROVE IInv'
  OBVIOUS
<1>1. CASE PassRests \/ PassHeld \/ (\E force \in BOOLEAN : PassStarts(force))
  BY <1>1, PassRestsKeeps, PassHeldKeeps, PassStartsKeeps
<1>2. CASE EngineDeploys \/ EngineFails \/ EngineEnds
  BY <1>2, EngineDeploysKeeps, EngineFailsKeeps, EngineEndsKeeps
<1>3. CASE Correct \/ CorrectFails \/ Awaited \/ WaveSkipped \/ Barrier \/ ApplyEnds
  BY <1>3, CorrectKeeps, CorrectFailsKeeps, AwaitedKeeps, WaveSkippedKeeps, BarrierKeeps,
     ApplyEndsKeeps
<1>4. CASE PruneRelease \/ PruneService \/ PruneFails \/ SweepEnds
  BY <1>4, PruneReleaseKeeps, PruneServiceKeeps, PruneFailsKeeps, SweepEndsKeeps
<1>5. CASE Confirm \/ ConfirmFails \/ ReplaceSelf \/ ReplaceFails \/ PassFails
  BY <1>5, ConfirmKeeps, ConfirmFailsKeeps, ReplaceSelfKeeps, ReplaceFailsKeeps, PassFailsKeeps
<1>6. CASE Stop \/ Abandon \/ Restart
  BY <1>6, StopKeeps, AbandonKeeps, RestartKeeps
<1>7. CASE Push \/ Disturb \/ OtherDeclares \/ \E r \in Releases : Settle(r)
  BY <1>7, PushKeeps, DisturbKeeps, OtherDeclaresKeeps, SettleKeeps
<1>8. CASE UNCHANGED vars
  BY <1>8, StutterKeeps
<1> QED
  BY <1>1, <1>2, <1>3, <1>4, <1>5, <1>6, <1>7, <1>8 DEF Next, Work, Underway, Faults

LEMMA InvariantHolds == Spec => []IInv
BY InitKeeps, StepKeeps, PTL DEF Spec

-----------------------------------------------------------------------------
(* The theorems *)

\* No sync is left without its outcome, and what the application says of itself is
\* so: record publishes synced only of what is deployed.
THEOREM PassSafe == Spec => []PassInv
<1>1. IInv => PassInv
  BY DEF IInv, PassInv, OpenInv, StartedSyncsEnd
<1> QED
  BY <1>1, InvariantHolds, PTL

\* Only Correct adds to what has been corrected.
LEMMA OnlyCorrectFixes ==
    ASSUME IInv, [Next]_vars, ~Correct PROVE pass'.fixed \subseteq pass.fixed
<1>1. pass \in Passes
  BY DEF IInv, TypeOK
<1>2. CASE pass' = pass \/ pass' = NoPass
  BY <1>2 DEF NoPass
<1>3. CASE \E force \in BOOLEAN : PassStarts(force)
  <2>1. pass'.fixed = {}
    BY <1>3 DEF PassStarts, NoPass
  <2> QED
    BY <2>1
<1>4. CASE EngineDeploys \/ EngineEnds \/ CorrectFails
  BY <1>1, <1>4 DEF EngineDeploys, EngineEnds, CorrectFails, Passes
<1>5. CASE Awaited \/ WaveSkipped \/ Barrier \/ ApplyEnds
  BY <1>1, <1>2, <1>5 DEF Awaited, WaveSkipped, Barrier, NextWave, ApplyEnds, Return, Passes
<1>6. CASE PruneRelease \/ PruneService \/ PruneFails
  BY <1>1, <1>6 DEF PruneRelease, PruneService, PruneFails, Passes
<1>7. CASE \E r \in Releases : Settle(r)
  BY <1>1, <1>7 DEF Settle, Passes
<1>8. CASE SweepEnds \/ Confirm \/ ConfirmFails \/ ReplaceSelf \/ ReplaceFails \/ PassFails \/ EngineFails
           \/ Abandon
  BY <1>2, <1>8 DEF SweepEnds, Confirm, ConfirmFails, ReplaceSelf, ReplaceFails, PassFails,
     EngineFails, Abandon, Return
<1>9. CASE \/ PassRests \/ PassHeld \/ Stop \/ Restart \/ Push \/ Disturb \/ OtherDeclares
           \/ UNCHANGED vars
  BY <1>2, <1>9 DEF PassRests, PassHeld, Stop, Restart, Push, Disturb, OtherDeclares, vars
<1> QED
  BY <1>3, <1>4, <1>5, <1>6, <1>7, <1>8, <1>9 DEF Next, Work, Underway, Faults

\* converge keeps the waves apart: nothing of a later wave is written before everything
\* this pass wrote in an earlier one has converged.  While the policy does not wait the
\* barrier sees to it; under wait each correction is awaited, and what did not settle has
\* made the pass a failed one.
THEOREM BarrierSafe == Spec => BarrierHolds
<1>1. ASSUME IInv, [Next]_vars, ~(policy.wait /\ pass.failed) PROVE Ordered
  <2> SUFFICES ASSUME NEW q \in Releases, NEW r \in Releases, q \in pass.fixed,
                      r \in pass'.fixed \ pass.fixed, Wave[q] < Wave[r]
               PROVE  q \in pass.settled
    BY DEF Ordered
  <2>1. Correct /\ pass \in Passes
    BY <1>1, OnlyCorrectFixes DEF IInv, TypeOK
  <2>2. PICK p \in InWave(pass.fix) :
           pc = "correct" /\ pass.await = None /\ pass'.fixed = pass.fixed \cup {p}
    BY <2>1 DEF Correct, Passes
  <2>3. r = p /\ r \in pass.fix /\ Wave[r] = pass.wave
    BY <2>2 DEF InWave
  <2>4. CASE policy.wait
    <3>1. pass.fixed \subseteq pass.settled \cup {None}
      BY <1>1, <2>2, <2>4 DEF IInv, CorrectedInv
    <3> QED
      BY <3>1, Assumed
  <2>5. CASE ~policy.wait
    <3>1. q \in pass.settled \cup pass.scopes
      BY <2>2, <2>3, <2>5, <1>1 DEF IInv, WaveInv
    <3>2. Wave[q] # pass.wave
      BY <2>3, Assumed
    <3>3. q \notin pass.scopes
      BY <1>1, <2>2, <3>2 DEF IInv, WaveInv
    <3> QED
      BY <3>1, <3>3
  <2> QED
    BY <2>4, <2>5
<1>2. IInv /\ [Next]_vars => [Ordered \/ (policy.wait /\ pass.failed)]_vars
  BY <1>1
<1> QED
  BY <1>2, InvariantHolds, PTL DEF Spec, BarrierHolds

\* Once a sync has been reported a success there is nothing its commit declares that
\* is not deployed, and nothing its plan could correct that is not corrected.
LEMMA NothingUndone == ASSUME IInv, pc \in {"sweep", "confirm", "self"} PROVE Undone = {}
BY DEF IInv, DeployedInv, CorrectedInv, Missing, Undone

\* recordResult keeps a success only of a sync that has done all of that.
THEOREM SuccessSafe == Spec => SuccessIsWhole
<1>1. ASSUME IInv, [Next]_vars, status'.last = "ok", status' # status, pc # "idle"
      PROVE  Undone = {}
  <2>1. pc \in {"sweepFirst", "apply", "correct", "sweep", "confirm", "self"}
    BY <1>1 DEF IInv, TypeOK
  <2>2. ASSUME pc \in {"sweepFirst", "apply", "correct"}
        PROVE  status' = status \/ status' = [status EXCEPT !.last = "failed"]
    <3>1. CASE EngineDeploys \/ EngineFails \/ EngineEnds \/ Correct \/ CorrectFails \/ Awaited
      BY <3>1 DEF EngineDeploys, EngineFails, EngineEnds, Correct, CorrectFails, Awaited, Outcome,
         entry
    <3>2. CASE WaveSkipped \/ Barrier \/ ApplyEnds \/ PruneRelease \/ PruneService \/ PruneFails
      BY <3>2 DEF WaveSkipped, Barrier, ApplyEnds, PruneRelease, PruneService, PruneFails, entry
    <3>3. CASE SweepEnds \/ Abandon
      BY <2>2, <3>3 DEF SweepEnds, Sweeping, Abandon, Outcome
    <3>4. CASE Stop \/ Push \/ Disturb \/ OtherDeclares \/ UNCHANGED vars
      BY <3>4 DEF Stop, Push, Disturb, OtherDeclares, vars, entry
    <3>5. CASE \E r \in Releases : Settle(r)
      BY <3>5 DEF Settle, entry
    <3>6. ~ \/ PassRests \/ PassHeld \/ PassFails \/ Restart \/ Confirm \/ ConfirmFails
            \/ ReplaceSelf \/ ReplaceFails \/ \E force \in BOOLEAN : PassStarts(force)
      BY <2>2 DEF PassRests, PassHeld, PassFails, Restart, Confirm, ConfirmFails, ReplaceSelf,
         ReplaceFails, PassStarts, Read
    <3> QED
      BY <1>1, <3>1, <3>2, <3>3, <3>4, <3>5, <3>6 DEF Next, Work, Underway, Faults
  <2>3. ASSUME status' = [status EXCEPT !.last = "failed"] PROVE FALSE
    BY <1>1, <2>3, LastType DEF IInv
  <2>4. pc \in {"sweep", "confirm", "self"}
    BY <1>1, <2>1, <2>2, <2>3
  <2> QED
    BY <1>1, <2>4, NothingUndone
<1>2. IInv /\ [Next]_vars =>
         [status'.last = "ok" /\ status' # status /\ pc # "idle" => Undone = {}]_vars
  BY <1>1
<1> QED
  BY <1>2, InvariantHolds, PTL DEF Spec, SuccessIsWhole

\* replaceSelf comes when the sync has been reported, nothing is left undone, and what
\* the commit left behind is gone or another application's.
THEOREM SelfSafe == Spec => SelfLast
<1>1. ASSUME IInv, pc = "self"
      PROVE  /\ open = 0 /\ Undone = {} /\ status.last = "ok" /\ status.rev = pass.rev
             /\ \A r \in Orphaned(pass.rev) : r \in pass.elsewhere
  <2>1. open = 0 /\ status.last = "ok" /\ status.rev = pass.rev
    BY <1>1 DEF IInv, OpenInv
  <2>2. Orphaned(pass.rev) \subseteq pass.elsewhere
    BY <1>1 DEF IInv, OrphanInv
  <2> QED
    BY <1>1, <2>1, <2>2, NothingUndone
<1>2. IInv /\ [Next]_vars =>
        [~stopping /\ stopping' /\ pc = "self" =>
          /\ open = 0 /\ Undone = {} /\ status.last = "ok" /\ status.rev = pass.rev
          /\ \A r \in Orphaned(pass.rev) : r \in pass.elsewhere]_vars
  BY <1>1
<1> QED
  BY <1>2, InvariantHolds, PTL DEF Spec, SelfLast

\* A release loses its records to PruneRelease alone, which spares what another
\* application declares.
LEMMA OnlyPruneRemoves ==
    ASSUME IInv, [Next]_vars, NEW r \in Releases, rec[r] # None, rec'[r] = None
    PROVE  pc \in {"sweepFirst", "sweep"} /\ r \notin pass.elsewhere
<1>1. PruneRelease \/ EngineDeploys \/ UNCHANGED rec
  <2>1. CASE \/ PassRests \/ PassHeld \/ PassFails \/ (\E force \in BOOLEAN : PassStarts(force))
             \/ EngineFails \/ EngineEnds
    BY <2>1 DEF PassRests, PassHeld, PassFails, PassStarts, EngineFails, EngineEnds, world
  <2>2. CASE Correct \/ CorrectFails \/ Awaited \/ WaveSkipped \/ Barrier \/ ApplyEnds
    BY <2>2 DEF Correct, CorrectFails, Awaited, WaveSkipped, Barrier, ApplyEnds, world
  <2>3. CASE PruneService \/ PruneFails \/ SweepEnds \/ Confirm \/ ConfirmFails
    BY <2>3 DEF PruneService, PruneFails, SweepEnds, Confirm, ConfirmFails, world
  <2>4. CASE ReplaceSelf \/ ReplaceFails \/ Stop \/ Abandon \/ Restart \/ UNCHANGED vars
    BY <2>4 DEF ReplaceSelf, ReplaceFails, Stop, Abandon, Restart, vars, world
  <2>5. CASE Push \/ Disturb \/ OtherDeclares \/ \E q \in Releases : Settle(q)
    BY <2>5 DEF Push, Disturb, OtherDeclares, Settle
  <2> QED
    BY <2>1, <2>2, <2>3, <2>4, <2>5 DEF Next, Work, Underway, Faults
<1>2. ~EngineDeploys
  <2> SUFFICES ASSUME EngineDeploys PROVE FALSE
    OBVIOUS
  <2>1. PICK q \in pass.deploy : rec' = [rec EXCEPT ![q] = Declares[pass.rev][q]] /\ pc = "apply"
    BY DEF EngineDeploys
  <2>2. q \in Declared(pass.rev)
    BY <2>1 DEF IInv, PlanInv
  <2> QED
    BY <2>1, <2>2 DEF Declared, IInv, TypeOK
<1>3. PruneRelease
  BY <1>1, <1>2
<1>4. PICK q \in pass.orphans :
         /\ Sweeping
         /\ IF q \in pass.elsewhere THEN UNCHANGED world ELSE rec' = [rec EXCEPT ![q] = None]
  BY <1>3 DEF PruneRelease
<1>5. q \notin pass.elsewhere /\ r = q
  BY <1>4 DEF world, IInv, TypeOK
<1> QED
  BY <1>4, <1>5 DEF Sweeping

\* pruneFirst sweeps before it deploys, its absence after everything is deployed, and
\* neither touches a release another application declares.
THEOREM SweepsSafe == Spec => SweepsInOrder
<1>1. ASSUME IInv, EngineDeploys, policy.pruneFirst
      PROVE  Departing = {} /\ Doomed(pass.rev) \ pass.landed \subseteq pass.elsewhere
  <2>1. pc = "apply" /\ pass \in Passes /\ pass'.orphans = pass.orphans
    BY <1>1 DEF EngineDeploys, IInv, TypeOK, Passes
  <2>2. pass.orphans = {} /\ Orphaned(pass.rev) \subseteq pass.elsewhere
    BY <1>1, <2>1 DEF IInv, OrphanInv
  <2>3. Departing = {}
    BY <2>1, <2>2 DEF Departing
  <2> QED
    BY <1>1, <2>1, <2>3 DEF IInv, DoomedInv
<1>2. ASSUME IInv, [Next]_vars, NEW r \in Releases, rec[r] # None, rec'[r] = None
      PROVE  /\ r \notin pass.elsewhere
             /\ ~policy.pruneFirst => \A q \in Declared(pass.rev) : rec[q] = Declares[pass.rev][q]
  <2>1. pc \in {"sweepFirst", "sweep"} /\ r \notin pass.elsewhere
    BY <1>2, OnlyPruneRemoves
  <2> QED
    BY <1>2, <2>1 DEF IInv, OrderInv, DeployedInv, Missing
<1>3. IInv /\ [Next]_vars =>
        [EngineDeploys /\ policy.pruneFirst =>
          Departing = {} /\ Doomed(pass.rev) \ pass.landed \subseteq pass.elsewhere]_vars
  BY <1>1
<1>4. IInv /\ [Next]_vars =>
        [\A r \in Releases : rec[r] # None /\ rec'[r] = None /\ ~policy.pruneFirst =>
          \A q \in Declared(pass.rev) : rec[q] = Declares[pass.rev][q]]_vars
  BY <1>2
<1>5. IInv /\ [Next]_vars =>
        [\A r \in Releases : rec[r] # None /\ rec'[r] = None => r \notin pass.elsewhere]_vars
  BY <1>2
<1> QED
  BY <1>3, <1>4, <1>5, InvariantHolds, PTL
     DEF Spec, SweepsInOrder, NoOverlap, NoGap, SparesOthers
=============================================================================
