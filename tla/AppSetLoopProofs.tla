-------------------------- MODULE AppSetLoopProofs --------------------------
(***************************************************************************)
(* Proofs about AppSetLoop, for every set of names, releases and app sets  *)
(* and every bound.                                                        *)
(*                                                                         *)
(* A pass reads at one step and uses at a later one.  LoopInv ties the     *)
(* steps together: the set the pass loaded and the applications that run   *)
(* (AppliedInv), the headings and who runs (HeadingsDisjoint), the work of *)
(* departed applications and the sweep (QuietInv), and the memory of       *)
(* reclaim (GraceInv).  EmptyInv and SpareInv add what the confirmation of *)
(* an empty set and the choice of what to delete rest on.                  *)
(***************************************************************************)
EXTENDS AppSetLoop, TLAPS

-----------------------------------------------------------------------------
(* Type correctness. *)

LEMMA StartedType ==
    ASSUME NEW f \in Sets \cup {Bad}
    PROVE  /\ Started(f) \in [Names -> {None} \cup Specs]
           /\ Started(f) \in Sets \cup {Empty}
BY SetsAssumption DEF Started, Empty

LEMMA TypeInit == Init => TypeOK
<1> SUFFICES ASSUME Init PROVE TypeOK
    OBVIOUS
<1>1. apps \in [Names -> {None} \cup Specs]  BY StartedType DEF Init
<1>2. work \in [Names -> Passes]  BY DEF Init, Idle, Passes, Specs
<1>3. edits \in 0..MaxEdits /\ restarts \in 0..MaxRestarts  BY SetsAssumption DEF Init
<1>4. /\ stamp \in [Releases -> Names \cup {None}] /\ known \in [Names -> {None} \cup Specs]
      /\ file \in Sets \cup {Bad} /\ loaded \in Sets \cup {Empty}
      /\ before \in Sets \cup {Empty, None}
  BY DEF Init
<1> QED BY <1>1, <1>2, <1>3, <1>4 DEF Init, TypeOK

LEMMA TypeNext == TypeOK /\ [Next]_vars => TypeOK'
<1> SUFFICES ASSUME TypeOK, [Next]_vars PROVE TypeOK'
    OBVIOUS
<1> USE SetsAssumption DEF TypeOK, world, reconciler, pass, memory, history, Pairs
<1>1. ASSUME NEW f \in Sets \cup {Bad}, Edit(f) PROVE TypeOK'
  BY <1>1 DEF Edit
<1>2. CASE Restart
  <2>1. apps' \in [Names -> {None} \cup Specs]  BY <1>2, StartedType DEF Restart
  <2>2. work' \in [Names -> Passes]  BY <1>2 DEF Restart, Idle, Passes, Specs
  <2>3. restarts' \in 0..MaxRestarts /\ edits' \in 0..MaxEdits  BY <1>2 DEF Restart
  <2>4. /\ stamp' \in [Releases -> Names \cup {None}] /\ known' \in [Names -> {None} \cup Specs]
        /\ file' \in Sets \cup {Bad} /\ loaded' \in Sets \cup {Empty}
        /\ before' \in Sets \cup {Empty, None} /\ cache' \subseteq Names
    BY <1>2 DEF Restart
  <2> QED BY <1>2, <2>1, <2>2, <2>3, <2>4 DEF Restart
<1>3. ASSUME NEW n \in Names, Fetch(n) PROVE TypeOK'
  <2>1. apps[n] \in Specs  BY <1>3 DEF Fetch
  <2>2. work' \in [Names -> Passes]  BY <1>3, <2>1 DEF Fetch, Passes
  <2> QED BY <1>3, <2>2 DEF Fetch
<1>4. ASSUME NEW n \in Names, Plan(n) PROVE TypeOK'
  <2>1. work[n].spec \in Specs  BY DEF Passes
  <2>2. work' \in [Names -> Passes]  BY <1>4, <2>1 DEF Plan, Passes
  <2> QED BY <1>4, <2>1, <2>2 DEF Plan
<1>5. ASSUME NEW n \in Names, PassEnds(n) PROVE TypeOK'
  <2>1. work' \in [Names -> Passes]  BY <1>5 DEF PassEnds, Idle, Passes, Specs
  <2> QED BY <1>5, <2>1 DEF PassEnds
<1>6. ASSUME NEW n \in Names, NEW r \in Releases, Install(n, r) PROVE TypeOK'
  BY <1>6 DEF Install
<1>7. ASSUME NEW w \in late, LateEnds(w) PROVE TypeOK'
  BY <1>7 DEF LateEnds
<1>8. ASSUME NEW w \in late, NEW r \in Releases, LateInstall(w, r) PROVE TypeOK'
  <2>1. w.app \in Names  OBVIOUS
  <2> QED BY <1>8, <2>1 DEF LateInstall
<1>9. CASE Load
  BY <1>9 DEF Load
<1>10. ASSUME NEW n \in Names, NEW inTime \in BOOLEAN, RemoveApp(n, inTime) PROVE TypeOK'
  <2>1. work' \in [Names -> Passes]  BY <1>10 DEF RemoveApp, Idle, Passes, Specs
  <2>2. [app |-> n, spec |-> work[n].spec] \in [app: Names, spec: Specs]
    BY DEF Passes
  <2> QED BY <1>10, <2>1, <2>2 DEF RemoveApp
<1>11. ASSUME NEW n \in Names, ReplaceApp(n) \/ AddApp(n) PROVE TypeOK'
  <2>1. loaded[n] \in {None} \cup Specs  BY DEF Empty
  <2> QED BY <1>11, <2>1 DEF ReplaceApp, AddApp, Adopt
<1>12. ASSUME NEW n \in Names, ApplyFails(n) PROVE TypeOK'
  BY <1>12 DEF ApplyFails
<1>13. CASE Applied
  BY <1>13 DEF Applied
<1>14. CASE Views
  <2>1. Declared \subseteq Releases  BY DEF Declared, Specs
  <2> QED BY <1>14, <2>1 DEF Views, EmptyNow
<1>15. CASE DrainingGate \/ HoldEmpty \/ ListFails
  BY <1>15 DEF DrainingGate, HoldEmpty, ListFails
<1>16. CASE List
  <2>1. Departed \subseteq Names \X Releases  BY DEF Departed
  <2>2. \A d \in Departed : d[1] \in Names  BY <2>1
  <2> QED BY <1>16, <2>1, <2>2 DEF List
<1>17. ASSUME NEW d \in doomed, NEW gone \in BOOLEAN, NEW told \in BOOLEAN,
              Uninstall(d, gone, told)
       PROVE  TypeOK'
  BY <1>17 DEF Uninstall
<1>18. ASSUME NEW relisted \in BOOLEAN, Swept(relisted) PROVE TypeOK'
  BY <1>18 DEF Swept
<1>19. ASSUME NEW removed \in SUBSET cache, Reclaim(removed) PROVE TypeOK'
  BY <1>19 DEF Reclaim, Remembered
<1>20. CASE LoadFails \/ UNCHANGED vars
  BY <1>20 DEF LoadFails, vars
<1> QED
  BY <1>1, <1>2, <1>3, <1>4, <1>5, <1>6, <1>7, <1>8, <1>9, <1>10, <1>11, <1>12, <1>13, <1>14,
     <1>15, <1>16, <1>17, <1>18, <1>19, <1>20
  DEF Next, Environment, ReconcileStep, ApplyStep, SweepStep, ReclaimStep

\* Every variable keeps its type, the bounds included.
THEOREM SetTypeCorrect == Spec => []TypeOK
BY TypeInit, TypeNext, PTL DEF Spec
-----------------------------------------------------------------------------
(* Headings, departed work and the memory of reclaim. *)

\* After apply nobody runs whom the loaded set does not name, and the sweep
\* empties only applications that do not run.
AppliedInv ==
    /\ pc = "apply" => \A n \in Names :
         /\ n \in todo => apps[n] # loaded[n]
         /\ (n \notin todo /\ loaded[n] = None) => apps[n] = None
    /\ pc \in {"views", "draining", "list", "uninstall"} =>
         \A n \in Names : loaded[n] = None => apps[n] = None
    /\ pc = "uninstall" => \A n \in swept : apps[n] = None
    /\ doomed # {} => pc = "uninstall"

\* An application out of the set is in no pass, and what Remove gave up waiting
\* for is over before the sweep, so none of it is reported as pruned.
QuietInv ==
    /\ \A n \in Names : apps[n] = None => work[n].at = "idle"
    /\ pc \in {"list", "uninstall"} => late = {}
    /\ \A w \in late : w.app \notin pruned

\* A candidate of reclaim was out of the set at the last sweep.
GraceInv == absent \subseteq missed

LoopInv == AppliedInv /\ HeadingsDisjoint /\ QuietInv /\ GraceInv

LEMMA LoopInit == ASSUME Init PROVE LoopInv
BY DEF Init, Idle, LoopInv, AppliedInv, HeadingsDisjoint, QuietInv, GraceInv

LEMMA LoopNext == ASSUME TypeOK, LoopInv, [Next]_vars PROVE LoopInv'
<1> USE SetsAssumption
    DEF LoopInv, AppliedInv, HeadingsDisjoint, QuietInv, GraceInv, world, reconciler, pass,
        memory, history
<1>0. /\ apps \in [Names -> {None} \cup Specs] /\ work \in [Names -> Passes]
      /\ late \subseteq [app: Names, spec: Specs] /\ orphaned \subseteq Names
      /\ pruned \subseteq Names /\ todo \subseteq Names /\ swept \subseteq Names
  BY DEF TypeOK
\* A step of the file or the swarm.
<1>1. CASE UNCHANGED <<pc, apps, loaded, todo, swept, doomed, orphaned, pruned, work, late,
                       absent, missed>>
  BY <1>1
<1>2. CASE Environment
  <2>1. CASE Restart
    BY <2>1, LoopInit DEF Restart, Idle
  <2> QED BY <1>1, <1>2, <2>1 DEF Environment, Edit
<1>3. CASE ReconcileStep
  <2>1. ASSUME NEW n \in Names, Fetch(n) \/ Plan(n) PROVE LoopInv'
    BY <1>0, <2>1 DEF Fetch, Plan, Passes
  <2>2. ASSUME NEW n \in Names, PassEnds(n) PROVE LoopInv'
    BY <1>0, <2>2 DEF PassEnds, Passes, Idle
  <2>3. ASSUME NEW n \in Names, NEW r \in Releases, Install(n, r) PROVE LoopInv'
    BY <1>1, <2>3 DEF Install
  <2>4. ASSUME NEW w \in late, LateEnds(w) PROVE LoopInv'
    BY <2>4 DEF LateEnds
  <2>5. ASSUME NEW w \in late, NEW r \in Releases, LateInstall(w, r) PROVE LoopInv'
    BY <1>1, <2>5 DEF LateInstall
  <2> QED BY <1>3, <2>1, <2>2, <2>3, <2>4, <2>5 DEF ReconcileStep
<1>4. CASE Load
  BY <1>4 DEF Load, Differs
<1>5. ASSUME NEW n \in Names, NEW inTime \in BOOLEAN, RemoveApp(n, inTime) PROVE LoopInv'
  <2>1. n \in todo /\ loaded[n] = None /\ apps[n] # None
    BY <1>5 DEF RemoveApp, Removals
  <2>2. /\ pc = "apply" /\ pc' = "apply" /\ loaded' = loaded /\ todo' = todo \ {n}
        /\ UNCHANGED <<doomed, swept, pruned, absent, missed>>
        /\ orphaned' = orphaned \cup {n}
    BY <1>5 DEF RemoveApp
  <2>3. apps' = [apps EXCEPT ![n] = None] /\ work' = [work EXCEPT ![n] = Idle]
    BY <1>5 DEF RemoveApp
  <2>4. AppliedInv'  BY <1>0, <2>2, <2>3
  <2>5. HeadingsDisjoint'  BY <1>0, <2>1, <2>2, <2>3
  <2>6. QuietInv'
    <3>1. \A m \in Names : apps'[m] = None => work'[m].at = "idle"
      BY <1>0, <2>3 DEF Idle
    <3>2. late' \subseteq late \cup {[app |-> n, spec |-> work[n].spec]}
      BY <1>5 DEF RemoveApp
    <3>3. n \notin pruned  BY <2>1
    <3>4. \A w \in late' : w.app \notin pruned  BY <3>2, <3>3
    <3> QED BY <2>2, <3>1, <3>4
  <2> QED BY <2>2, <2>4, <2>5, <2>6
<1>6. ASSUME NEW n \in Names, ReplaceApp(n) PROVE LoopInv'
  BY <1>0, <1>6 DEF ReplaceApp, Replaces
<1>7. ASSUME NEW n \in Names, AddApp(n) PROVE LoopInv'
  BY <1>0, <1>7 DEF AddApp, Adds, Adopt
<1>8. ASSUME NEW n \in Names, ApplyFails(n) PROVE LoopInv'
  <2>1. loaded[n] # None  BY <1>8 DEF ApplyFails, Replaces, Adds
  <2> QED BY <1>8, <2>1 DEF ApplyFails
<1>9. CASE Applied
  BY <1>9 DEF Applied
<1>10. CASE Views \/ DrainingGate
  BY <1>10 DEF Views, DrainingGate
<1>11. CASE HoldEmpty \/ ListFails
  BY <1>11 DEF HoldEmpty, ListFails
<1>12. CASE List
  <2>1. \A m \in {d[1] : d \in Departed} : m \in Names /\ loaded[m] = None
    BY DEF Departed, Pairs
  <2> QED BY <1>12, <2>1 DEF List
<1>13. ASSUME NEW d \in doomed, NEW gone \in BOOLEAN, NEW told \in BOOLEAN,
              Uninstall(d, gone, told)
       PROVE  LoopInv'
  BY <1>13 DEF Uninstall
<1>14. ASSUME NEW relisted \in BOOLEAN, Swept(relisted) PROVE LoopInv'
  <2> DEFINE emptied == {a \in swept : \A d \in left : d[1] = a => relisted /\ stamp[d[2]] = None}
  <2>1. /\ orphaned' = orphaned \ emptied /\ pruned' = pruned \cup emptied
        /\ pc = "uninstall" /\ pc' = "reclaim" /\ doomed = {}
        /\ UNCHANGED <<apps, work, late, doomed, absent, missed>>
    BY <1>14 DEF Swept
  <2>2. \A a \in emptied : a \in Names /\ apps[a] = None  BY <1>0, <2>1
  <2>3. emptied \subseteq Names  BY <2>2
  <2> HIDE DEF emptied
  <2> QED BY <2>1, <2>2, <2>3
<1>15. ASSUME NEW removed \in SUBSET cache, Reclaim(removed) PROVE LoopInv'
  <2>1. cache \subseteq Names  BY DEF TypeOK
  <2> QED BY <1>0, <1>15, <2>1 DEF Reclaim, Remembered
<1>16. CASE LoadFails \/ UNCHANGED vars
  BY <1>1, <1>16 DEF LoadFails, vars
<1> QED
  BY <1>2, <1>3, <1>4, <1>5, <1>6, <1>7, <1>8, <1>9, <1>10, <1>11, <1>12, <1>13, <1>14, <1>15,
     <1>16
  DEF Next, ApplyStep, SweepStep, ReclaimStep

LEMMA LoopInvariant == Spec => [](TypeOK /\ LoopInv)
<1>1. Init => LoopInv  BY LoopInit
<1>2. TypeOK /\ LoopInv /\ [Next]_vars => LoopInv'  BY LoopNext
<1> QED BY <1>1, <1>2, SetTypeCorrect, PTL DEF Spec

\* The status endpoint never lists one application under two of orphaned,
\* pruned and running (orphan, adopt, recordPruned).
THEOREM HeadingsSafe == Spec => []HeadingsDisjoint
<1>1. LoopInv => HeadingsDisjoint  BY DEF LoopInv
<1> QED BY <1>1, LoopInvariant, PTL
-----------------------------------------------------------------------------
(* What no step does. *)

LEMMA GoneTwiceStep == TypeOK /\ LoopInv /\ [Next]_vars => [GoneTwice]_cache
<1> SUFFICES ASSUME TypeOK, LoopInv, [Next]_vars, cache' # cache PROVE GoneTwice
    OBVIOUS
<1> USE DEF world, reconciler, pass, memory, history
<1>1. CASE Environment
  BY <1>1 DEF Environment, Edit, Restart
<1>2. CASE ReconcileStep
  <2>1. cache \subseteq cache'
    BY <1>2 DEF ReconcileStep, Fetch, Plan, PassEnds, Install, LateEnds, LateInstall
  <2> QED BY <2>1 DEF GoneTwice
<1>3. CASE Load \/ LoadFails \/ UNCHANGED vars
  BY <1>3 DEF Load, LoadFails, vars
<1>4. CASE ApplyStep
  BY <1>4 DEF ApplyStep, RemoveApp, ReplaceApp, AddApp, ApplyFails, Applied
<1>5. CASE SweepStep
  BY <1>5 DEF SweepStep, Views, DrainingGate, HoldEmpty, List, ListFails, Uninstall, Swept
<1>6. ASSUME NEW removed \in SUBSET cache, Reclaim(removed) PROVE GoneTwice
  BY <1>6 DEF Reclaim, GoneTwice, LoopInv, GraceInv
<1> QED BY <1>1, <1>2, <1>3, <1>4, <1>5, <1>6 DEF Next, ReclaimStep

\* A cache is removed only when its application was out of the running set at
\* this sweep and at the one before (Sweeper.Sweep).
THEOREM CacheGraceSafe == Spec => CacheGrace
BY GoneTwiceStep, LoopInvariant, PTL DEF Spec, CacheGrace

LEMMA StampStep == TypeOK /\ LoopInv /\ [Next]_vars => [StampForListed]_stamp
<1> SUFFICES ASSUME TypeOK, LoopInv, [Next]_vars, stamp' # stamp PROVE StampForListed
    OBVIOUS
<1> USE DEF world, reconciler, pass, memory, history
<1>0. stamp \in [Releases -> Names \cup {None}] /\ pruned \subseteq Names
  BY DEF TypeOK
<1>1. CASE Environment
  BY <1>1 DEF Environment, Edit, Restart
<1>2. CASE ReconcileStep
  <2>1. ASSUME NEW n \in Names, NEW r \in Releases, Install(n, r) PROVE StampForListed
    <3>1. n \notin pruned
      BY <2>1 DEF Install, LoopInv, QuietInv, HeadingsDisjoint
    <3> QED BY <1>0, <2>1, <3>1 DEF Install, StampForListed
  <2>2. ASSUME NEW w \in late, NEW r \in Releases, LateInstall(w, r) PROVE StampForListed
    <3>1. w.app \notin pruned
      BY DEF LoopInv, QuietInv
    <3> QED BY <1>0, <2>2, <3>1 DEF LateInstall, StampForListed
  <2> QED BY <1>2, <2>1, <2>2 DEF ReconcileStep, Fetch, Plan, PassEnds, LateEnds
<1>3. CASE Load \/ LoadFails \/ UNCHANGED vars
  BY <1>3 DEF Load, LoadFails, vars
<1>4. CASE ApplyStep
  BY <1>4 DEF ApplyStep, RemoveApp, ReplaceApp, AddApp, ApplyFails, Applied
<1>5. CASE SweepStep
  <2>1. ASSUME NEW d \in doomed, NEW gone \in BOOLEAN, NEW told \in BOOLEAN,
               Uninstall(d, gone, told)
        PROVE  StampForListed
    BY <1>0, <2>1, SetsAssumption DEF Uninstall, StampForListed
  <2> QED BY <1>5, <2>1 DEF SweepStep, Views, DrainingGate, HoldEmpty, List, ListFails, Swept
<1>6. CASE ReclaimStep
  BY <1>6 DEF ReclaimStep, Reclaim
<1> QED BY <1>1, <1>2, <1>3, <1>4, <1>5, <1>6 DEF Next

\* No step installs anything in the name of an application the status lists as
\* pruned (the gate on Reconciler.Draining, and adopt).
THEOREM PrunedSafe == Spec => PrunedStaysGone
BY StampStep, LoopInvariant, PTL DEF Spec, PrunedStaysGone
-----------------------------------------------------------------------------
(* The confirmation of an empty set, when every credential resolves.  With    *)
(* one that does not, a pass may end before it looks at emptyBefore, and the  *)
(* property fails.                                                            *)

\* emptyBefore speaks of the pass before until the views, and of this one after;
\* what is deleted for an empty set was confirmed.
EmptyInv ==
    /\ ok
    /\ (pc \in {"idle", "apply", "views"} /\ emptyBefore) => before = Empty
    /\ (pc \in {"draining", "list", "uninstall"} /\ confirmed) => before = Empty
    /\ (pc \in {"draining", "list", "uninstall", "reclaim"} /\ emptyBefore) => loaded = Empty
    /\ (pc = "uninstall" /\ loaded = Empty) => confirmed

LEMMA EmptyInit == ASSUME Init PROVE EmptyInv
BY DEF Init, EmptyInv

LEMMA EmptyNext == ASSUME Failing = {}, TypeOK, EmptyInv, [Next]_vars PROVE EmptyInv'
<1> USE DEF EmptyInv, world, reconciler, pass, memory, history
<1>0. ok \in BOOLEAN /\ emptyBefore \in BOOLEAN /\ confirmed \in BOOLEAN  BY DEF TypeOK
<1>1. CASE UNCHANGED <<pc, ok, loaded, confirmed, emptyBefore, before>>
  BY <1>1
<1>2. CASE Environment
  BY <1>1, <1>2 DEF Environment, Edit, Restart
<1>3. CASE ReconcileStep
  BY <1>1, <1>3
  DEF ReconcileStep, Fetch, Plan, PassEnds, Install, LateEnds, LateInstall
<1>4. CASE Load \/ Applied
  <2>1. /\ pc' \in {"apply", "views", "reclaim"} /\ (pc' = "reclaim" => ~ok) /\ ok'
        /\ pc \in {"idle", "apply"}
        /\ UNCHANGED <<emptyBefore, before>>
    BY <1>0, <1>4 DEF Load, Applied
  <2> QED BY <1>0, <2>1
<1>5. ASSUME NEW n \in Names, ReplaceApp(n) \/ AddApp(n) \/ ApplyFails(n) PROVE EmptyInv'
  BY <1>1, <1>5 DEF ReplaceApp, AddApp, ApplyFails
<1>6. ASSUME NEW n \in Names, NEW inTime \in BOOLEAN, RemoveApp(n, inTime) PROVE EmptyInv'
  BY <1>1, <1>6 DEF RemoveApp
<1>7. CASE Views
  BY <1>0, <1>7 DEF Views, EmptyNow
<1>8. CASE DrainingGate \/ HoldEmpty \/ List \/ ListFails
  <2>1. /\ pc \in {"draining", "list"} /\ pc' \in {"list", "reclaim", "uninstall"}
        /\ pc' = "uninstall" => loaded # Empty \/ confirmed
        /\ UNCHANGED <<ok, loaded, confirmed, emptyBefore, before>>
    BY <1>8 DEF DrainingGate, HoldEmpty, List, ListFails
  <2> QED BY <1>0, <2>1
<1>9. ASSUME NEW d \in doomed, NEW gone \in BOOLEAN, NEW told \in BOOLEAN,
             Uninstall(d, gone, told)
      PROVE  EmptyInv'
  BY <1>1, <1>9 DEF Uninstall
<1>10. ASSUME NEW relisted \in BOOLEAN, Swept(relisted) PROVE EmptyInv'
  BY <1>10 DEF Swept
<1>11. ASSUME NEW removed \in SUBSET cache, Reclaim(removed) PROVE EmptyInv'
  BY <1>11 DEF Reclaim
<1>12. CASE LoadFails \/ UNCHANGED vars
  BY <1>1, <1>12 DEF LoadFails, vars
<1> QED
  BY <1>2, <1>3, <1>4, <1>5, <1>6, <1>7, <1>8, <1>9, <1>10, <1>11, <1>12
  DEF Next, ApplyStep, SweepStep, ReclaimStep

\* As long as no credential fails, nothing is deleted on the strength of one
\* empty set: the pass before loaded an empty set too (emptyBefore).
THEOREM EmptySafe == Failing = {} /\ Spec => []EmptySetConfirmed
<1> SUFFICES ASSUME Failing = {} PROVE Spec => []EmptySetConfirmed
    OBVIOUS
<1>1. Init => EmptyInv  BY EmptyInit
<1>2. TypeOK /\ EmptyInv /\ [Next]_vars => EmptyInv'  BY EmptyNext
<1>3. LoopInv /\ EmptyInv => EmptySetConfirmed
  BY DEF LoopInv, AppliedInv, EmptyInv, EmptySetConfirmed
<1> QED BY <1>1, <1>2, <1>3, LoopInvariant, SetTypeCorrect, PTL DEF Spec
-----------------------------------------------------------------------------
(* What the sweep spares, when no name is ever given two specs.  When a name  *)
(* is, its status still lists what the old spec declared, and the property    *)
(* fails.                                                                     *)

Given(n) == {f[n] : f \in Sets}

OneSpec == \A n \in Names : \A s, t \in Given(n) : s # None /\ t # None => s = t

\* Whatever a name runs, lists or works on is its one spec, and from the views
\* to the end of the sweep every running application is among the declared.
SpareInv ==
    /\ \A n \in Names :
         /\ apps[n] \in Given(n) \cup {None}
         /\ loaded[n] \in Given(n) \cup {None}
         /\ known[n] \in Given(n) \cup {None}
         /\ work[n].at = "read" => work[n].spec \in Given(n)
    /\ pc \in {"draining", "list", "uninstall"} =>
         \A n \in Names : apps[n] # None => apps[n] \subseteq declared
    /\ \A d \in doomed : d[2] \notin declared

LEMMA SetGiven ==
    ASSUME NEW f \in Sets \cup {Bad}, NEW n \in Names
    PROVE  /\ Started(f)[n] \in Given(n) \cup {None}
           /\ f # Bad => f[n] \in Given(n)
BY DEF Started, Empty, Given

LEMMA SpareInit == ASSUME Init PROVE SpareInv
BY SetGiven DEF Init, Idle, Empty, SpareInv

LEMMA SpareNext == ASSUME OneSpec, TypeOK, LoopInv, SpareInv, [Next]_vars PROVE SpareInv'
<1> USE DEF SpareInv, world, reconciler, pass, memory, history
<1>0. /\ apps \in [Names -> {None} \cup Specs] /\ work \in [Names -> Passes]
      /\ known \in [Names -> {None} \cup Specs]
      /\ file \in Sets \cup {Bad} /\ loaded \in Sets \cup {Empty}
  BY DEF TypeOK
<1>1. CASE UNCHANGED <<pc, apps, known, work, loaded, declared, doomed>>
  BY <1>1
<1>2. CASE Environment
  <2>1. CASE Restart
    BY <1>0, <2>1, SetGiven DEF Restart, Idle, Empty
  <2> QED BY <1>1, <1>2, <2>1 DEF Environment, Edit
<1>3. CASE ReconcileStep
  <2>1. ASSUME NEW n \in Names, Fetch(n) PROVE SpareInv'
    BY <1>0, <2>1 DEF Fetch, Passes
  <2>2. ASSUME NEW n \in Names, Plan(n) PROVE SpareInv'
    BY <1>0, <2>2 DEF Plan, Passes
  <2>3. ASSUME NEW n \in Names, PassEnds(n) PROVE SpareInv'
    BY <1>0, <2>3 DEF PassEnds, Idle
  <2>4. ASSUME NEW n \in Names, NEW r \in Releases, Install(n, r) PROVE SpareInv'
    BY <1>1, <2>4 DEF Install
  <2>5. ASSUME NEW w \in late, LateEnds(w) \/ \E r \in Releases : LateInstall(w, r)
        PROVE  SpareInv'
    BY <1>1, <2>5 DEF LateEnds, LateInstall
  <2> QED BY <1>3, <2>1, <2>2, <2>3, <2>4, <2>5 DEF ReconcileStep
<1>4. CASE Load
  BY <1>0, <1>4, SetGiven DEF Load
<1>5. ASSUME NEW n \in Names, NEW inTime \in BOOLEAN, RemoveApp(n, inTime) PROVE SpareInv'
  BY <1>0, <1>5 DEF RemoveApp, Idle
<1>6. ASSUME NEW n \in Names, ReplaceApp(n) \/ AddApp(n) PROVE SpareInv'
  BY <1>0, <1>6 DEF ReplaceApp, AddApp
<1>7. ASSUME NEW n \in Names, ApplyFails(n) PROVE SpareInv'
  BY <1>1, <1>7 DEF ApplyFails
<1>8. CASE Applied
  BY <1>8 DEF Applied
<1>9. CASE Views
  <2>1. doomed = {}  BY <1>9 DEF Views, LoopInv, AppliedInv
  <2>2. ASSUME NEW n \in Names, apps[n] # None, Unreconciled = {}
        PROVE  apps[n] \subseteq Declared
    <3>1. known[n] # None  BY <2>2 DEF Unreconciled
    <3>2. apps[n] = known[n]
      BY <2>2, <3>1 DEF OneSpec
    <3>3. known[n] \subseteq Declared  BY <2>2, <3>1 DEF Declared
    <3> QED BY <3>2, <3>3
  <2> QED BY <1>9, <2>1, <2>2 DEF Views
<1>10. CASE DrainingGate \/ HoldEmpty \/ ListFails
  BY <1>10 DEF DrainingGate, HoldEmpty, ListFails
<1>11. CASE List
  BY <1>11 DEF List, Departed
<1>12. ASSUME NEW d \in doomed, NEW gone \in BOOLEAN, NEW told \in BOOLEAN,
              Uninstall(d, gone, told)
       PROVE  SpareInv'
  BY <1>12 DEF Uninstall
<1>13. ASSUME NEW relisted \in BOOLEAN, Swept(relisted) PROVE SpareInv'
  BY <1>13 DEF Swept
<1>14. ASSUME NEW removed \in SUBSET cache, Reclaim(removed) PROVE SpareInv'
  BY <1>14 DEF Reclaim, Empty, LoopInv, AppliedInv
<1>15. CASE LoadFails \/ UNCHANGED vars
  BY <1>1, <1>15 DEF LoadFails, vars
<1> QED
  BY <1>2, <1>3, <1>4, <1>5, <1>6, <1>7, <1>8, <1>9, <1>10, <1>11, <1>12, <1>13, <1>14, <1>15
  DEF Next, ApplyStep, SweepStep, ReclaimStep

\* When no name is ever given two specs, the sweep deletes no release that an
\* application of the running set declares (Loop.pruneDeparted, declared).
THEOREM SpareSafe == OneSpec /\ Spec => []SweepSparesDeclared
<1> SUFFICES ASSUME OneSpec PROVE Spec => []SweepSparesDeclared
    OBVIOUS
<1>1. Init => SpareInv  BY SpareInit
<1>2. TypeOK /\ LoopInv /\ SpareInv /\ [Next]_vars => SpareInv'  BY SpareNext
<1>3. LoopInv /\ SpareInv => SweepSparesDeclared
  BY DEF LoopInv, AppliedInv, SpareInv, SweepSparesDeclared
<1> QED BY <1>1, <1>2, <1>3, LoopInvariant, PTL DEF Spec
=============================================================================
