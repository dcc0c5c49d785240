----------------------------- MODULE AppSetLoop -----------------------------
(***************************************************************************)
(* Package appset: the loop that keeps the running set of applications     *)
(* equal to the app set in git, and behind it the two things that delete:  *)
(* prune.Departed, which removes the releases of departed applications     *)
(* from the swarm, and reclaim.Sweep, which removes their caches.          *)
(*                                                                         *)
(* A spec is the set of releases it declares.  The reconciler is reduced   *)
(* to what the loop meets of it: which spec a pass read, what it recorded, *)
(* what it installs, and the work Remove gave up waiting for; Reconciler   *)
(* has the rest.  Reporting (lastErr, stale, pruneHeldBy) is left out.     *)
(***************************************************************************)
EXTENDS Naturals, FiniteSets

CONSTANTS
    Names,       \* application names
    Releases,    \* release names
    Sets,        \* the app sets the file may hold: name -> spec, or None
    Failing,     \* applications whose credential may not resolve
    Own,         \* releases the controller itself runs as
    MaxEdits,    \* bound: how often the file is edited
    MaxRestarts, \* bound: how often the controller restarts
    None,        \* nil
    Bad          \* a file that does not load

Specs == SUBSET Releases

\* "applications: []"
Empty == [n \in Names |-> None]

ASSUME SetsAssumption ==
    /\ None \notin Names /\ \A s \in Specs : s # None
    /\ Sets \subseteq [Names -> {None} \cup Specs] /\ Bad \notin Sets
    /\ Own \subseteq Releases /\ Failing \subseteq Names
    /\ MaxEdits \in Nat /\ MaxRestarts \in Nat

VARIABLES
    file,        \* the app set in git
    edits, restarts,
    stamp,       \* release -> the application its records name, None not installed
    cache,       \* applications with a clone on disk
    \* Reconciler
    apps,        \* name -> the spec it runs, or None
    known,       \* name -> the releases its status lists, None before a plan
    work,        \* name -> the pass it is in
    late,        \* passes of departed applications Remove gave up waiting for
    \* Loop
    pc,          \* where Once is
    loaded,      \* the set this pass loaded
    todo,        \* applications apply has not come to yet
    ok,          \* whether apply has had no failure
    confirmed,   \* emptyBefore as pruneDeparted found it
    declared,    \* the releases the views listed
    doomed,      \* <<application, release>> pairs still to uninstall
    swept,       \* applications this sweep set out to empty
    left,        \* pairs whose uninstall reported a failure
    emptyBefore, orphaned, pruned,
    absent,      \* Sweeper.absent
    \* history
    before,      \* the set the last finished pass loaded, None after a start
    missed       \* applications outside the running set at the last reclaim

world == <<file, edits, restarts>>
reconciler == <<apps, known, work, late>>
pass == <<pc, loaded, todo, ok, confirmed, declared, doomed, swept, left>>
memory == <<emptyBefore, orphaned, pruned, absent>>
history == <<before, missed>>
vars == <<world, stamp, cache, reconciler, pass, memory, history>>

Idle == [at |-> "idle", spec |-> {}]
Passes == [at: {"idle", "read", "planned"}, spec: Specs]
Pairs == Names \X Releases

TypeOK ==
    /\ file \in Sets \cup {Bad} /\ edits \in 0..MaxEdits /\ restarts \in 0..MaxRestarts
    /\ stamp \in [Releases -> Names \cup {None}]
    /\ cache \subseteq Names
    /\ apps \in [Names -> {None} \cup Specs]
    /\ known \in [Names -> {None} \cup Specs]
    /\ work \in [Names -> Passes]
    /\ late \subseteq [app: Names, spec: Specs]
    /\ pc \in {"idle", "apply", "views", "draining", "list", "uninstall", "reclaim"}
    /\ loaded \in Sets \cup {Empty}
    /\ todo \subseteq Names /\ ok \in BOOLEAN /\ confirmed \in BOOLEAN
    /\ declared \subseteq Releases
    /\ doomed \subseteq Pairs /\ left \subseteq Pairs /\ swept \subseteq Names
    /\ emptyBefore \in BOOLEAN
    /\ orphaned \subseteq Names /\ pruned \subseteq Names
    /\ absent \subseteq Names /\ missed \subseteq Names
    /\ before \in Sets \cup {Empty, None}

\* What a process has at its start: run loads the set once, and a set that does
\* not load is a controller without applications.
Started(f) == IF f = Bad THEN Empty ELSE f

Init ==
    /\ file \in Sets
    /\ edits = 0 /\ restarts = 0
    /\ stamp = [r \in Releases |-> None]
    /\ cache = {}
    /\ apps = Started(file)
    /\ known = [n \in Names |-> None]
    /\ work = [n \in Names |-> Idle]
    /\ late = {}
    /\ pc = "idle" /\ loaded = Empty /\ todo = {} /\ ok = TRUE /\ confirmed = FALSE
    /\ declared = {} /\ doomed = {} /\ swept = {} /\ left = {}
    /\ emptyBefore = FALSE /\ orphaned = {} /\ pruned = {} /\ absent = {}
    /\ before = None /\ missed = {}
-----------------------------------------------------------------------------
(* The file, and the process. *)

Edit(f) ==
    /\ edits < MaxEdits
    /\ f # file
    /\ file' = f
    /\ edits' = edits + 1
    /\ UNCHANGED <<restarts, stamp, cache, reconciler, pass, memory, history>>

\* The process ends anywhere and starts again: memory is lost, what is on the
\* swarm and on disk is not.
Restart ==
    /\ restarts < MaxRestarts
    /\ restarts' = restarts + 1
    /\ apps' = Started(file)
    /\ known' = [n \in Names |-> None]
    /\ work' = [n \in Names |-> Idle]
    /\ late' = {}
    /\ pc' = "idle" /\ loaded' = Empty /\ todo' = {} /\ ok' = TRUE /\ confirmed' = FALSE
    /\ declared' = {} /\ doomed' = {} /\ swept' = {} /\ left' = {}
    /\ emptyBefore' = FALSE /\ orphaned' = {} /\ pruned' = {} /\ absent' = {}
    /\ before' = None /\ missed' = {}
    /\ UNCHANGED <<file, edits, stamp, cache>>
-----------------------------------------------------------------------------
(* The passes of the reconciler, beside the loop. *)

\* A pass reads the spec in force and fetches into the application's clone.
Fetch(n) ==
    /\ apps[n] # None
    /\ work[n].at = "idle"
    /\ work' = [work EXCEPT ![n] = [at |-> "read", spec |-> apps[n]]]
    /\ cache' = cache \cup {n}
    /\ UNCHANGED <<world, stamp, apps, known, late, pass, memory, history>>

\* record: the status lists the releases of the plan.
Plan(n) ==
    /\ work[n].at = "read"
    /\ known' = [known EXCEPT ![n] = work[n].spec]
    /\ work' = [work EXCEPT ![n] = [at |-> "planned", spec |-> work[n].spec]]
    /\ UNCHANGED <<world, stamp, cache, apps, late, pass, memory, history>>

\* The apply installs or upgrades a release and stamps it as its own.
Install(n, r) ==
    /\ work[n].at = "planned"
    /\ r \in work[n].spec
    /\ stamp' = [stamp EXCEPT ![r] = n]
    /\ UNCHANGED <<world, cache, reconciler, pass, memory, history>>

PassEnds(n) ==
    /\ work[n].at # "idle"
    /\ work' = [work EXCEPT ![n] = Idle]
    /\ UNCHANGED <<world, stamp, cache, apps, known, late, pass, memory, history>>

LateInstall(w, r) ==
    /\ r \in w.spec
    /\ stamp' = [stamp EXCEPT ![r] = w.app]
    /\ UNCHANGED <<world, cache, reconciler, pass, memory, history>>

LateEnds(w) ==
    /\ late' = late \ {w}
    /\ UNCHANGED <<world, stamp, cache, apps, known, work, pass, memory, history>>
-----------------------------------------------------------------------------
(* One pass of the loop: Once. *)

\* Mutated: this file is compared with the one before it.
DiffersFromFile(n) == IF before = None THEN apps[n] # file[n] ELSE before[n] # file[n]

\* diff: the file against what is running.
Differs(n) == apps[n] # file[n]

\* A load that fails ends the pass and changes nothing but what is reported.
LoadFails == pc = "idle" /\ file = Bad /\ UNCHANGED vars

Load ==
    /\ pc = "idle"
    /\ file # Bad
    /\ loaded' = file
    /\ todo' = {n \in Names : Differs(n)}
    /\ ok' = TRUE
    /\ pc' = "apply"
    /\ UNCHANGED <<world, stamp, cache, reconciler, confirmed, declared, doomed, swept, left,
                   memory, history>>

Removals == {n \in todo : loaded[n] = None}
Replaces == {n \in todo : loaded[n] # None /\ apps[n] # None}
Adds == {n \in todo : loaded[n] # None /\ apps[n] = None}

\* Remove cancels the application's work and waits for it, up to a bound.
RemoveApp(n, inTime) ==
    /\ pc = "apply"
    /\ n \in Removals
    /\ todo' = todo \ {n}
    /\ apps' = [apps EXCEPT ![n] = None]
    /\ known' = [known EXCEPT ![n] = None]
    /\ work' = [work EXCEPT ![n] = Idle]
    /\ late' = IF inTime \/ work[n].at = "idle" THEN late
               ELSE late \cup {[app |-> n, spec |-> work[n].spec]}
    /\ orphaned' = orphaned \cup {n}
    /\ UNCHANGED <<world, stamp, cache, pc, loaded, ok, confirmed, declared, doomed, swept,
                   left, emptyBefore, pruned, absent, history>>

\* The status stays: it goes on listing what the old spec declared.
ReplaceApp(n) ==
    /\ pc = "apply"
    /\ Removals = {}
    /\ n \in Replaces
    /\ todo' = todo \ {n}
    /\ apps' = [apps EXCEPT ![n] = loaded[n]]
    /\ UNCHANGED <<world, stamp, cache, known, work, late, pc, loaded, ok, confirmed, declared,
                   doomed, swept, left, memory, history>>

\* Mutated: an application that comes back stays listed.
AdoptNot(names, n) == names

\* adopt: an application that comes back is neither orphaned nor pruned.
Adopt(names, n) == names \ {n}

AddApp(n) ==
    /\ pc = "apply"
    /\ Removals = {} /\ Replaces = {}
    /\ n \in Adds
    /\ todo' = todo \ {n}
    /\ apps' = [apps EXCEPT ![n] = loaded[n]]
    /\ orphaned' = Adopt(orphaned, n)
    /\ pruned' = Adopt(pruned, n)
    /\ UNCHANGED <<world, stamp, cache, known, work, late, pc, loaded, ok, confirmed, declared,
                   doomed, swept, left, emptyBefore, absent, history>>

\* credential fails: that application alone is left as it is.
ApplyFails(n) ==
    /\ pc = "apply"
    /\ Removals = {}
    /\ n \in Failing
    /\ IF Replaces # {} THEN n \in Replaces ELSE n \in Adds
    /\ todo' = todo \ {n}
    /\ ok' = FALSE
    /\ UNCHANGED <<world, stamp, cache, reconciler, pc, loaded, confirmed, declared, doomed,
                   swept, left, memory, history>>

\* The sweep is only behind a clean apply.
Applied ==
    /\ pc = "apply"
    /\ todo = {}
    /\ pc' = IF ok THEN "views" ELSE "reclaim"
    /\ UNCHANGED <<world, stamp, cache, reconciler, loaded, todo, ok, confirmed, declared,
                   doomed, swept, left, memory, history>>

\* Mutated: the sweep waits for nobody.
UnreconciledNone == {}

\* Running applications that have not planned.
Unreconciled == {n \in Names : apps[n] # None /\ known[n] = None}

Declared == UNION {known[n] : n \in {m \in Names : apps[m] # None /\ known[m] # None}}

\* Mutated: a set that is not empty does not reset it.
EmptyEver == emptyBefore \/ loaded = Empty

EmptyNow == loaded = Empty

\* pruneDeparted, up to its first gate, over one snapshot of the views.
Views ==
    /\ pc = "views"
    /\ confirmed' = emptyBefore
    /\ emptyBefore' = EmptyNow
    /\ declared' = Declared
    /\ pc' = IF Unreconciled = {} THEN "draining" ELSE "reclaim"
    /\ UNCHANGED <<world, stamp, cache, reconciler, loaded, todo, ok, doomed, swept, left,
                   orphaned, pruned, absent, history>>

\* Mutated: the sweep does not ask who is still working.
DrainingIgnored ==
    /\ pc = "draining"
    /\ pc' = "list"
    /\ UNCHANGED <<world, stamp, cache, reconciler, loaded, todo, ok, confirmed, declared,
                   doomed, swept, left, memory, history>>

DrainingGate ==
    /\ pc = "draining"
    /\ pc' = IF late = {} THEN "list" ELSE "reclaim"
    /\ UNCHANGED <<world, stamp, cache, reconciler, loaded, todo, ok, confirmed, declared,
                   doomed, swept, left, memory, history>>

\* Mutated: only departures this process has seen are swept.
DepartedSeen ==
    {d \in Pairs : /\ stamp[d[2]] = d[1] /\ loaded[d[1]] = None /\ d[2] \notin declared
                   /\ d[1] \in orphaned}

\* departed: stamped for nobody in the set, and listed by nobody in it.
Departed ==
    {d \in Pairs : stamp[d[2]] = d[1] /\ loaded[d[1]] = None /\ d[2] \notin declared}

\* An unconfirmed empty set only lists.
HoldEmpty ==
    /\ pc = "list"
    /\ loaded = Empty /\ ~confirmed
    /\ pc' = "reclaim"
    /\ UNCHANGED <<world, stamp, cache, reconciler, loaded, todo, ok, confirmed, declared,
                   doomed, swept, left, memory, history>>

List ==
    /\ pc = "list"
    /\ loaded # Empty \/ confirmed
    /\ doomed' = Departed
    /\ swept' = {d[1] : d \in Departed}
    /\ pc' = "uninstall"
    /\ UNCHANGED <<world, stamp, cache, reconciler, loaded, todo, ok, confirmed, declared, left,
                   memory, history>>

ListFails ==
    /\ pc = "list"
    /\ pc' = "reclaim"
    /\ UNCHANGED <<world, stamp, cache, reconciler, loaded, todo, ok, confirmed, declared,
                   doomed, swept, left, memory, history>>

\* prune.Release deletes the records last; it may fail before they are gone, or
\* report a failure although they are.
Uninstall(d, gone, told) ==
    /\ pc = "uninstall"
    /\ d \in doomed
    /\ gone => d[2] \notin Own
    /\ doomed' = doomed \ {d}
    /\ stamp' = IF gone THEN [stamp EXCEPT ![d[2]] = None] ELSE stamp
    /\ left' = IF gone /\ told THEN left ELSE left \cup {d}
    /\ UNCHANGED <<world, cache, reconciler, pc, loaded, todo, ok, confirmed, declared, swept,
                   memory, history>>

\* recordPruned: the applications without a failure, and when the swarm can be
\* listed again also those whose failures were no failures.
Swept(relisted) ==
    /\ pc = "uninstall"
    /\ doomed = {}
    /\ LET emptied == {a \in swept : \A d \in left :
                          d[1] = a => relisted /\ stamp[d[2]] = None}
       IN /\ orphaned' = orphaned \ emptied
          /\ pruned' = pruned \cup emptied
    /\ pc' = "reclaim"
    /\ UNCHANGED <<world, stamp, cache, reconciler, loaded, todo, ok, confirmed, declared,
                   doomed, swept, left, emptyBefore, absent, history>>

\* Mutated: every directory is remembered, those of the set included.
RememberedAll(candidates) == cache

\* What reclaim's sweep remembers: the candidates of this sweep, and no others.
Remembered(candidates) == candidates

\* reclaimDeparted and the end of the pass.  A directory that will not go stays
\* a candidate.
Reclaim(removed) ==
    /\ pc = "reclaim"
    /\ LET idle == {n \in cache : apps[n] = None} IN
         /\ removed \subseteq idle \cap absent
         /\ cache' = cache \ removed
         /\ absent' = Remembered(idle \ removed)
    /\ pc' = "idle" /\ loaded' = Empty /\ confirmed' = FALSE
    /\ declared' = {} /\ swept' = {} /\ left' = {}
    /\ before' = loaded
    /\ missed' = {n \in Names : apps[n] = None}
    /\ UNCHANGED <<world, stamp, reconciler, todo, ok, doomed, emptyBefore, orphaned, pruned>>
-----------------------------------------------------------------------------
Environment == Restart \/ \E f \in Sets \cup {Bad} : Edit(f)

ReconcileStep ==
    \/ \E n \in Names : Fetch(n) \/ Plan(n) \/ PassEnds(n) \/ \E r \in Releases : Install(n, r)
    \/ \E w \in late : LateEnds(w) \/ \E r \in Releases : LateInstall(w, r)

ApplyStep ==
    \/ \E n \in Names, inTime \in BOOLEAN : RemoveApp(n, inTime)
    \/ \E n \in Names : ReplaceApp(n) \/ AddApp(n) \/ ApplyFails(n)
    \/ Applied

SweepStep ==
    \/ Views \/ DrainingGate \/ HoldEmpty \/ List \/ ListFails
    \/ \E d \in doomed, gone, told \in BOOLEAN : Uninstall(d, gone, told)
    \/ \E relisted \in BOOLEAN : Swept(relisted)

ReclaimStep == \E removed \in SUBSET cache : Reclaim(removed)

Next == Environment \/ ReconcileStep \/ Load \/ LoadFails \/ ApplyStep \/ SweepStep \/ ReclaimStep

Spec == Init /\ [][Next]_vars
-----------------------------------------------------------------------------
(* Fairness: the loop's timer fires and its steps end; an application's pass *)
(* comes round again; what may fail does not fail for ever.                  *)
Fairness ==
    /\ WF_vars(Load) /\ WF_vars(Applied) /\ WF_vars(Views) /\ WF_vars(DrainingGate)
    /\ WF_vars(HoldEmpty) /\ SF_vars(List) /\ WF_vars(ReclaimStep)
    /\ WF_vars(\E relisted \in BOOLEAN : Swept(relisted))
    /\ \A n \in Names :
         /\ WF_vars(\E inTime \in BOOLEAN : RemoveApp(n, inTime))
         /\ SF_vars(ReplaceApp(n)) /\ SF_vars(AddApp(n))
         /\ WF_vars(Fetch(n)) /\ SF_vars(Plan(n)) /\ WF_vars(PassEnds(n))
         /\ \A r \in Releases : SF_vars(Install(n, r))
    /\ \A a \in Names, r \in Releases : SF_vars(Uninstall(<<a, r>>, TRUE, TRUE))
    /\ \A w \in [app: Names, spec: Specs] : WF_vars(w \in late /\ LateEnds(w))

FairSpec == Spec /\ Fairness
-----------------------------------------------------------------------------
(* Properties. *)

\* A step that stamps no release for an application listed as pruned.
StampForListed == \A r \in Releases : stamp'[r] \in pruned => stamp[r] = stamp'[r]

\* A step that empties only caches of applications out of the set, now and at
\* the sweep before.
GoneTwice == \A n \in cache \ cache' : apps[n] = None /\ n \in missed

\* Loop.pruneDeparted and declared: the sweep never deletes a release an
\* application of the running set declares.
SweepSparesDeclared ==
    \A d \in doomed, n \in Names : apps[n] # None => d[2] \notin apps[n]

\* The gate on Draining and adopt: once an application is reported as pruned,
\* nothing more is installed in its name until it is in the set again.
PrunedStaysGone == [][StampForListed]_stamp

\* emptyBefore: nothing is deleted on the strength of an empty set unless the
\* pass before loaded an empty set too.
EmptySetConfirmed == (doomed # {} /\ loaded = Empty) => before = Empty

\* orphan, adopt and recordPruned: an application is reported as orphaned, as
\* pruned or as running, never as two of them.
HeadingsDisjoint ==
    /\ orphaned \cap pruned = {}
    /\ \A n \in orphaned \cup pruned : apps[n] = None

\* Sweeper.absent: a cache goes only when its application was out of the set at
\* this sweep and at the one before.
CacheGrace == [][GoneTwice]_cache

\* Once: when the file stays readable, the running set comes to equal it.
SetConverges == <>[](file # Bad) => <>[](apps = file)

\* pruneDeparted: when the file stays readable, no release is left stamped for
\* an application that is not in the set, unless it is the controller's own.
DepartedSwept ==
    <>[](file # Bad) =>
        <>[](\A r \in Releases \ Own : stamp[r] # None => apps[stamp[r]] # None)
=============================================================================
