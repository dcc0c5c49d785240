-------------------------- MODULE ReconcilerProofs --------------------------
(***************************************************************************)
(* Proofs about Reconciler, for every set of names, entries, syncs and     *)
(* releases and every bound.                                               *)
(*                                                                         *)
(* The properties of Reconciler are not inductive by themselves.  What     *)
(* carries them is CoreInv: the lease names the one goroutine inside a     *)
(* pass (LeaseInv), the marks of claimInstalls are those of the goroutine  *)
(* that applies (ClaimInv), and an entry out of the set is either still in *)
(* Remove's hands, or cancelled and then either waited for or silent for   *)
(* good (DepartInv).                                                       *)
(***************************************************************************)
EXTENDS Reconciler, TLAPS

-----------------------------------------------------------------------------
(* Type correctness. *)

LEMMA JobType ==
    ASSUME NEW v \in 0..MaxSpec, NEW c \in 0..MaxHead + 1,
           NEW p \in SUBSET Releases, NEW k \in BOOLEAN
    PROVE  Job(v, c, p, k) \in Jobs
BY DEF Job, Jobs

LEMMA JobFields ==
    ASSUME NEW v, NEW c, NEW p, NEW k
    PROVE  /\ Job(v, c, p, k).spec = v /\ Job(v, c, p, k).rev = c
           /\ Job(v, c, p, k).plan = p /\ Job(v, c, p, k).ok = k
BY DEF Job

LEMMA JobsFields ==
    ASSUME NEW j \in Jobs
    PROVE  /\ j.spec \in 0..MaxSpec /\ j.rev \in 0..MaxHead + 1
           /\ j.plan \in SUBSET Releases /\ j.ok \in BOOLEAN
BY DEF Jobs

LEMMA DrainType ==
    ASSUME NEW at \in {"off", "wg", "leases", "stopped"}, NEW E \in SUBSET Entries,
           NEW out \in {"none", "clean", "gave up"}
    PROVE  Drain(at, E, out) \in Drains
BY DEF Drain, Drains

LEMMA DrainFields ==
    ASSUME NEW at, NEW E, NEW out
    PROVE  /\ Drain(at, E, out).pc = at /\ Drain(at, E, out).todo = E
           /\ Drain(at, E, out).report = out
BY DEF Drain

LEMMA DrainsFields ==
    ASSUME NEW d \in Drains
    PROVE  /\ d.pc \in {"off", "wg", "leases", "stopped"} /\ d.todo \in SUBSET Entries
           /\ d.report \in {"none", "clean", "gave up"}
BY DEF Drains

\* A goroutine that is anywhere in a pass has an entry.
LEMMA EntryOfType ==
    ASSUME WorkTypes, NEW w \in Workers, pc[w] # "idle"
    PROVE  EntryOf(w) \in Entries
BY DEF WorkTypes, EntryOf, Workers

LEMMA TypeInit == Init => TypeOK
<1> SUFFICES ASSUME Init PROVE TypeOK
    OBVIOUS
<1> USE ConstantsAssumption DEF Init, Workers
<1>1. SetTypes  BY DEF SetTypes
<1>2. EntryTypes  BY DEF EntryTypes
<1>3. WorkTypes  BY DEF WorkTypes, LoopStates, SyncStates
<1>4. JobTypes
  <2>1. NoJob \in Jobs  BY DEF NoJob, Job, Jobs
  <2> QED BY <2>1 DEF JobTypes
<1>5. ControlTypes  BY DEF ControlTypes, Drain, Drains
<1> QED BY <1>1, <1>2, <1>3, <1>4, <1>5 DEF TypeOK

LEMMA TypeSetStep ==
    ASSUME SetTypes, EntryTypes, WorkTypes, JobTypes, ControlTypes, SetStep
    PROVE  TypeOK'
<1> USE ConstantsAssumption DEF Workers, setVars, entryVars, workVars
<1>1. ASSUME NEW n \in Names, NEW e \in Entries, Add(n, e) PROVE TypeOK'
  <2> USE <1>1 DEF Add
  <2>1. SetTypes'  BY DEF SetTypes
  <2>2. EntryTypes'  BY DEF EntryTypes
  <2>3. WorkTypes'  BY DEF WorkTypes, LoopStates, SyncStates, PassStates, Inside
  <2>4. JobTypes'  BY DEF JobTypes
  <2>5. ControlTypes'  BY DEF ControlTypes
  <2> QED BY <2>1, <2>2, <2>3, <2>4, <2>5 DEF TypeOK
<1>2. ASSUME NEW n \in Names, Replace(n) PROVE TypeOK'
  <2> USE <1>2 DEF Replace, Poke
  <2>1. SetTypes'  BY DEF SetTypes
  <2>2. EntryTypes'
    <3>1. apps[n] \in Entries  BY DEF SetTypes
    <3> QED BY <3>1 DEF EntryTypes
  <2>3. WorkTypes'  BY DEF WorkTypes, LoopStates, SyncStates, PassStates, Inside
  <2>4. JobTypes'  BY DEF JobTypes
  <2>5. ControlTypes'  BY DEF ControlTypes
  <2> QED BY <2>1, <2>2, <2>3, <2>4, <2>5 DEF TypeOK
<1>3. ASSUME NEW n \in Names, RemoveBegin(n) PROVE TypeOK'
  <2> USE <1>3 DEF RemoveBegin
  <2>1. SetTypes'  BY DEF SetTypes
  <2>2. EntryTypes'  BY DEF EntryTypes
  <2>3. WorkTypes'  BY DEF WorkTypes, LoopStates, SyncStates, PassStates, Inside
  <2>4. JobTypes'  BY DEF JobTypes
  <2>5. ControlTypes'
    <3>1. apps[n] \in Entries  BY DEF SetTypes
    <3> QED BY <3>1 DEF ControlTypes
  <2> QED BY <2>1, <2>2, <2>3, <2>4, <2>5 DEF TypeOK
<1>4. CASE RemoveCancel
  <2> USE <1>4 DEF RemoveCancel
  <2>1. SetTypes'  BY DEF SetTypes
  <2>2. EntryTypes'
    <3>1. setter.entry \in Entries  BY DEF ControlTypes
    <3> QED BY <3>1 DEF EntryTypes
  <2>3. WorkTypes'  BY DEF WorkTypes, LoopStates, SyncStates, PassStates, Inside
  <2>4. JobTypes'  BY DEF JobTypes
  <2>5. ControlTypes'  BY DEF ControlTypes
  <2> QED BY <2>1, <2>2, <2>3, <2>4, <2>5 DEF TypeOK
<1>5. CASE RemoveWaitDone
  <2> USE <1>5 DEF RemoveWaitDone
  <2>1. SetTypes'  BY DEF SetTypes
  <2>2. EntryTypes'  BY DEF EntryTypes
  <2>3. WorkTypes'  BY DEF WorkTypes, LoopStates, SyncStates, PassStates, Inside
  <2>4. JobTypes'  BY DEF JobTypes
  <2>5. ControlTypes'  BY DEF ControlTypes
  <2> QED BY <2>1, <2>2, <2>3, <2>4, <2>5 DEF TypeOK
<1>6. CASE RemoveDrained
  <2> USE <1>6 DEF RemoveDrained
  <2>1. SetTypes'  BY DEF SetTypes
  <2>2. EntryTypes'  BY DEF EntryTypes
  <2>3. WorkTypes'  BY DEF WorkTypes, LoopStates, SyncStates, PassStates, Inside
  <2>4. JobTypes'  BY DEF JobTypes
  <2>5. ControlTypes'  BY DEF ControlTypes
  <2> QED BY <2>1, <2>2, <2>3, <2>4, <2>5 DEF TypeOK
<1>7. CASE RemoveTimeout
  <2> USE <1>7 DEF RemoveTimeout
  <2>1. SetTypes'
    <3>1. setter.entry \in Entries  BY DEF ControlTypes
    <3> QED BY <3>1 DEF SetTypes
  <2>2. EntryTypes'  BY DEF EntryTypes
  <2>3. WorkTypes'  BY DEF WorkTypes, LoopStates, SyncStates, PassStates, Inside
  <2>4. JobTypes'  BY DEF JobTypes
  <2>5. ControlTypes'  BY DEF ControlTypes
  <2> QED BY <2>1, <2>2, <2>3, <2>4, <2>5 DEF TypeOK
<1>8. CASE Draining
  <2> USE <1>8 DEF Draining
  <2>1. SetTypes'  BY DEF SetTypes
  <2>2. EntryTypes'  BY DEF EntryTypes
  <2>3. WorkTypes'  BY DEF WorkTypes, LoopStates, SyncStates, PassStates, Inside
  <2>4. JobTypes'  BY DEF JobTypes
  <2>5. ControlTypes'  BY DEF ControlTypes
  <2> QED BY <2>1, <2>2, <2>3, <2>4, <2>5 DEF TypeOK
<1>9. CASE SweepDone
  <2> USE <1>9 DEF SweepDone
  <2>1. SetTypes'  BY DEF SetTypes
  <2>2. EntryTypes'  BY DEF EntryTypes
  <2>3. WorkTypes'  BY DEF WorkTypes, LoopStates, SyncStates, PassStates, Inside
  <2>4. JobTypes'  BY DEF JobTypes
  <2>5. ControlTypes'  BY DEF ControlTypes
  <2> QED BY <2>1, <2>2, <2>3, <2>4, <2>5 DEF TypeOK
<1> QED BY <1>1, <1>2, <1>3, <1>4, <1>5, <1>6, <1>7, <1>8, <1>9 DEF SetStep

LEMMA TypeAcceptSync ==
    ASSUME SetTypes, EntryTypes, WorkTypes, JobTypes, ControlTypes,
           NEW n \in Names, NEW s \in Syncs, AcceptSync(n, s)
    PROVE  TypeOK'
<1> USE ConstantsAssumption DEF Workers, setVars, entryVars, workVars
<1> USE DEF AcceptSync
<1>1. SetTypes'  BY DEF SetTypes
<1>2. EntryTypes'  BY DEF EntryTypes
<1>3. WorkTypes'
  <2>1. apps[n] \in Entries  BY DEF SetTypes
  <2> QED BY <2>1 DEF WorkTypes, SyncStates
<1>4. JobTypes'  BY DEF JobTypes
<1>5. ControlTypes'  BY DEF ControlTypes
<1> QED BY <1>1, <1>2, <1>3, <1>4, <1>5 DEF TypeOK

LEMMA TypeShutdownStep ==
    ASSUME SetTypes, EntryTypes, WorkTypes, JobTypes, ControlTypes, ShutdownStep
    PROVE  TypeOK'
<1> USE ConstantsAssumption DEF Workers, setVars, entryVars, workVars
<1>1. CASE Run
  <2> USE <1>1 DEF Run
  <2>1. SetTypes'  BY DEF SetTypes
  <2>2. EntryTypes'  BY DEF EntryTypes
  <2>3. WorkTypes'  BY DEF WorkTypes, LoopStates, SyncStates, PassStates, Inside
  <2>4. JobTypes'  BY DEF JobTypes
  <2>5. ControlTypes'  BY DEF ControlTypes
  <2> QED BY <2>1, <2>2, <2>3, <2>4, <2>5 DEF TypeOK
<1>2. CASE StopSignal
  <2> USE <1>2 DEF StopSignal
  <2>1. SetTypes'  BY DEF SetTypes
  <2>2. EntryTypes'  BY DEF EntryTypes
  <2>3. WorkTypes'  BY DEF WorkTypes, LoopStates, SyncStates, PassStates, Inside
  <2>4. JobTypes'  BY DEF JobTypes
  <2>5. ControlTypes'  BY DEF ControlTypes
  <2> QED BY <2>1, <2>2, <2>3, <2>4, <2>5 DEF TypeOK
<1>3. CASE ListenerDrained
  <2> USE <1>3 DEF ListenerDrained
  <2>1. SetTypes'  BY DEF SetTypes
  <2>2. EntryTypes'  BY DEF EntryTypes
  <2>3. WorkTypes'  BY DEF WorkTypes, LoopStates, SyncStates, PassStates, Inside
  <2>4. JobTypes'  BY DEF JobTypes
  <2>5. ControlTypes'  BY DEF ControlTypes
  <2> QED BY <2>1, <2>2, <2>3, <2>4, <2>5 DEF TypeOK
<1>4. CASE StopReconciling
  <2> USE <1>4 DEF StopReconciling
  <2>1. SetTypes'  BY DEF SetTypes
  <2>2. EntryTypes'  BY DEF EntryTypes
  <2>3. WorkTypes'  BY DEF WorkTypes, LoopStates, SyncStates, PassStates, Inside
  <2>4. JobTypes'  BY DEF JobTypes
  <2>5. ControlTypes'  BY DEF ControlTypes
  <2> QED BY <2>1, <2>2, <2>3, <2>4, <2>5 DEF TypeOK
<1>5. CASE DrainBegin
  <2> USE <1>5 DEF DrainBegin
  <2>1. SetTypes'  BY DEF SetTypes
  <2>2. EntryTypes'  BY DEF EntryTypes
  <2>3. WorkTypes'  BY DEF WorkTypes, LoopStates, SyncStates, PassStates, Inside
  <2>4. JobTypes'  BY DEF JobTypes
  <2>5. ControlTypes'
    <3>1. shutdown' \in Drains  BY DrainType, DrainsFields DEF ControlTypes
    <3> QED BY <3>1 DEF ControlTypes
  <2> QED BY <2>1, <2>2, <2>3, <2>4, <2>5 DEF TypeOK
<1>6. CASE DrainLoops
  <2> USE <1>6 DEF DrainLoops
  <2>1. SetTypes'  BY DEF SetTypes
  <2>2. EntryTypes'  BY DEF EntryTypes
  <2>3. WorkTypes'  BY DEF WorkTypes, LoopStates, SyncStates, PassStates, Inside
  <2>4. JobTypes'  BY DEF JobTypes
  <2>5. ControlTypes'
    <3>1. shutdown' \in Drains  BY DrainType, DrainsFields DEF ControlTypes
    <3> QED BY <3>1 DEF ControlTypes
  <2> QED BY <2>1, <2>2, <2>3, <2>4, <2>5 DEF TypeOK
<1>7. CASE DrainStopped
  <2> USE <1>7 DEF DrainStopped
  <2>1. SetTypes'  BY DEF SetTypes
  <2>2. EntryTypes'  BY DEF EntryTypes
  <2>3. WorkTypes'  BY DEF WorkTypes, LoopStates, SyncStates, PassStates, Inside
  <2>4. JobTypes'  BY DEF JobTypes
  <2>5. ControlTypes'
    <3>1. shutdown' \in Drains  BY DrainType, DrainsFields DEF ControlTypes
    <3> QED BY <3>1 DEF ControlTypes
  <2> QED BY <2>1, <2>2, <2>3, <2>4, <2>5 DEF TypeOK
<1>8. CASE DrainTimeout
  <2> USE <1>8 DEF DrainTimeout
  <2>1. SetTypes'  BY DEF SetTypes
  <2>2. EntryTypes'  BY DEF EntryTypes
  <2>3. WorkTypes'  BY DEF WorkTypes, LoopStates, SyncStates, PassStates, Inside
  <2>4. JobTypes'  BY DEF JobTypes
  <2>5. ControlTypes'
    <3>1. shutdown' \in Drains  BY DrainType, DrainsFields DEF ControlTypes
    <3> QED BY <3>1 DEF ControlTypes
  <2> QED BY <2>1, <2>2, <2>3, <2>4, <2>5 DEF TypeOK
<1>9. ASSUME NEW e \in Entries, LinkedCancel(e) PROVE TypeOK'
  <2> USE <1>9 DEF LinkedCancel
  <2>1. SetTypes'  BY DEF SetTypes
  <2>2. EntryTypes'  BY DEF EntryTypes
  <2>3. WorkTypes'  BY DEF WorkTypes, LoopStates, SyncStates, PassStates, Inside
  <2>4. JobTypes'  BY DEF JobTypes
  <2>5. ControlTypes'  BY DEF ControlTypes
  <2> QED BY <2>1, <2>2, <2>3, <2>4, <2>5 DEF TypeOK
<1>10. ASSUME NEW e \in Entries, DrainTake(e) PROVE TypeOK'
  <2> USE <1>10 DEF DrainTake
  <2>1. SetTypes'  BY DEF SetTypes
  <2>2. EntryTypes'  BY DEF EntryTypes
  <2>3. WorkTypes'  BY DEF WorkTypes, LoopStates, SyncStates, PassStates, Inside
  <2>4. JobTypes'  BY DEF JobTypes
  <2>5. ControlTypes'
    <3>1. shutdown' \in Drains  BY DrainType, DrainsFields DEF ControlTypes
    <3> QED BY <3>1 DEF ControlTypes
  <2> QED BY <2>1, <2>2, <2>3, <2>4, <2>5 DEF TypeOK
<1> QED BY <1>1, <1>2, <1>3, <1>4, <1>5, <1>6, <1>7, <1>8, <1>9, <1>10 DEF ShutdownStep

LEMMA TypeAcquire ==
    ASSUME SetTypes, EntryTypes, WorkTypes, JobTypes, ControlTypes, NEW w \in Workers, Acquire(w)
    PROVE  TypeOK'
<1> USE ConstantsAssumption DEF Workers, setVars, entryVars, workVars
<1>1. CASE TakeLease(w)
  <2> USE <1>1 DEF TakeLease
  <2>1. SetTypes'  BY DEF SetTypes
  <2>2. EntryTypes'  BY DEF EntryTypes
  <2>3. WorkTypes'  BY DEF WorkTypes, LoopStates, SyncStates, PassStates, Inside
  <2>4. JobTypes'  BY DEF JobTypes
  <2>5. ControlTypes'  BY DEF ControlTypes
  <2> QED BY <2>1, <2>2, <2>3, <2>4, <2>5 DEF TypeOK
<1>2. CASE Abandon(w)
  <2> USE <1>2 DEF Abandon
  <2>1. SetTypes'  BY DEF SetTypes
  <2>2. EntryTypes'  BY DEF EntryTypes
  <2>3. WorkTypes'  BY DEF WorkTypes, LoopStates, SyncStates, PassStates, Inside
  <2>4. JobTypes'  BY DEF JobTypes
  <2>5. ControlTypes'  BY DEF ControlTypes
  <2> QED BY <2>1, <2>2, <2>3, <2>4, <2>5 DEF TypeOK
<1>3. CASE Recheck(w)
  <2> USE <1>3 DEF Recheck, Freed
  <2>1. SetTypes'  BY DEF SetTypes
  <2>2. EntryTypes'  BY DEF EntryTypes
  <2>3. WorkTypes'  BY DEF WorkTypes, LoopStates, SyncStates, PassStates, Inside
  <2>4. JobTypes'  BY DEF JobTypes
  <2>5. ControlTypes'  BY DEF ControlTypes
  <2> QED BY <2>1, <2>2, <2>3, <2>4, <2>5 DEF TypeOK
<1> QED BY <1>1, <1>2, <1>3 DEF Acquire

LEMMA TypePass ==
    ASSUME SetTypes, EntryTypes, WorkTypes, JobTypes, ControlTypes, NEW w \in Workers, Pass(w)
    PROVE  TypeOK'
<1> USE ConstantsAssumption DEF Workers, setVars, entryVars, workVars
<1>1. CASE ReadSpec(w)
  <2> USE <1>1 DEF ReadSpec
  <2>1. SetTypes'  BY DEF SetTypes
  <2>2. EntryTypes'  BY DEF EntryTypes
  <2>3. WorkTypes'  BY DEF WorkTypes, LoopStates, SyncStates, PassStates, Inside
  <2>4. JobTypes'
    <3>1. EntryOf(w) \in Entries  BY EntryOfType
    <3>2. (IF Current(EntryOf(w)) THEN spec[EntryOf(w)] ELSE 0) \in 0..MaxSpec
      BY <3>1 DEF EntryTypes
    <3>3. Job(IF Current(EntryOf(w)) THEN spec[EntryOf(w)] ELSE 0, 0, {}, TRUE) \in Jobs
      BY <3>2 DEF Job, Jobs
    <3> QED BY <3>3 DEF JobTypes
  <2>5. ControlTypes'  BY DEF ControlTypes
  <2> QED BY <2>1, <2>2, <2>3, <2>4, <2>5 DEF TypeOK
<1>2. CASE Fetch(w)
  <2> USE <1>2 DEF Fetch
  <2>1. SetTypes'  BY DEF SetTypes
  <2>2. EntryTypes'  BY DEF EntryTypes
  <2>3. WorkTypes'  BY DEF WorkTypes, LoopStates, SyncStates, PassStates, Inside
  <2>4. JobTypes'
    <3>1. head \in 0..MaxHead + 1  BY DEF ControlTypes
    <3>2. job[w].spec \in 0..MaxSpec  BY JobsFields DEF JobTypes
    <3>3. Job(job[w].spec, head, {}, TRUE) \in Jobs  BY <3>1, <3>2, JobType
    <3> QED BY <3>3 DEF JobTypes
  <2>5. ControlTypes'  BY DEF ControlTypes
  <2> QED BY <2>1, <2>2, <2>3, <2>4, <2>5 DEF TypeOK
<1>3. CASE FetchFails(w)
  <2> USE <1>3 DEF FetchFails, Fail
  <2>1. SetTypes'  BY DEF SetTypes
  <2>2. EntryTypes'  BY DEF EntryTypes
  <2>3. WorkTypes'  BY DEF WorkTypes, LoopStates, SyncStates, PassStates, Inside
  <2>4. JobTypes'
    <3>1. job[w] \in Jobs  BY DEF JobTypes
    <3>2. Job(job[w].spec, job[w].rev, job[w].plan, FALSE) \in Jobs
      BY <3>1, JobsFields, JobType
    <3> QED BY <3>2 DEF JobTypes
  <2>5. ControlTypes'  BY DEF ControlTypes
  <2> QED BY <2>1, <2>2, <2>3, <2>4, <2>5 DEF TypeOK
<1>4. ASSUME NEW installs \in SUBSET Releases, NEW c \in Changes, Observe(w, installs, c) PROVE TypeOK'
  <2> USE <1>4 DEF Observe
  <2>1. SetTypes'  BY DEF SetTypes
  <2>2. EntryTypes'
    <3>1. EntryOf(w) \in Entries  BY EntryOfType
    <3>2. job[w].spec \in 0..MaxSpec /\ job[w].rev \in 0..MaxHead + 1
      BY JobsFields DEF JobTypes
    <3> QED BY <3>1, <3>2 DEF EntryTypes
  <2>3. WorkTypes'  BY DEF WorkTypes, LoopStates, SyncStates, PassStates, Inside
  <2>4. JobTypes'
    <3>1. job[w] \in Jobs  BY DEF JobTypes
    <3>2. Job(job[w].spec, job[w].rev, installs, TRUE) \in Jobs
      BY <3>1, JobsFields, JobType
    <3> QED BY <3>2 DEF JobTypes
  <2>5. ControlTypes'  BY DEF ControlTypes
  <2> QED BY <2>1, <2>2, <2>3, <2>4, <2>5 DEF TypeOK
<1>5. CASE ClaimInstalls(w)
  <2> USE <1>5 DEF ClaimInstalls
  <2>1. SetTypes'
    <3>1. job[w].plan \in SUBSET Releases  BY JobsFields DEF JobTypes
    <3> QED BY <3>1 DEF SetTypes
  <2>2. EntryTypes'  BY DEF EntryTypes
  <2>3. WorkTypes'  BY DEF WorkTypes, LoopStates, SyncStates, PassStates, Inside
  <2>4. JobTypes'  BY DEF JobTypes
  <2>5. ControlTypes'  BY DEF ControlTypes
  <2> QED BY <2>1, <2>2, <2>3, <2>4, <2>5 DEF TypeOK
<1>6. CASE ClaimRefused(w)
  <2> USE <1>6 DEF ClaimRefused, Fail
  <2>1. SetTypes'  BY DEF SetTypes
  <2>2. EntryTypes'  BY DEF EntryTypes
  <2>3. WorkTypes'  BY DEF WorkTypes, LoopStates, SyncStates, PassStates, Inside
  <2>4. JobTypes'
    <3>1. job[w] \in Jobs  BY DEF JobTypes
    <3>2. Job(job[w].spec, job[w].rev, job[w].plan, FALSE) \in Jobs
      BY <3>1, JobsFields, JobType
    <3> QED BY <3>2 DEF JobTypes
  <2>5. ControlTypes'  BY DEF ControlTypes
  <2> QED BY <2>1, <2>2, <2>3, <2>4, <2>5 DEF TypeOK
<1>7. CASE ApplyDone(w)
  <2> USE <1>7 DEF ApplyDone
  <2>1. SetTypes'  BY DEF SetTypes
  <2>2. EntryTypes'
    <3>1. job[w].rev \in 0..MaxHead + 1  BY JobsFields DEF JobTypes
    <3>2. (IF job[w].spec \in Flaky THEN job[w].rev ELSE 0) \in 0..MaxHead + 1  BY <3>1
    <3> QED BY <3>2 DEF EntryTypes
  <2>3. WorkTypes'  BY DEF WorkTypes, LoopStates, SyncStates, PassStates, Inside
  <2>4. JobTypes'  BY DEF JobTypes
  <2>5. ControlTypes'  BY DEF ControlTypes
  <2> QED BY <2>1, <2>2, <2>3, <2>4, <2>5 DEF TypeOK
<1>8. CASE ApplyFails(w)
  <2> USE <1>8 DEF ApplyFails, Fail
  <2>1. SetTypes'  BY DEF SetTypes
  <2>2. EntryTypes'  BY DEF EntryTypes
  <2>3. WorkTypes'  BY DEF WorkTypes, LoopStates, SyncStates, PassStates, Inside
  <2>4. JobTypes'
    <3>1. job[w] \in Jobs  BY DEF JobTypes
    <3>2. Job(job[w].spec, job[w].rev, job[w].plan, FALSE) \in Jobs
      BY <3>1, JobsFields, JobType
    <3> QED BY <3>2 DEF JobTypes
  <2>5. ControlTypes'  BY DEF ControlTypes
  <2> QED BY <2>1, <2>2, <2>3, <2>4, <2>5 DEF TypeOK
<1>9. CASE ReleaseLease(w)
  <2> USE <1>9 DEF ReleaseLease, Freed
  <2>1. SetTypes'  BY DEF SetTypes
  <2>2. EntryTypes'  BY DEF EntryTypes
  <2>3. WorkTypes'  BY DEF WorkTypes, LoopStates, SyncStates, PassStates, Inside
  <2>4. JobTypes'
    <3>1. NoJob \in Jobs  BY DEF NoJob, Job, Jobs
    <3> QED BY <3>1 DEF JobTypes
  <2>5. ControlTypes'  BY DEF ControlTypes
  <2> QED BY <2>1, <2>2, <2>3, <2>4, <2>5 DEF TypeOK
<1> QED BY <1>1, <1>2, <1>3, <1>4, <1>5, <1>6, <1>7, <1>8, <1>9 DEF Pass

LEMMA TypeLoopStep ==
    ASSUME SetTypes, EntryTypes, WorkTypes, JobTypes, ControlTypes, NEW e \in Entries, LoopStep(e)
    PROVE  TypeOK'
<1> USE ConstantsAssumption DEF Workers, setVars, entryVars, workVars
<1>1. CASE Tick(e)
  <2> USE <1>1 DEF Tick, Proceed
  <2>1. SetTypes'  BY DEF SetTypes
  <2>2. EntryTypes'  BY DEF EntryTypes
  <2>3. WorkTypes'  BY DEF WorkTypes, LoopStates, SyncStates, PassStates, Inside
  <2>4. JobTypes'  BY DEF JobTypes
  <2>5. ControlTypes'  BY DEF ControlTypes
  <2> QED BY <2>1, <2>2, <2>3, <2>4, <2>5 DEF TypeOK
<1>2. CASE Woken(e)
  <2> USE <1>2 DEF Woken, Proceed
  <2>1. SetTypes'  BY DEF SetTypes
  <2>2. EntryTypes'  BY DEF EntryTypes
  <2>3. WorkTypes'  BY DEF WorkTypes, LoopStates, SyncStates, PassStates, Inside
  <2>4. JobTypes'  BY DEF JobTypes
  <2>5. ControlTypes'  BY DEF ControlTypes
  <2> QED BY <2>1, <2>2, <2>3, <2>4, <2>5 DEF TypeOK
<1>3. CASE LoopStop(e)
  <2> USE <1>3 DEF LoopStop
  <2>1. SetTypes'  BY DEF SetTypes
  <2>2. EntryTypes'  BY DEF EntryTypes
  <2>3. WorkTypes'  BY DEF WorkTypes, LoopStates, SyncStates, PassStates, Inside
  <2>4. JobTypes'  BY DEF JobTypes
  <2>5. ControlTypes'  BY DEF ControlTypes
  <2> QED BY <2>1, <2>2, <2>3, <2>4, <2>5 DEF TypeOK
<1>4. CASE LoopRefused(e)
  <2> USE <1>4 DEF LoopRefused
  <2>1. SetTypes'  BY DEF SetTypes
  <2>2. EntryTypes'  BY DEF EntryTypes
  <2>3. WorkTypes'  BY DEF WorkTypes, LoopStates, SyncStates, PassStates, Inside
  <2>4. JobTypes'  BY DEF JobTypes
  <2>5. ControlTypes'  BY DEF ControlTypes
  <2> QED BY <2>1, <2>2, <2>3, <2>4, <2>5 DEF TypeOK
<1>5. CASE NoteFailure(e)
  <2> USE <1>5 DEF NoteFailure, Counted
  <2>1. SetTypes'  BY DEF SetTypes
  <2>2. EntryTypes'  BY DEF EntryTypes
  <2>3. WorkTypes'  BY DEF WorkTypes, LoopStates, SyncStates, PassStates, Inside
  <2>4. JobTypes'
    <3>1. job[e].spec \in 0..MaxSpec  BY JobsFields DEF JobTypes
    <3>2. Job(job[e].spec, 0, {}, TRUE) \in Jobs  BY <3>1 DEF Job, Jobs
    <3> QED BY <3>2 DEF JobTypes
  <2>5. ControlTypes'  BY DEF ControlTypes
  <2> QED BY <2>1, <2>2, <2>3, <2>4, <2>5 DEF TypeOK
<1> QED BY <1>1, <1>2, <1>3, <1>4, <1>5 DEF LoopStep

LEMMA TypeSyncStep ==
    ASSUME SetTypes, EntryTypes, WorkTypes, JobTypes, ControlTypes, NEW s \in Syncs, SyncStep(s)
    PROVE  TypeOK'
<1> USE ConstantsAssumption DEF Workers, setVars, entryVars, workVars
<1>1. CASE SyncStart(s)
  <2> USE <1>1 DEF SyncStart
  <2>1. SetTypes'  BY DEF SetTypes
  <2>2. EntryTypes'  BY DEF EntryTypes
  <2>3. WorkTypes'  BY DEF WorkTypes, LoopStates, SyncStates, PassStates, Inside
  <2>4. JobTypes'  BY DEF JobTypes
  <2>5. ControlTypes'  BY DEF ControlTypes
  <2> QED BY <2>1, <2>2, <2>3, <2>4, <2>5 DEF TypeOK
<1>2. CASE Unpend(s)
  <2> USE <1>2 DEF Unpend
  <2>1. SetTypes'  BY DEF SetTypes
  <2>2. EntryTypes'  BY DEF EntryTypes
  <2>3. WorkTypes'  BY DEF WorkTypes, LoopStates, SyncStates, PassStates, Inside
  <2>4. JobTypes'  BY DEF JobTypes
  <2>5. ControlTypes'  BY DEF ControlTypes
  <2> QED BY <2>1, <2>2, <2>3, <2>4, <2>5 DEF TypeOK
<1>3. CASE SyncRefused(s)
  <2> USE <1>3 DEF SyncRefused
  <2>1. SetTypes'  BY DEF SetTypes
  <2>2. EntryTypes'  BY DEF EntryTypes
  <2>3. WorkTypes'  BY DEF WorkTypes, LoopStates, SyncStates, PassStates, Inside
  <2>4. JobTypes'  BY DEF JobTypes
  <2>5. ControlTypes'  BY DEF ControlTypes
  <2> QED BY <2>1, <2>2, <2>3, <2>4, <2>5 DEF TypeOK
<1>4. CASE Reserve(s)
  <2> USE <1>4 DEF Reserve
  <2>1. SetTypes'  BY DEF SetTypes
  <2>2. EntryTypes'  BY DEF EntryTypes
  <2>3. WorkTypes'  BY DEF WorkTypes, LoopStates, SyncStates, PassStates, Inside
  <2>4. JobTypes'  BY DEF JobTypes
  <2>5. ControlTypes'  BY DEF ControlTypes
  <2> QED BY <2>1, <2>2, <2>3, <2>4, <2>5 DEF TypeOK
<1>5. CASE Coalesce(s)
  <2> USE <1>5 DEF Coalesce
  <2>1. SetTypes'  BY DEF SetTypes
  <2>2. EntryTypes'  BY DEF EntryTypes
  <2>3. WorkTypes'  BY DEF WorkTypes, LoopStates, SyncStates, PassStates, Inside
  <2>4. JobTypes'
    <3>1. head \in 0..MaxHead + 1  BY DEF ControlTypes
    <3> QED BY <3>1 DEF JobTypes
  <2>5. ControlTypes'  BY DEF ControlTypes
  <2> QED BY <2>1, <2>2, <2>3, <2>4, <2>5 DEF TypeOK
<1> QED BY <1>1, <1>2, <1>3, <1>4, <1>5 DEF SyncStep

LEMMA TypeNext == TypeOK /\ [Next]_vars => TypeOK'
<1> SUFFICES ASSUME SetTypes, EntryTypes, WorkTypes, JobTypes, ControlTypes, [Next]_vars
             PROVE  TypeOK'
    BY DEF TypeOK
<1>1. CASE SetStep  BY <1>1, TypeSetStep
<1>2. ASSUME NEW n \in Names, NEW s \in Syncs, AcceptSync(n, s) PROVE TypeOK'
  BY <1>2, TypeAcceptSync
<1>3. CASE ShutdownStep  BY <1>3, TypeShutdownStep
<1>4. ASSUME NEW w \in Workers, Acquire(w) PROVE TypeOK'  BY <1>4, TypeAcquire
<1>5. ASSUME NEW w \in Workers, Pass(w) PROVE TypeOK'  BY <1>5, TypePass
<1>6. ASSUME NEW e \in Entries, LoopStep(e) PROVE TypeOK'  BY <1>6, TypeLoopStep
<1>7. ASSUME NEW s \in Syncs, SyncStep(s) PROVE TypeOK'  BY <1>7, TypeSyncStep
<1>8. CASE Push
  <2> USE <1>8, ConstantsAssumption DEF Push, setVars, entryVars, workVars
  <2>1. SetTypes' /\ EntryTypes'  BY DEF SetTypes, EntryTypes
  <2>2. WorkTypes' /\ JobTypes'  BY DEF WorkTypes, JobTypes
  <2>3. ControlTypes'  BY DEF ControlTypes
  <2> QED BY <2>1, <2>2, <2>3 DEF TypeOK
<1>9. CASE UNCHANGED vars
  <2> USE <1>9 DEF vars, setVars, entryVars, workVars
  <2>1. SetTypes' /\ EntryTypes'  BY DEF SetTypes, EntryTypes
  <2>2. WorkTypes' /\ JobTypes'  BY DEF WorkTypes, JobTypes
  <2>3. ControlTypes'  BY DEF ControlTypes
  <2> QED BY <2>1, <2>2, <2>3 DEF TypeOK
<1> QED BY <1>1, <1>2, <1>3, <1>4, <1>5, <1>6, <1>7, <1>8, <1>9 DEF Next, Terminated

\* Every reachable state of the reconciler is well typed; in particular no
\* goroutine is ever in a pass without an entry, and Remove never waits on nothing.
THEOREM TypeCorrect == Spec => []TypeOK
BY TypeInit, TypeNext, PTL DEF Spec

-----------------------------------------------------------------------------
(* The inductive invariant. *)

\* Names and entries agree, and work is only ever done for an entry in use.
MemberInv ==
    /\ \A n \in Names : apps[n] # None => name[apps[n]] = n
    /\ \A e \in Entries : pc[e] # "off" => name[e] # None
    /\ \A s \in Syncs : pc[s] # "idle" => name[target[s]] # None

\* Whoever is between taking a lease and giving it back is its holder.
LeaseInv == \A w \in Workers : pc[w] \in Holding => held[EntryOf(w)] = w

\* An apply's releases are marked, and no two entries' marks collide.
ClaimInv ==
    /\ \A w \in Workers : pc[w] = "apply" => installing[EntryOf(w)] = job[w].plan
    /\ \A e, f \in Entries : e # f =>
         \A r \in installing[e], q \in installing[f] : <<r, q>> \notin Collide

\* Past acquire's second check.
Admitted == Inside \cup {"unpend"}

Quiet(e) == \A w \in Workers : pc[w] \in Admitted => EntryOf(w) # e

InRemove(e) == setter.pc \in {"cancel", "waitdone", "drain"} /\ setter.entry = e

DepartInv ==
    /\ \A e \in Entries : (name[e] # None /\ ~Current(e)) =>
         \/ InRemove(e)
         \/ e \in cancelled /\ (e \in retiring \/ Quiet(e))
    /\ setter.pc \in {"waitdone", "drain"} => setter.entry \in cancelled
    /\ setter.pc = "sweep" => retiring = {}
-----------------------------------------------------------------------------
(* What the steps of each goroutine leave alone. *)

LEMMA SetFrame ==
    ASSUME SetStep
    PROVE  \/ \E n \in Names, e \in Entries : Add(n, e)
           \/ \E n \in Names : Replace(n)
           \/ UNCHANGED <<installing, root, name, held, pending, wake, spec, unstable, status,
                           pc, target, job, promise, shutdown, api, head>>
BY DEF SetStep, RemoveBegin, RemoveCancel, RemoveWaitDone, RemoveDrained, RemoveTimeout,
       Draining, SweepDone, setVars, entryVars, workVars

LEMMA ShutdownFrame ==
    ASSUME ShutdownStep
    PROVE  \/ Run
           \/ \E e \in Entries : DrainTake(e)
           \/ UNCHANGED <<apps, retiring, installing, name, held, pending, wake, spec, unstable,
                           status, pc, target, job, promise, setter, head>>
BY DEF ShutdownStep, StopSignal, ListenerDrained, StopReconciling, DrainBegin, DrainLoops,
       DrainStopped, DrainTimeout, LinkedCancel, setVars, entryVars, workVars

\* Outside its passes a loop moves only between waiting, queueing and the end.
LEMMA LoopFrame ==
    ASSUME NEW e \in Entries, LoopStep(e)
    PROVE  /\ pc[e] \in {"select", "refused", "note"}
           /\ \E x \in {"queued", "refused", "exited", "select"} : pc' = [pc EXCEPT ![e] = x]
           /\ UNCHANGED <<apps, retiring, installing, root, name, cancelled, held, pending, spec,
                           unstable, status, target, promise, setter, shutdown, api, head>>
<1> USE DEF setVars, entryVars, workVars
<1>1. CASE Tick(e)  BY <1>1 DEF Tick, Proceed
<1>2. CASE Woken(e)  BY <1>2 DEF Woken, Proceed
<1>3. CASE LoopStop(e)  BY <1>3 DEF LoopStop
<1>4. CASE LoopRefused(e)  BY <1>4 DEF LoopRefused
<1>5. CASE NoteFailure(e)  BY <1>5 DEF NoteFailure
<1> QED BY <1>1, <1>2, <1>3, <1>4, <1>5 DEF LoopStep

\* Inside a pass a goroutine moves only between the stages of the pass, until
\* it gives the lease back.
LEMMA PassFrame ==
    ASSUME NEW w \in Workers, Pass(w)
    PROVE  \/ ReleaseLease(w)
           \/ /\ pc[w] \in Inside
              /\ \E x \in Inside : pc' = [pc EXCEPT ![w] = x]
              /\ UNCHANGED <<apps, retiring, root, name, cancelled, held, pending, wake, spec,
                              target, promise, setter, shutdown, api, head>>
<1> USE DEF setVars, entryVars, workVars, Inside
<1>1. CASE ReadSpec(w) \/ Fetch(w) \/ FetchFails(w)
  BY <1>1 DEF ReadSpec, Fetch, FetchFails, Fail
<1>2. CASE \E installs \in SUBSET Releases, c \in Changes : Observe(w, installs, c)
  BY <1>2 DEF Observe
<1>3. CASE ClaimInstalls(w) \/ ClaimRefused(w)
  BY <1>3 DEF ClaimInstalls, ClaimRefused, Fail
<1>4. CASE ApplyDone(w) \/ ApplyFails(w)
  BY <1>4 DEF ApplyDone, ApplyFails, Fail
<1> QED BY <1>1, <1>2, <1>3, <1>4 DEF Pass
-----------------------------------------------------------------------------
(* The lease. *)

LEMMA LeaseNext == ASSUME TypeOK, LeaseInv, [Next]_vars PROVE LeaseInv'
<1>0. WorkTypes /\ EntryTypes  BY DEF TypeOK
<1> USE <1>0, ConstantsAssumption
    DEF LeaseInv, Holding, Inside, EntryOf, Workers, vars, setVars, entryVars, workVars
<1>1. CASE UNCHANGED <<pc, held, target>>
  BY <1>1
<1>2. CASE SetStep
  <2>1. ASSUME NEW n \in Names, NEW e \in Entries, Add(n, e) PROVE LeaseInv'
    BY <2>1 DEF Add, WorkTypes
  <2>2. ASSUME NEW n \in Names, Replace(n) PROVE LeaseInv'
    BY <2>2, <1>1 DEF Replace
  <2> QED BY <1>1, <1>2, <2>1, <2>2, SetFrame
<1>3. ASSUME NEW n \in Names, NEW s \in Syncs, AcceptSync(n, s) PROVE LeaseInv'
  BY <1>3 DEF AcceptSync, WorkTypes
<1>4. CASE ShutdownStep
  <2>1. CASE Run
    BY <2>1 DEF Run, WorkTypes
  <2>2. ASSUME NEW e \in Entries, DrainTake(e) PROVE LeaseInv'
    BY <2>2 DEF DrainTake, Busy, EntryTypes
  <2> QED BY <1>1, <1>4, <2>1, <2>2, ShutdownFrame
<1>5. ASSUME NEW w \in Workers, TakeLease(w) PROVE LeaseInv'
  BY <1>5 DEF TakeLease, Busy, EntryTypes, WorkTypes
<1>6. ASSUME NEW w \in Workers, Abandon(w) PROVE LeaseInv'
  BY <1>6 DEF Abandon, WorkTypes
<1>7. ASSUME NEW w \in Workers, Recheck(w) PROVE LeaseInv'
  BY <1>7 DEF Recheck, Freed, WorkTypes, EntryTypes
<1>8. ASSUME NEW w \in Workers, Pass(w) PROVE LeaseInv'
  <2>1. CASE ReleaseLease(w)
    BY <2>1 DEF ReleaseLease, Freed, WorkTypes, EntryTypes
  <2>2. CASE ~ReleaseLease(w)
    BY <1>8, <2>2, PassFrame DEF WorkTypes
  <2> QED BY <2>1, <2>2
<1>9. ASSUME NEW e \in Entries, LoopStep(e) PROVE LeaseInv'
  BY <1>9, LoopFrame DEF WorkTypes
<1>10. ASSUME NEW s \in Syncs, SyncStep(s) PROVE LeaseInv'
  BY <1>10 DEF SyncStep, Reserve, Coalesce, SyncStart, Unpend, SyncRefused, WorkTypes
<1>11. CASE Push \/ UNCHANGED vars
  BY <1>11, <1>1 DEF Push
<1> QED
  BY <1>2, <1>3, <1>4, <1>5, <1>6, <1>7, <1>8, <1>9, <1>10, <1>11 DEF Next, Acquire, Terminated
-----------------------------------------------------------------------------
(* Names and entries. *)

LEMMA MemberNext == ASSUME TypeOK, MemberInv, [Next]_vars PROVE MemberInv'
<1>0. SetTypes /\ EntryTypes /\ WorkTypes  BY DEF TypeOK
<1> USE <1>0, ConstantsAssumption
    DEF MemberInv, Workers, vars, setVars, entryVars, workVars
<1>1. CASE UNCHANGED <<apps, name, pc, target>>
  BY <1>1
<1>2. CASE SetStep
  <2>1. ASSUME NEW n \in Names, NEW e \in Entries, Add(n, e) PROVE MemberInv'
    BY <2>1 DEF Add, SetTypes, EntryTypes, WorkTypes
  <2>2. ASSUME NEW n \in Names, Replace(n) PROVE MemberInv'
    BY <2>2, <1>1 DEF Replace
  <2>3. ASSUME NEW n \in Names, RemoveBegin(n) PROVE MemberInv'
    BY <2>3 DEF RemoveBegin, SetTypes
  <2>4. CASE UNCHANGED <<apps, name, pc, target>>
    BY <2>4, <1>1
  <2> QED
    BY <1>2, <2>1, <2>2, <2>3, <2>4
    DEF SetStep, RemoveCancel, RemoveWaitDone, RemoveDrained, RemoveTimeout, Draining, SweepDone
<1>3. ASSUME NEW n \in Names, NEW s \in Syncs, AcceptSync(n, s) PROVE MemberInv'
  BY <1>3 DEF AcceptSync, SetTypes, WorkTypes
<1>4. CASE ShutdownStep
  <2>1. CASE Run
    BY <2>1 DEF Run, WorkTypes, Current
  <2>2. ASSUME NEW e \in Entries, DrainTake(e) PROVE MemberInv'
    BY <2>2, <1>1 DEF DrainTake
  <2> QED BY <1>1, <1>4, <2>1, <2>2, ShutdownFrame
<1>5. ASSUME NEW w \in Workers, Acquire(w) PROVE MemberInv'
  BY <1>5 DEF Acquire, TakeLease, Abandon, Recheck, WorkTypes
<1>6. ASSUME NEW w \in Workers, Pass(w) PROVE MemberInv'
  <2>1. CASE ReleaseLease(w)
    BY <2>1 DEF ReleaseLease, WorkTypes
  <2>2. CASE ~ReleaseLease(w)
    BY <1>6, <2>2, PassFrame DEF WorkTypes, Inside
  <2> QED BY <2>1, <2>2
<1>7. ASSUME NEW e \in Entries, LoopStep(e) PROVE MemberInv'
  BY <1>7, LoopFrame DEF WorkTypes
<1>8. ASSUME NEW s \in Syncs, SyncStep(s) PROVE MemberInv'
  BY <1>8 DEF SyncStep, Reserve, Coalesce, SyncStart, Unpend, SyncRefused, WorkTypes
<1>9. CASE Push \/ UNCHANGED vars
  BY <1>9, <1>1 DEF Push
<1> QED
  BY <1>2, <1>3, <1>4, <1>5, <1>6, <1>7, <1>8, <1>9 DEF Next, Terminated
-----------------------------------------------------------------------------
(* The marks of claimInstalls. *)

LEMMA ClaimNext == ASSUME TypeOK, LeaseInv, ClaimInv, [Next]_vars PROVE ClaimInv'
<1>0. SetTypes /\ EntryTypes /\ WorkTypes /\ JobTypes  BY DEF TypeOK
<1> USE <1>0, ConstantsAssumption
    DEF ClaimInv, EntryOf, Workers, vars, setVars, entryVars, workVars
<1>1. CASE UNCHANGED <<installing, pc, target, job>>
  BY <1>1
<1>2. CASE SetStep
  <2>1. ASSUME NEW n \in Names, NEW e \in Entries, Add(n, e) PROVE ClaimInv'
    BY <2>1 DEF Add, WorkTypes
  <2>2. ASSUME NEW n \in Names, Replace(n) PROVE ClaimInv'
    BY <2>2, <1>1 DEF Replace
  <2> QED BY <1>1, <1>2, <2>1, <2>2, SetFrame
<1>3. ASSUME NEW n \in Names, NEW s \in Syncs, AcceptSync(n, s) PROVE ClaimInv'
  BY <1>3 DEF AcceptSync, WorkTypes
<1>4. CASE ShutdownStep
  <2>1. CASE Run
    BY <2>1 DEF Run, WorkTypes
  <2>2. ASSUME NEW e \in Entries, DrainTake(e) PROVE ClaimInv'
    BY <2>2, <1>1 DEF DrainTake
  <2> QED BY <1>1, <1>4, <2>1, <2>2, ShutdownFrame
<1>5. ASSUME NEW w \in Workers, Acquire(w) PROVE ClaimInv'
  BY <1>5 DEF Acquire, TakeLease, Abandon, Recheck, WorkTypes
<1>6. ASSUME NEW w \in Workers, ReadSpec(w) \/ Fetch(w) \/ FetchFails(w) PROVE ClaimInv'
  BY <1>6 DEF ReadSpec, Fetch, FetchFails, Fail, WorkTypes, JobTypes
<1>7. ASSUME NEW w \in Workers, NEW installs \in SUBSET Releases, NEW c \in Changes,
             Observe(w, installs, c)
      PROVE  ClaimInv'
  BY <1>7 DEF Observe, WorkTypes, JobTypes
<1>8. ASSUME NEW w \in Workers, ClaimInstalls(w) PROVE ClaimInv'
  <2> DEFINE e == EntryOf(w)
  <2>1. e \in Entries  BY <1>8, EntryOfType DEF ClaimInstalls
  <2>2. \A x \in Workers : (x # w /\ pc[x] = "apply") => EntryOf(x) # e
    BY <1>8 DEF ClaimInstalls, LeaseInv, Holding, Inside
  <2>3. \A x \in Workers : pc'[x] = "apply" => installing'[EntryOf(x)'] = job'[x].plan
    BY <1>8, <2>1, <2>2 DEF ClaimInstalls, WorkTypes, SetTypes
  <2>4. ASSUME NEW f \in Entries, NEW g \in Entries, f # g,
               NEW r \in installing'[f], NEW q \in installing'[g]
        PROVE  <<r, q>> \notin Collide
    <3>1. CASE f # e /\ g # e
      BY <1>8, <2>4, <3>1 DEF ClaimInstalls, SetTypes
    <3>2. CASE f = e
      BY <1>8, <2>1, <2>4, <3>2 DEF ClaimInstalls, SetTypes, Contested
    <3>3. CASE g = e
      <4>1. r \in installing[f] /\ q \in job[w].plan
        BY <1>8, <2>1, <2>4, <3>3 DEF ClaimInstalls, SetTypes
      <4>2. <<q, r>> \notin Collide
        BY <1>8, <4>1 DEF ClaimInstalls, Contested
      <4> QED BY <4>2, ConstantsAssumption
    <3> QED BY <3>1, <3>2, <3>3
  <2> QED BY <2>3, <2>4
<1>9. ASSUME NEW w \in Workers, ClaimRefused(w) \/ ApplyFails(w) \/ ApplyDone(w)
      PROVE  ClaimInv'
  BY <1>9 DEF ClaimRefused, ApplyFails, ApplyDone, Fail, WorkTypes, JobTypes
<1>10. ASSUME NEW w \in Workers, ReleaseLease(w) PROVE ClaimInv'
  <2>1. EntryOf(w) \in Entries  BY <1>10, EntryOfType DEF ReleaseLease
  <2>2. \A x \in Workers : (x # w /\ pc[x] = "apply") => EntryOf(x) # EntryOf(w)
    BY <1>10 DEF ReleaseLease, LeaseInv, Holding, Inside
  <2>3. \A x \in Workers : pc'[x] = "apply" => installing'[EntryOf(x)'] = job'[x].plan
    BY <1>10, <2>1, <2>2 DEF ReleaseLease, WorkTypes, JobTypes, SetTypes
  <2>4. \A f \in Entries : installing'[f] \subseteq installing[f]
    BY <1>10 DEF ReleaseLease, SetTypes
  <2> QED BY <2>3, <2>4
<1>11. ASSUME NEW e \in Entries, LoopStep(e) PROVE ClaimInv'
  <2>1. CASE NoteFailure(e)
    <3>1. \A x \in Workers : x # e => job'[x] = job[x]
      BY <2>1 DEF NoteFailure, JobTypes
    <3> QED BY <1>11, <3>1, LoopFrame DEF WorkTypes
  <2>2. CASE ~NoteFailure(e)
    BY <1>11, <2>2 DEF LoopStep, Tick, Woken, Proceed, LoopStop, LoopRefused, WorkTypes
  <2> QED BY <2>1, <2>2
<1>12. ASSUME NEW s \in Syncs, SyncStep(s) PROVE ClaimInv'
  BY <1>12 DEF SyncStep, Reserve, Coalesce, SyncStart, Unpend, SyncRefused, WorkTypes
<1>13. CASE Push \/ UNCHANGED vars
  BY <1>13, <1>1 DEF Push
<1> QED
  BY <1>2, <1>3, <1>4, <1>5, <1>6, <1>7, <1>8, <1>9, <1>10, <1>11, <1>12, <1>13
  DEF Next, Pass, Terminated
-----------------------------------------------------------------------------
(* Departed entries. *)

\* acquire's second check: nobody is admitted to a cancelled entry.
LEMMA QuietNext ==
    ASSUME TypeOK, [Next]_vars, NEW e \in Entries, e \in cancelled, Quiet(e)
    PROVE  Quiet(e)'
<1>0. WorkTypes  BY DEF TypeOK
<1> USE <1>0, ConstantsAssumption
    DEF Quiet, Admitted, Inside, EntryOf, Workers, vars, setVars, entryVars, workVars
<1>1. CASE UNCHANGED <<pc, target>>
  BY <1>1
<1>2. CASE SetStep
  <2>1. ASSUME NEW n \in Names, NEW f \in Entries, Add(n, f) PROVE Quiet(e)'
    BY <2>1 DEF Add, WorkTypes
  <2>2. ASSUME NEW n \in Names, Replace(n) PROVE Quiet(e)'
    BY <2>2, <1>1 DEF Replace
  <2> QED BY <1>1, <1>2, <2>1, <2>2, SetFrame
<1>3. ASSUME NEW n \in Names, NEW s \in Syncs, AcceptSync(n, s) PROVE Quiet(e)'
  BY <1>3 DEF AcceptSync, WorkTypes
<1>4. CASE ShutdownStep
  <2>1. CASE Run
    BY <2>1 DEF Run, WorkTypes
  <2>2. ASSUME NEW f \in Entries, DrainTake(f) PROVE Quiet(e)'
    BY <2>2, <1>1 DEF DrainTake
  <2> QED BY <1>1, <1>4, <2>1, <2>2, ShutdownFrame
<1>5. ASSUME NEW w \in Workers, Acquire(w) PROVE Quiet(e)'
  BY <1>5 DEF Acquire, TakeLease, Abandon, Recheck, WorkTypes
<1>6. ASSUME NEW w \in Workers, Pass(w) PROVE Quiet(e)'
  <2>1. CASE ReleaseLease(w)
    BY <2>1 DEF ReleaseLease, WorkTypes
  <2>2. CASE ~ReleaseLease(w)
    BY <1>6, <2>2, PassFrame DEF WorkTypes
  <2> QED BY <2>1, <2>2
<1>7. ASSUME NEW f \in Entries, LoopStep(f) PROVE Quiet(e)'
  BY <1>7, LoopFrame DEF WorkTypes
<1>8. ASSUME NEW s \in Syncs, SyncStep(s) PROVE Quiet(e)'
  BY <1>8 DEF SyncStep, Reserve, Coalesce, SyncStart, Unpend, SyncRefused, WorkTypes
<1>9. CASE Push \/ UNCHANGED vars
  BY <1>9, <1>1 DEF Push
<1> QED
  BY <1>2, <1>3, <1>4, <1>5, <1>6, <1>7, <1>8, <1>9 DEF Next, Terminated

\* A lease nobody holds has nobody admitted under it.
LEMMA FreeIsQuiet ==
    ASSUME LeaseInv, NEW e \in Entries, ~Busy(e) PROVE Quiet(e)
BY ConstantsAssumption DEF LeaseInv, Quiet, Admitted, Inside, Holding, Busy, Workers

LEMMA DepartNext ==
    ASSUME TypeOK, LeaseInv, DepartInv, [Next]_vars PROVE DepartInv'
<1>0. SetTypes /\ EntryTypes /\ ControlTypes  BY DEF TypeOK
<1> DEFINE Settled(e) == e \in cancelled /\ (e \in retiring \/ Quiet(e))
           Departed(e) == name[e] # None /\ ~Current(e)
           Same == UNCHANGED <<apps, retiring, name, setter>> /\ cancelled \subseteq cancelled'
<1>1. ASSUME NEW e \in Entries, Settled(e), e \in cancelled', e \in retiring => e \in retiring'
      PROVE  Settled(e)'
  BY <1>1, QuietNext
<1>2. CASE Same
  <2>1. ASSUME NEW e \in Entries, Departed(e)' PROVE InRemove(e)' \/ Settled(e)'
    <3>1. Departed(e)  BY <1>2, <2>1 DEF Current
    <3>2. CASE InRemove(e)  BY <1>2, <3>2 DEF InRemove
    <3>3. CASE Settled(e)  BY <1>2, <3>3, <1>1
    <3> QED BY <3>1, <3>2, <3>3 DEF DepartInv
  <2> QED BY <1>2, <2>1 DEF DepartInv
<1>3. ASSUME NEW n \in Names, NEW f \in Entries, Add(n, f) PROVE DepartInv'
  <2>1. ASSUME NEW e \in Entries, Departed(e)' PROVE InRemove(e)' \/ Settled(e)'
    <3>1. e # f  BY <1>3, <2>1, <1>0, ConstantsAssumption DEF Add, Current, SetTypes, EntryTypes
    <3>2. Departed(e)
      BY <1>3, <2>1, <3>1, <1>0, ConstantsAssumption DEF Add, Current, SetTypes, EntryTypes
    <3>3. Settled(e)  BY <1>3, <3>2 DEF DepartInv, InRemove, Add
    <3> QED BY <1>3, <3>3, <1>1 DEF Add
  <2> QED BY <1>3, <2>1 DEF DepartInv, Add
<1>4. ASSUME NEW n \in Names, Replace(n) PROVE DepartInv'
  BY <1>4, <1>2 DEF Replace, setVars
<1>5. ASSUME NEW n \in Names, RemoveBegin(n) PROVE DepartInv'
  <2>1. ASSUME NEW e \in Entries, Departed(e)' PROVE InRemove(e)' \/ Settled(e)'
    <3>1. CASE apps[n] = e
      BY <1>5, <3>1 DEF RemoveBegin, InRemove
    <3>2. CASE apps[n] # e
      <4>1. Departed(e)
        BY <1>5, <2>1, <3>2, <1>0 DEF RemoveBegin, Current, entryVars, SetTypes, EntryTypes
      <4>2. Settled(e)  BY <1>5, <4>1 DEF DepartInv, InRemove, RemoveBegin
      <4> QED BY <1>5, <4>2, <1>1 DEF RemoveBegin, entryVars
    <3> QED BY <3>1, <3>2
  <2> QED BY <1>5, <2>1 DEF DepartInv, RemoveBegin
<1>6. CASE RemoveCancel \/ RemoveWaitDone
  <2>1. ASSUME NEW e \in Entries, Departed(e)' PROVE InRemove(e)' \/ Settled(e)'
    <3>1. Departed(e)
      BY <1>6, <2>1 DEF RemoveCancel, RemoveWaitDone, Current, setVars, entryVars
    <3>2. CASE InRemove(e)
      BY <1>6, <3>2 DEF InRemove, RemoveCancel, RemoveWaitDone
    <3>3. CASE Settled(e)
      BY <1>6, <3>3, <1>1 DEF RemoveCancel, RemoveWaitDone, setVars, entryVars
    <3> QED BY <3>1, <3>2, <3>3 DEF DepartInv
  <2> QED BY <1>6, <2>1 DEF DepartInv, RemoveCancel, RemoveWaitDone, entryVars
<1>7. CASE RemoveDrained \/ RemoveTimeout
  <2>1. ASSUME NEW e \in Entries, Departed(e)' PROVE InRemove(e)' \/ Settled(e)'
    <3>1. Departed(e)
      BY <1>7, <2>1 DEF RemoveDrained, RemoveTimeout, Current, setVars, entryVars
    <3>2. CASE InRemove(e)
      <4>1. e = setter.entry /\ e \in cancelled
        BY <1>7, <3>2 DEF InRemove, DepartInv, RemoveDrained, RemoveTimeout
      <4>2. CASE RemoveTimeout
        BY <4>1, <4>2 DEF RemoveTimeout, entryVars
      <4>3. CASE RemoveDrained
        <5>1. Settled(e)  BY <4>1, <4>3, FreeIsQuiet DEF RemoveDrained
        <5> QED BY <4>3, <5>1, <1>1 DEF RemoveDrained, setVars, entryVars
      <4> QED BY <1>7, <4>2, <4>3
    <3>3. CASE Settled(e)
      BY <1>7, <3>3, <1>1 DEF RemoveDrained, RemoveTimeout, setVars, entryVars
    <3> QED BY <3>1, <3>2, <3>3 DEF DepartInv
  <2> QED BY <1>7, <2>1 DEF DepartInv, RemoveDrained, RemoveTimeout
<1>8. CASE Draining
  <2>1. ASSUME NEW e \in Entries, Departed(e)' PROVE InRemove(e)' \/ Settled(e)'
    <3>1. Departed(e)  BY <1>8, <2>1 DEF Draining, Current, entryVars
    <3>2. Settled(e)  BY <1>8, <3>1 DEF DepartInv, InRemove, Draining
    <3>3. CASE Busy(e)
      BY <1>8, <3>2, <3>3, <1>1 DEF Draining, entryVars
    <3>4. CASE ~Busy(e)
      <4>1. Quiet(e)'  BY <3>2, <3>4, FreeIsQuiet, QuietNext
      <4> QED BY <1>8, <3>2, <4>1 DEF Draining, entryVars
    <3> QED BY <3>3, <3>4
  <2> QED BY <1>8, <2>1 DEF DepartInv, Draining
<1>9. CASE SweepDone
  <2>1. ASSUME NEW e \in Entries, Departed(e)' PROVE InRemove(e)' \/ Settled(e)'
    <3>1. Departed(e)  BY <1>9, <2>1 DEF SweepDone, Current, setVars, entryVars
    <3>2. Settled(e)  BY <1>9, <3>1 DEF DepartInv, InRemove, SweepDone
    <3> QED BY <1>9, <3>2, <1>1 DEF SweepDone, setVars, entryVars
  <2> QED BY <1>9, <2>1 DEF DepartInv, SweepDone
<1>10. ASSUME NEW n \in Names, NEW s \in Syncs, AcceptSync(n, s) PROVE DepartInv'
  BY <1>10, <1>2 DEF AcceptSync, setVars, entryVars
<1>11. CASE ShutdownStep
  BY <1>11, <1>2
  DEF ShutdownStep, Run, StopSignal, ListenerDrained, StopReconciling, DrainBegin, DrainLoops,
      DrainStopped, DrainTimeout, LinkedCancel, DrainTake, setVars, entryVars
<1>12. ASSUME NEW w \in Workers, Acquire(w) PROVE DepartInv'
  BY <1>12, <1>2 DEF Acquire, TakeLease, Abandon, Recheck, setVars, entryVars
<1>13. ASSUME NEW w \in Workers, Pass(w) PROVE DepartInv'
  BY <1>13, <1>2, PassFrame DEF ReleaseLease
<1>14. ASSUME NEW e \in Entries, LoopStep(e) PROVE DepartInv'
  BY <1>14, <1>2, LoopFrame
<1>15. ASSUME NEW s \in Syncs, SyncStep(s) PROVE DepartInv'
  BY <1>15, <1>2
  DEF SyncStep, Reserve, Coalesce, SyncStart, Unpend, SyncRefused, setVars, entryVars
<1>16. CASE Push \/ UNCHANGED vars
  BY <1>16, <1>2 DEF Push, vars, setVars, entryVars
<1> QED
  BY <1>3, <1>4, <1>5, <1>6, <1>7, <1>8, <1>9, <1>10, <1>11, <1>12, <1>13, <1>14, <1>15, <1>16
  DEF Next, SetStep, Terminated
-----------------------------------------------------------------------------
(* The invariant holds at the start, and the theorems. *)

LEMMA InitInv == ASSUME Init PROVE MemberInv /\ LeaseInv /\ ClaimInv /\ DepartInv
BY ConstantsAssumption
DEF Init, MemberInv, LeaseInv, ClaimInv, DepartInv, Holding, Inside, EntryOf, Workers

CoreInv == TypeOK /\ MemberInv /\ LeaseInv /\ ClaimInv /\ DepartInv

LEMMA CoreInvariant == Spec => []CoreInv
<1>1. Init => CoreInv
  BY TypeInit, InitInv DEF CoreInv
<1>2. CoreInv /\ [Next]_vars => CoreInv'
  BY TypeNext, MemberNext, LeaseNext, ClaimNext, DepartNext DEF CoreInv
<1> QED BY <1>1, <1>2, PTL DEF Spec

\* Two goroutines are never inside one application's pass (appEntry.held and
\* acquire), for every number of applications, syncs and removals.
THEOREM LeaseSafe == Spec => []LeaseExclusive
<1>1. CoreInv => LeaseExclusive
  BY DEF CoreInv, LeaseInv, LeaseExclusive
<1> QED BY <1>1, CoreInvariant, PTL

\* While the app-set loop sweeps, no goroutine is inside a pass for an
\* application that has left the set (Remove, Draining and acquire's two checks).
THEOREM SweepSafe == Spec => []SweepMeetsNoWriter
<1>1. ASSUME CoreInv, setter.pc = "sweep", NEW w \in Workers, Working(w)
      PROVE  Current(EntryOf(w))
  <2>1. WorkTypes  BY <1>1 DEF CoreInv, TypeOK
  <2>2. EntryOf(w) \in Entries
    BY <1>1, <2>1 DEF Working, Inside, WorkTypes, EntryOf, Workers
  <2>3. name[EntryOf(w)] # None
    BY <1>1 DEF CoreInv, MemberInv, Working, Inside, EntryOf, Workers
  <2>4. ~Quiet(EntryOf(w))
    BY <1>1 DEF Working, Quiet, Admitted
  <2>5. ~InRemove(EntryOf(w)) /\ retiring = {}
    BY <1>1 DEF CoreInv, DepartInv, InRemove
  <2> QED BY <1>1, <2>2, <2>3, <2>4, <2>5 DEF CoreInv, DepartInv
<1>2. CoreInv => SweepMeetsNoWriter
  BY <1>1 DEF SweepMeetsNoWriter
<1> QED BY <1>2, CoreInvariant, PTL

\* Two applications never install, at the same time, releases whose names Swarm
\* cannot keep apart (claimInstalls).
THEOREM ClaimSafe == Spec => []InstallsApart
<1>1. ASSUME CoreInv, NEW w \in Workers, NEW x \in Workers, w # x,
             pc[w] = "apply", pc[x] = "apply"
      PROVE  \A r \in job[w].plan, q \in job[x].plan : <<r, q>> \notin Collide
  <2>1. WorkTypes  BY <1>1 DEF CoreInv, TypeOK
  <2>2. EntryOf(w) \in Entries /\ EntryOf(x) \in Entries
    BY <1>1, <2>1 DEF WorkTypes, EntryOf, Workers
  <2>3. EntryOf(w) # EntryOf(x)
    BY <1>1 DEF CoreInv, LeaseInv, Holding, Inside
  <2>4. installing[EntryOf(w)] = job[w].plan /\ installing[EntryOf(x)] = job[x].plan
    BY <1>1 DEF CoreInv, ClaimInv
  <2> QED BY <1>1, <2>2, <2>3, <2>4 DEF CoreInv, ClaimInv
<1>2. CoreInv => InstallsApart
  BY <1>1 DEF InstallsApart
<1> QED BY <1>2, CoreInvariant, PTL

-----------------------------------------------------------------------------
(* The order in which Reconciler lets things happen: that no edit and no   *)
(* push is lost between two passes, that what is reported does not go      *)
(* back, and that a clean drain is one.  It rests on CoreInv, for a pass   *)
(* that has its application to itself.                                     *)

\* A loop past its read has read the spec in force, or has a poke to read it.
EditInv ==
    /\ root = "nil" => \A e \in Entries : pc[e] = "off"
    /\ \A e \in Entries : pc[e] = "off" => job[e].spec = 0
    /\ \A e \in Entries :
        /\ Current(e)
        /\ pc[e] \in {"fetch", "observe", "claim", "apply", "release", "note", "select"}
        /\ e \notin wake
        => job[e].spec \in {0, spec[e]}

\* The owner of the manual-sync slot has not read the repository yet.
SlotOwner ==
    \A e \in Entries : pending[e] # None =>
        /\ pc[pending[e]] \in {"accepted", "queued", "recheck", "unpend", "refused"}
        /\ target[pending[e]] = e

\* No request is about a commit that is not there, or that its sync did not read.
SlotPromise ==
    \A s \in Syncs :
        /\ promise[s] <= head
        /\ pc[s] \in {"observe", "claim", "apply"} => job[s].rev >= promise[s]

SlotInv == SlotOwner /\ SlotPromise

\* What is recorded is no newer than what there is, and an unused entry has no
\* spec.
StatusPast ==
    /\ \A e \in Entries : status[e].spec <= spec[e] /\ status[e].rev <= head
    /\ \A e \in Entries : name[e] = None => spec[e] = 0
    /\ \A w \in Workers : job[w].rev <= head

\* What a pass has read is no older than what was last recorded.
StatusPass ==
    \A w \in Workers :
        /\ (pc[w] \in {"fetch", "observe"} /\ Current(EntryOf(w))) =>
               job[w].spec >= status[EntryOf(w)].spec
        /\ pc[w] = "observe" => job[w].rev >= status[EntryOf(w)].rev
        /\ pc[w] \in {"fetch", "observe"} => job[w].spec <= spec[EntryOf(w)]

StatusInv == StatusPast /\ StatusPass

\* The drain's lease is wanted, is held, or nobody is left who could ask for it.
Covered(e) ==
    \/ e \in shutdown.todo
    \/ held[e] = Drainer
    \/ \A s \in Syncs : pc[s] # "idle" => target[s] # e

\* Once the listener is drained, nothing new starts for an application of the set.
DrainInv ==
    /\ shutdown.pc # "off" => root = "done"
    /\ shutdown.pc \in {"leases", "stopped"} => \A e \in Entries : pc[e] \in {"off", "exited"}
    /\ shutdown.pc = "stopped" => shutdown.todo = {}
    /\ shutdown.report = "clean" => shutdown.pc = "stopped"
    /\ (shutdown.pc # "off" /\ api = "closed") =>
         \A e \in Entries : Current(e) => Covered(e)
-----------------------------------------------------------------------------
(* Only Add brings an entry into the set. *)

LEMMA CurrentFrame ==
    ASSUME SetTypes, EntryTypes, [Next]_vars, NEW e \in Entries, Current(e)'
    PROVE  \/ Current(e)
           \/ name[e] = None /\ \E n \in Names : Add(n, e)
<1> USE ConstantsAssumption DEF Current, Workers, vars, setVars, entryVars, workVars
<1>1. CASE UNCHANGED <<apps, name>>
  BY <1>1
<1>2. CASE SetStep
  <2>1. ASSUME NEW n \in Names, NEW f \in Entries, Add(n, f) PROVE Current(e) \/ f = e
    BY <2>1 DEF Add, SetTypes, EntryTypes
  <2>2. ASSUME NEW n \in Names, RemoveBegin(n) PROVE Current(e)
    BY <2>2 DEF RemoveBegin, SetTypes, EntryTypes
  <2>3. ASSUME NEW n \in Names, Replace(n) PROVE Current(e)
    BY <2>3 DEF Replace
  <2>4. CASE RemoveCancel \/ RemoveWaitDone \/ RemoveDrained \/ RemoveTimeout \/ Draining
             \/ SweepDone
    BY <2>4 DEF RemoveCancel, RemoveWaitDone, RemoveDrained, RemoveTimeout, Draining, SweepDone
  <2> QED BY <1>2, <2>1, <2>2, <2>3, <2>4 DEF SetStep, Add
<1>3. ASSUME NEW n \in Names, NEW s \in Syncs, AcceptSync(n, s) PROVE Current(e)
  BY <1>3, <1>1 DEF AcceptSync
<1>4. CASE ShutdownStep
  BY <1>4, <1>1
  DEF ShutdownStep, Run, StopSignal, ListenerDrained, StopReconciling, DrainBegin, DrainLoops,
      DrainStopped, DrainTimeout, LinkedCancel, DrainTake
<1>5. ASSUME NEW w \in Workers, Acquire(w) PROVE Current(e)
  BY <1>5, <1>1 DEF Acquire, TakeLease, Abandon, Recheck
<1>6. ASSUME NEW w \in Workers, Pass(w) PROVE Current(e)
  BY <1>6, <1>1, PassFrame DEF ReleaseLease
<1>7. ASSUME NEW f \in Entries, LoopStep(f) PROVE Current(e)
  BY <1>7, <1>1, LoopFrame
<1>8. ASSUME NEW s \in Syncs, SyncStep(s) PROVE Current(e)
  BY <1>8, <1>1 DEF SyncStep, Reserve, Coalesce, SyncStart, Unpend, SyncRefused
<1>9. CASE Push \/ UNCHANGED vars
  BY <1>9, <1>1 DEF Push
<1> QED
  BY <1>2, <1>3, <1>4, <1>5, <1>6, <1>7, <1>8, <1>9 DEF Next, Terminated

LEMMA StillCurrent ==
    ASSUME SetTypes, EntryTypes, [Next]_vars, NEW e \in Entries, Current(e)',
           name[e] # None \/ name' = name
    PROVE  Current(e)
<1>1. ASSUME NEW n \in Names, Add(n, e) PROVE name[e] = None /\ name' # name
  BY <1>1, ConstantsAssumption DEF Add, EntryTypes
<1> QED BY <1>1, CurrentFrame
-----------------------------------------------------------------------------
(* What a stage of a pass does to the pass's own locals. *)

LEMMA OthersPass ==
    ASSUME WorkTypes, JobTypes, NEW w \in Workers, Pass(w), NEW x \in Workers, x # w
    PROVE  pc'[x] = pc[x] /\ job'[x] = job[x]
<1> USE DEF WorkTypes, JobTypes, setVars, entryVars, workVars
<1>1. CASE ReadSpec(w) \/ Fetch(w) \/ FetchFails(w)
  BY <1>1 DEF ReadSpec, Fetch, FetchFails, Fail
<1>2. CASE \E installs \in SUBSET Releases, c \in Changes : Observe(w, installs, c)
  BY <1>2 DEF Observe
<1>3. CASE ClaimInstalls(w) \/ ClaimRefused(w) \/ ApplyDone(w) \/ ApplyFails(w)
  BY <1>3 DEF ClaimInstalls, ClaimRefused, ApplyDone, ApplyFails, Fail
<1>4. CASE ReleaseLease(w)
  BY <1>4 DEF ReleaseLease
<1> QED BY <1>1, <1>2, <1>3, <1>4 DEF Pass

LEMMA ReadStage ==
    ASSUME WorkTypes, JobTypes, NEW w \in Workers, ReadSpec(w)
    PROVE  /\ pc[w] = "read" /\ pc'[w] = "fetch"
           /\ job'[w].spec = IF Current(EntryOf(w)) THEN spec[EntryOf(w)] ELSE 0
           /\ job'[w].rev = 0
BY DEF ReadSpec, WorkTypes, JobTypes, Job

LEMMA FetchStage ==
    ASSUME WorkTypes, JobTypes, NEW w \in Workers, Fetch(w)
    PROVE  /\ pc[w] = "fetch" /\ pc'[w] = "observe"
           /\ job'[w].spec = job[w].spec /\ job'[w].rev = head
BY DEF Fetch, WorkTypes, JobTypes, Job

LEMMA LaterStage ==
    ASSUME WorkTypes, JobTypes, NEW w \in Workers, Pass(w),
           ~ReadSpec(w), ~Fetch(w), ~ReleaseLease(w)
    PROVE  /\ pc[w] \in {"fetch", "observe", "claim", "apply"}
           /\ pc'[w] \in {"claim", "apply", "release"}
           /\ pc[w] = "fetch" => pc'[w] = "release"
           /\ job'[w].spec = job[w].spec /\ job'[w].rev = job[w].rev
<1> USE DEF WorkTypes, JobTypes, Job
<1>1. CASE FetchFails(w) \/ ClaimRefused(w) \/ ApplyFails(w)
  BY <1>1 DEF FetchFails, ClaimRefused, ApplyFails, Fail
<1>2. ASSUME NEW installs \in SUBSET Releases, NEW c \in Changes, Observe(w, installs, c)
      PROVE  /\ pc[w] = "observe" /\ pc'[w] \in {"claim", "release"}
             /\ job'[w].spec = job[w].spec /\ job'[w].rev = job[w].rev
  BY <1>2 DEF Observe
<1>3. CASE ClaimInstalls(w) \/ ApplyDone(w)
  BY <1>3 DEF ClaimInstalls, ApplyDone, setVars, entryVars, workVars
<1> QED BY <1>1, <1>2, <1>3 DEF Pass
-----------------------------------------------------------------------------
(* Edits. *)

LEMMA EditNext ==
    ASSUME TypeOK, MemberInv, EditInv, [Next]_vars PROVE EditInv'
<1>0. SetTypes /\ EntryTypes /\ WorkTypes /\ JobTypes  BY DEF TypeOK
<1> USE <1>0, ConstantsAssumption
    DEF EditInv, Workers, vars, setVars, entryVars, workVars
<1> DEFINE Late == {"fetch", "observe", "claim", "apply", "release", "note", "select"}
\* A step that neither edits nor adds: each loop is where it was with the spec
\* it had, or outside Late, or has just read the spec in force.
<1>1. ASSUME root' = "nil" => root = "nil" /\ \A e \in Entries : pc'[e] = pc[e],
             \A e \in Entries :
               /\ pc'[e] = "off" => pc[e] = "off" /\ job'[e].spec = job[e].spec
               /\ pc'[e] \in Late =>
                    \/ pc[e] \in Late /\ job'[e].spec = job[e].spec /\ (e \in wake => e \in wake')
                    \/ pc[e] = "off" /\ job'[e].spec = job[e].spec
                    \/ job'[e].spec \in {0, spec[e]},
             spec' = spec, name' = name
      PROVE  EditInv'
  <2>1. \A e \in Entries : Current(e)' => Current(e)
    BY <1>1, StillCurrent
  <2> QED BY <1>1, <2>1
<1>2. CASE SetStep
  <2>1. ASSUME NEW n \in Names, NEW e \in Entries, Add(n, e) PROVE EditInv'
    <3>1. pc[e] = "off"  BY <2>1 DEF Add, MemberInv
    <3>2. \A f \in Entries : f # e => (Current(f)' <=> Current(f))
      BY <2>1 DEF Add, Current, SetTypes, EntryTypes
    <3> QED BY <2>1, <3>1, <3>2 DEF Add, WorkTypes, EntryTypes
  <2>2. ASSUME NEW n \in Names, Replace(n) PROVE EditInv'
    BY <2>2 DEF Replace, Poke, Current, SetTypes, EntryTypes
  <2>3. CASE UNCHANGED <<installing, root, name, held, pending, wake, spec, unstable, status,
                         pc, target, job, promise, shutdown, api, head>>
    BY <2>3, <1>1
  <2> QED BY <1>2, <2>1, <2>2, <2>3, SetFrame
<1>3. ASSUME NEW n \in Names, NEW s \in Syncs, AcceptSync(n, s) PROVE EditInv'
  BY <1>3, <1>1 DEF AcceptSync, WorkTypes
<1>4. CASE ShutdownStep
  <2>1. CASE Run
    BY <2>1, <1>1 DEF Run, WorkTypes
  <2>2. ASSUME NEW e \in Entries, DrainTake(e) PROVE EditInv'
    BY <2>2, <1>1 DEF DrainTake
  <2>3. CASE StopSignal \/ ListenerDrained \/ StopReconciling \/ DrainBegin \/ DrainLoops
             \/ DrainStopped \/ DrainTimeout \/ \E e \in Entries : LinkedCancel(e)
    BY <2>3, <1>1
    DEF StopSignal, ListenerDrained, StopReconciling, DrainBegin, DrainLoops, DrainStopped,
        DrainTimeout, LinkedCancel
  <2> QED BY <1>4, <2>1, <2>2, <2>3 DEF ShutdownStep
<1>5. ASSUME NEW w \in Workers, Acquire(w) PROVE EditInv'
  BY <1>5, <1>1 DEF Acquire, TakeLease, Abandon, Recheck, WorkTypes
<1>6. ASSUME NEW w \in Workers, Pass(w) PROVE EditInv'
  <2>1. \A x \in Workers : x # w => pc'[x] = pc[x] /\ job'[x] = job[x]
    BY <1>6, OthersPass
  <2>2. UNCHANGED <<root, name, spec, wake>>
    BY <1>6, PassFrame DEF ReleaseLease
  <2>3. CASE ReadSpec(w)
    BY <2>1, <2>2, <2>3, <1>1, ReadStage DEF EntryOf
  <2>4. CASE Fetch(w)
    BY <2>1, <2>2, <2>4, <1>1, FetchStage
  <2>5. CASE ReleaseLease(w)
    <3>1. w \in Entries => pc[w] = "release" /\ pc'[w] = "note" /\ job'[w] = job[w]
      BY <2>5 DEF ReleaseLease, WorkTypes
    <3> QED BY <2>1, <2>2, <3>1, <1>1
  <2>6. CASE ~ReadSpec(w) /\ ~Fetch(w) /\ ~ReleaseLease(w)
    BY <1>6, <2>1, <2>2, <2>6, <1>1, LaterStage
  <2> QED BY <2>3, <2>4, <2>5, <2>6
<1>7. ASSUME NEW e \in Entries, LoopStep(e) PROVE EditInv'
  <2>1. CASE Tick(e) \/ Woken(e) \/ LoopStop(e) \/ LoopRefused(e)
    BY <2>1, <1>1 DEF Tick, Woken, Proceed, LoopStop, LoopRefused, WorkTypes
  <2>2. CASE NoteFailure(e)
    <3>1. job'[e].spec = job[e].spec /\ \A f \in Entries : f # e => job'[f] = job[f]
      BY <2>2 DEF NoteFailure, Job, JobTypes
    <3>2. pc[e] = "note" /\ pc'[e] \in {"exited", "select"}
      BY <2>2 DEF NoteFailure, WorkTypes
    <3>3. \A f \in Entries : f # e => pc'[f] = pc[f]
      BY <2>2 DEF NoteFailure, WorkTypes
    <3> QED BY <2>2, <3>1, <3>2, <3>3, <1>1 DEF NoteFailure
  <2> QED BY <1>7, <2>1, <2>2 DEF LoopStep
<1>8. ASSUME NEW s \in Syncs, SyncStep(s) PROVE EditInv'
  BY <1>8, <1>1 DEF SyncStep, Reserve, Coalesce, SyncStart, Unpend, SyncRefused, WorkTypes
<1>9. CASE Push \/ UNCHANGED vars
  BY <1>9, <1>1 DEF Push
<1> QED
  BY <1>2, <1>3, <1>4, <1>5, <1>6, <1>7, <1>8, <1>9 DEF Next, Terminated
-----------------------------------------------------------------------------
(* Coalesced requests. *)

LEMMA SlotNext ==
    ASSUME TypeOK, SlotInv, [Next]_vars PROVE SlotInv'
<1>0. EntryTypes /\ WorkTypes /\ JobTypes /\ ControlTypes  BY DEF TypeOK
<1>n. /\ head \in Nat /\ \A s \in Syncs : promise[s] \in Nat /\ job[s].rev \in Nat
  <2>1. \A s \in Syncs : job[s] \in Jobs  BY <1>0 DEF JobTypes, Workers
  <2>2. \A s \in Syncs : job[s].rev \in 0..MaxHead + 1  BY <2>1, JobsFields
  <2> QED BY <1>0, <2>2, ConstantsAssumption DEF ControlTypes, JobTypes
<1> USE <1>0, <1>n, ConstantsAssumption
    DEF SlotInv, SlotOwner, SlotPromise, Workers, vars, setVars, entryVars, workVars
<1> DEFINE Owning == {"accepted", "queued", "recheck", "unpend", "refused"}
           Reading == {"observe", "claim", "apply"}
\* A step of the loops or of the rest, which leaves the syncs alone.
<1>1. ASSUME pending' = pending, promise' = promise, head' = head,
             \A s \in Syncs : pc'[s] = pc[s] /\ target'[s] = target[s] /\ job'[s] = job[s]
      PROVE  SlotInv'
  <2>1. SlotOwner'  BY <1>1 DEF EntryTypes
  <2>2. SlotPromise'  BY <1>1
  <2> QED BY <2>1, <2>2
<1>2. CASE SetStep
  <2>1. ASSUME NEW n \in Names, NEW e \in Entries, Add(n, e) PROVE SlotInv'
    BY <2>1, <1>1 DEF Add, WorkTypes
  <2>2. ASSUME NEW n \in Names, Replace(n) PROVE SlotInv'
    BY <2>2, <1>1 DEF Replace
  <2> QED BY <1>2, <2>1, <2>2, <1>1, SetFrame
<1>3. ASSUME NEW n \in Names, NEW t \in Syncs, AcceptSync(n, t) PROVE SlotInv'
  BY <1>3 DEF AcceptSync, WorkTypes, EntryTypes
<1>4. CASE ShutdownStep
  <2>1. CASE Run
    BY <2>1, <1>1 DEF Run, WorkTypes
  <2>2. ASSUME NEW e \in Entries, DrainTake(e) PROVE SlotInv'
    BY <2>2, <1>1 DEF DrainTake
  <2> QED BY <1>4, <2>1, <2>2, <1>1, ShutdownFrame
<1>5. ASSUME NEW w \in Workers, Acquire(w) PROVE SlotInv'
  BY <1>5 DEF Acquire, TakeLease, Abandon, Recheck, WorkTypes, EntryTypes
<1>6. ASSUME NEW w \in Workers, Pass(w) PROVE SlotInv'
  <2>1. \A x \in Workers : x # w => pc'[x] = pc[x] /\ job'[x] = job[x]
    BY <1>6, OthersPass
  <2>2. CASE ReleaseLease(w)
    <3>1. pending' = pending /\ head' = head /\ pc[w] = "release" /\ pc'[w] \in {"note", "idle"}
      BY <2>2 DEF ReleaseLease, WorkTypes
    <3>2. \A s \in Syncs : /\ promise'[s] \in {0, promise[s]}
                           /\ s # w => promise'[s] = promise[s] /\ target'[s] = target[s]
      BY <2>2 DEF ReleaseLease, WorkTypes, JobTypes
    <3>3. SlotOwner'  BY <2>1, <3>1, <3>2 DEF EntryTypes
    <3>4. SlotPromise'  BY <2>1, <3>1, <3>2
    <3> QED BY <3>3, <3>4
  <2>3. CASE ~ReleaseLease(w)
    <3>1. pc[w] \in Inside /\ pc'[w] \in Inside /\ UNCHANGED <<pending, promise, target, head>>
      BY <1>6, <2>3, PassFrame DEF WorkTypes
    <3>2. (w \in Syncs /\ pc'[w] \in Reading) => job'[w].rev >= promise[w]
      <4>1. CASE ReadSpec(w)  BY <4>1, ReadStage
      <4>2. CASE Fetch(w)  BY <4>2, FetchStage
      <4>3. CASE ~ReadSpec(w) /\ ~Fetch(w)
        BY <1>6, <2>3, <4>3, LaterStage
      <4> QED BY <4>1, <4>2, <4>3
    <3>3. SlotOwner'  BY <2>1, <3>1 DEF Inside, EntryTypes
    <3>4. SlotPromise'  BY <2>1, <3>1, <3>2
    <3> QED BY <3>3, <3>4
  <2> QED BY <2>2, <2>3
<1>7. ASSUME NEW e \in Entries, LoopStep(e) PROVE SlotInv'
  <2>1. \A s \in Syncs : job'[s] = job[s]
    BY <1>7 DEF LoopStep, Tick, Woken, LoopStop, LoopRefused, NoteFailure, JobTypes
  <2>2. \A s \in Syncs : pc'[s] = pc[s]
    BY <1>7, LoopFrame DEF WorkTypes
  <2> QED BY <1>7, <2>1, <2>2, <1>1, LoopFrame
<1>8. ASSUME NEW t \in Syncs, SyncStep(t) PROVE SlotInv'
  <2>1. CASE Reserve(t)
    BY <2>1 DEF Reserve, WorkTypes, EntryTypes
  <2>2. CASE Coalesce(t)
    <3>1. target[t] \in Entries  BY <2>2 DEF Coalesce, WorkTypes
    <3>2. pc[pending[target[t]]] \in Owning  BY <2>2, <3>1 DEF Coalesce
    <3> QED BY <2>2, <3>1, <3>2 DEF Coalesce, WorkTypes, EntryTypes, JobTypes
  <2>3. CASE SyncStart(t)
    BY <2>3 DEF SyncStart, WorkTypes, EntryTypes
  <2>4. CASE Unpend(t)
    BY <2>4 DEF Unpend, WorkTypes, EntryTypes
  <2>5. CASE SyncRefused(t)
    BY <2>5 DEF SyncRefused, WorkTypes, EntryTypes, JobTypes
  <2> QED BY <1>8, <2>1, <2>2, <2>3, <2>4, <2>5 DEF SyncStep
<1>9. CASE Push
  BY <1>9 DEF Push
<1>10. CASE UNCHANGED vars
  BY <1>10, <1>1
<1> QED
  BY <1>2, <1>3, <1>4, <1>5, <1>6, <1>7, <1>8, <1>9, <1>10 DEF Next, Terminated
-----------------------------------------------------------------------------
(* What is reported. *)

Numbers ==
    /\ head \in Nat
    /\ \A e \in Entries : spec[e] \in Nat /\ status[e].spec \in Nat /\ status[e].rev \in Nat
    /\ \A w \in Workers : job[w].spec \in Nat /\ job[w].rev \in Nat

LEMMA NumbersNow == ASSUME TypeOK PROVE Numbers
<1> USE ConstantsAssumption DEF TypeOK
<1>1. head \in Nat  BY DEF ControlTypes
<1>2. \A e \in Entries : spec[e] \in Nat /\ status[e].spec \in Nat /\ status[e].rev \in Nat
  BY DEF EntryTypes
<1>3. \A w \in Workers : job[w] \in Jobs  BY DEF JobTypes
<1>4. \A w \in Workers : job[w].spec \in Nat /\ job[w].rev \in Nat
  BY <1>3, JobsFields
<1> QED BY <1>1, <1>2, <1>4 DEF Numbers

LEMMA StatusNext ==
    ASSUME TypeOK, MemberInv, LeaseInv, StatusInv, [Next]_vars PROVE StatusInv'
<1>0. SetTypes /\ EntryTypes /\ WorkTypes /\ JobTypes /\ ControlTypes  BY DEF TypeOK
<1>n. Numbers  BY NumbersNow
<1>c. ASSUME NEW w \in Workers, pc[w] \in Inside, EntryOf(w)' = EntryOf(w), Current(EntryOf(w))'
      PROVE  Current(EntryOf(w))
  <2>1. EntryOf(w) \in Entries  BY <1>0, <1>c, EntryOfType DEF Inside
  <2>2. name[EntryOf(w)] # None
    BY <1>c, ConstantsAssumption DEF MemberInv, EntryOf, Workers, Inside
  <2>3. ASSUME NEW e \in Entries, e = EntryOf(w) PROVE Current(e)
    <3>1. Current(e)'  BY <1>c, <2>3 DEF Current
    <3> QED BY <1>0, <2>2, <2>3, <3>1, StillCurrent
  <2> QED BY <2>1, <2>3
<1>e. ASSUME NEW w \in Workers, pc[w] \in Inside
      PROVE  EntryOf(w) \in Entries /\ name[EntryOf(w)] # None
  <2>1. EntryOf(w) \in Entries  BY <1>0, <1>e, EntryOfType DEF Inside
  <2> QED BY <1>e, <2>1, ConstantsAssumption DEF MemberInv, EntryOf, Workers, Inside
<1> DEFINE Reading == {"fetch", "observe"}
\* A step that records nothing and reads nothing.
<1>1. ASSUME status' = status, name' = name, spec' = spec, head' \in Nat, head <= head',
             \A w \in Workers : job'[w].rev \in {0, job[w].rev},
             \A w \in Workers : pc'[w] \in Reading =>
                 pc'[w] = pc[w] /\ EntryOf(w)' = EntryOf(w) /\ job'[w] = job[w]
      PROVE  StatusInv'
  <2>1. StatusPast'
    BY <1>1, <1>n DEF StatusInv, StatusPast, Numbers
  <2>2. ASSUME NEW w \in Workers, pc'[w] \in Reading
        PROVE  /\ pc[w] = pc'[w] /\ EntryOf(w)' = EntryOf(w) /\ job'[w] = job[w]
               /\ Current(EntryOf(w))' => Current(EntryOf(w))
    BY <1>1, <2>2, <1>c DEF Inside
  <2>3. StatusPass'
    BY <1>1, <2>2 DEF StatusInv, StatusPass
  <2> QED BY <2>1, <2>3 DEF StatusInv
<1>2. CASE SetStep
  <2>1. ASSUME NEW n \in Names, NEW e \in Entries, Add(n, e) PROVE StatusInv'
    <3>1. /\ name[e] = None /\ spec[e] = 0 /\ UNCHANGED <<status, head, job, target>>
          /\ spec' = [spec EXCEPT ![e] = 1] /\ name' = [name EXCEPT ![e] = n]
      BY <2>1 DEF Add, StatusInv, StatusPast
    <3>2. \A f \in Entries : spec'[f] \in Nat /\ spec[f] <= spec'[f]
      BY <3>1, <1>0, <1>n DEF EntryTypes, Numbers
    <3>3. \A f \in Entries : name'[f] = None => spec'[f] = 0
      BY <3>1, <1>0, ConstantsAssumption DEF EntryTypes, StatusInv, StatusPast
    <3>4. StatusPast'
      BY <3>1, <3>2, <3>3, <1>n DEF StatusInv, StatusPast, Numbers
    <3>5. ASSUME NEW w \in Workers, pc'[w] \in Reading
          PROVE  pc[w] = pc'[w] /\ EntryOf(w)' = EntryOf(w)
      BY <2>1, <3>5, <1>0 DEF Add, WorkTypes, EntryOf
    <3>6. ASSUME NEW w \in Workers, pc'[w] \in Reading
          PROVE  EntryOf(w) \in Entries /\ (Current(EntryOf(w))' => Current(EntryOf(w)))
      BY <3>5, <3>6, <1>c, <1>e DEF Inside
    <3>7. StatusPass'
      BY <3>1, <3>2, <3>5, <3>6, <1>n DEF StatusInv, StatusPass, Numbers
    <3> QED BY <3>4, <3>7 DEF StatusInv
  <2>2. ASSUME NEW n \in Names, Replace(n) PROVE StatusInv'
    <3>1. UNCHANGED <<status, name, head, job, target, pc>>
      BY <2>2 DEF Replace, workVars
    <3>2. \A f \in Entries : /\ spec'[f] \in Nat /\ spec[f] <= spec'[f]
                             /\ name[f] = None => spec'[f] = spec[f]
      BY <2>2, <1>0, <1>n, ConstantsAssumption
      DEF Replace, EntryTypes, SetTypes, Numbers, MemberInv
    <3>4. StatusPast'
      BY <3>1, <3>2, <1>n DEF StatusInv, StatusPast, Numbers
    <3>6. ASSUME NEW w \in Workers, pc'[w] \in Reading
          PROVE  /\ EntryOf(w)' = EntryOf(w) /\ EntryOf(w) \in Entries
                 /\ Current(EntryOf(w))' => Current(EntryOf(w))
      BY <3>1, <3>6, <1>c, <1>e DEF Inside, EntryOf
    <3>7. StatusPass'
      BY <3>1, <3>2, <3>6, <1>n DEF StatusInv, StatusPass, Numbers
    <3> QED BY <3>4, <3>7 DEF StatusInv
  <2>3. CASE UNCHANGED <<installing, root, name, held, pending, wake, spec, unstable, status,
                         pc, target, job, promise, shutdown, api, head>>
    BY <2>3, <1>1, <1>n DEF EntryOf, Numbers
  <2> QED BY <1>2, <2>1, <2>2, <2>3, SetFrame
<1>3. ASSUME NEW n \in Names, NEW s \in Syncs, AcceptSync(n, s) PROVE StatusInv'
  <2>1. \A w \in Workers : pc'[w] \in Reading => pc'[w] = pc[w] /\ EntryOf(w)' = EntryOf(w)
    BY <1>3, <1>0, ConstantsAssumption DEF AcceptSync, WorkTypes, EntryOf, Workers
  <2> QED BY <1>3, <2>1, <1>1, <1>n DEF AcceptSync, Numbers, setVars, entryVars
<1>4. CASE ShutdownStep
  <2>1. CASE Run
    <3>1. \A w \in Workers : pc'[w] \in Reading => pc'[w] = pc[w]
      BY <2>1, <1>0 DEF Run, WorkTypes
    <3> QED BY <2>1, <3>1, <1>1, <1>n DEF Run, EntryOf, Numbers, entryVars
  <2>2. ASSUME NEW e \in Entries, DrainTake(e) PROVE StatusInv'
    BY <2>2, <1>1, <1>n DEF DrainTake, EntryOf, Numbers, setVars, workVars
  <2>3. CASE UNCHANGED <<apps, retiring, installing, name, held, pending, wake, spec, unstable,
                         status, pc, target, job, promise, setter, head>>
    BY <2>3, <1>1, <1>n DEF EntryOf, Numbers
  <2> QED BY <1>4, <2>1, <2>2, <2>3, ShutdownFrame
<1>5. ASSUME NEW w \in Workers, Acquire(w) PROVE StatusInv'
  <2>1. \A x \in Workers : pc'[x] \in Reading => pc'[x] = pc[x]
    BY <1>5, <1>0 DEF Acquire, TakeLease, Abandon, Recheck, WorkTypes
  <2>2. UNCHANGED <<status, name, spec, head, job, target>>
    BY <1>5 DEF Acquire, TakeLease, Abandon, Recheck, entryVars, setVars
  <2> QED BY <2>1, <2>2, <1>1, <1>n DEF EntryOf, Numbers
<1>6. ASSUME NEW w \in Workers, Pass(w) PROVE StatusInv'
  <2>1. \A x \in Workers : x # w => pc'[x] = pc[x] /\ job'[x] = job[x]
    BY <1>0, <1>6, OthersPass
  <2>2. pc[w] \in Inside /\ UNCHANGED <<name, spec, head>>
    BY <1>6, PassFrame DEF ReleaseLease, Inside
  <2>3. CASE ReleaseLease(w)
    <3>1. /\ status' = status /\ pc'[w] \notin Reading
          /\ \A x \in Workers : x # w => EntryOf(x)' = EntryOf(x)
      BY <2>3, <1>0, ConstantsAssumption DEF ReleaseLease, WorkTypes, EntryOf, Workers
    <3>2. job'[w].rev \in {0, job[w].rev}
      BY <2>3, <1>0 DEF ReleaseLease, JobTypes, NoJob, Job
    <3> QED BY <2>1, <2>2, <3>1, <3>2, <1>1, <1>n DEF Numbers
  <2>4. CASE ~ReleaseLease(w)
    <3> DEFINE e == EntryOf(w)
    <3>1. target' = target /\ \A x \in Workers : EntryOf(x)' = EntryOf(x)
      BY <1>6, <2>4, PassFrame DEF EntryOf
    <3>2. e \in Entries  BY <2>2, <1>e
    <3>3. ASSUME NEW x \in Workers, x # w, pc'[x] \in Reading
          PROVE  /\ EntryOf(x) # e /\ EntryOf(x) \in Entries /\ pc[x] = pc'[x]
                 /\ Current(EntryOf(x))' => Current(EntryOf(x))
      BY <2>1, <2>2, <3>1, <3>3, <1>c, <1>e DEF LeaseInv, Holding, Inside
    <3>4. /\ \A f \in Entries : f # e => status'[f] = status[f]
          /\ \/ status'[e] = status[e]
             \/ /\ pc[w] = "observe" /\ pc'[w] \notin Reading
                /\ status'[e] = [spec |-> job[w].spec, rev |-> job[w].rev]
      <4>1. ASSUME NEW installs \in SUBSET Releases, NEW c \in Changes, Observe(w, installs, c)
            PROVE  /\ pc[w] = "observe" /\ pc'[w] \notin Reading
                   /\ \/ status' = status
                      \/ status' = [status EXCEPT ![e] =
                                      [spec |-> job[w].spec, rev |-> job[w].rev]]
        BY <4>1, <1>0 DEF Observe, WorkTypes
      <4>2. CASE ~\E installs \in SUBSET Releases, c \in Changes : Observe(w, installs, c)
        BY <1>6, <2>4, <4>2
        DEF Pass, ReadSpec, Fetch, FetchFails, ClaimInstalls, ClaimRefused, ApplyDone, ApplyFails,
            entryVars
      <4> QED BY <4>1, <4>2, <3>2, <1>0 DEF EntryTypes
    <3>5. /\ job'[w].rev \in {0, head, job[w].rev}
          /\ pc'[w] \in Reading =>
               \/ ReadSpec(w) /\ pc'[w] = "fetch"
                  /\ job'[w].spec = IF Current(e) THEN spec[e] ELSE 0
               \/ Fetch(w) /\ pc[w] = "fetch" /\ job'[w].spec = job[w].spec /\ job'[w].rev = head
      <4>1. CASE ReadSpec(w)  BY <4>1, <1>0, ReadStage
      <4>2. CASE Fetch(w)  BY <4>2, <1>0, FetchStage
      <4>3. CASE ~ReadSpec(w) /\ ~Fetch(w)  BY <1>0, <1>6, <2>4, <4>3, LaterStage
      <4> QED BY <4>1, <4>2, <4>3
    <3>6. StatusPast'
      <4>1. \A f \in Entries : status'[f].spec <= spec[f] /\ status'[f].rev <= head
        BY <3>2, <3>4 DEF StatusInv, StatusPast, StatusPass
      <4>2. \A x \in Workers : job'[x].rev <= head
        BY <2>1, <3>5, <1>n DEF StatusInv, StatusPast, Numbers
      <4> QED BY <2>2, <4>1, <4>2 DEF StatusInv, StatusPast
    <3>7. ASSUME NEW x \in Workers
          PROVE  /\ (pc'[x] \in Reading /\ Current(EntryOf(x))') =>
                        job'[x].spec >= status'[EntryOf(x)].spec
                 /\ pc'[x] = "observe" => job'[x].rev >= status'[EntryOf(x)].rev
                 /\ pc'[x] \in Reading => job'[x].spec <= spec[EntryOf(x)]
      <4>1. CASE x # w
        BY <2>1, <3>3, <3>4, <4>1 DEF StatusInv, StatusPass
      <4>2. CASE x = w /\ pc'[w] \in Reading
        <5>1. status'[e] = status[e] /\ (Current(e)' => Current(e))
          BY <3>1, <3>4, <4>2, <2>2, <1>c
        <5>2. CASE ReadSpec(w) /\ pc'[w] = "fetch"
          <6>1. job'[w].spec = IF Current(e) THEN spec[e] ELSE 0
            BY <5>2, <1>0, ReadStage
          <6> QED BY <3>2, <4>2, <5>1, <5>2, <6>1, <1>n DEF StatusInv, StatusPast, Numbers
        <5>3. CASE Fetch(w)
          <6>1. pc[w] = "fetch" /\ job'[w].spec = job[w].spec /\ job'[w].rev = head
            BY <5>3, <1>0, FetchStage
          <6> QED BY <3>2, <4>2, <5>1, <6>1 DEF StatusInv, StatusPast, StatusPass
        <5> QED BY <3>5, <4>2, <5>2, <5>3
      <4> QED BY <4>1, <4>2
    <3> QED BY <2>2, <3>1, <3>6, <3>7 DEF StatusInv, StatusPass
  <2> QED BY <2>3, <2>4
<1>7. ASSUME NEW e \in Entries, LoopStep(e) PROVE StatusInv'
  <2>1. \A w \in Workers : pc'[w] \in Reading => pc'[w] = pc[w] /\ w # e
    BY <1>7, <1>0, LoopFrame DEF WorkTypes
  <2>2. \A w \in Workers : job'[w].rev \in {0, job[w].rev} /\ (w # e => job'[w] = job[w])
    BY <1>7, <1>0 DEF LoopStep, Tick, Woken, LoopStop, LoopRefused, NoteFailure, JobTypes, Job
  <2> QED BY <1>7, <2>1, <2>2, <1>1, <1>n, LoopFrame DEF EntryOf, Numbers
<1>8. ASSUME NEW s \in Syncs, SyncStep(s) PROVE StatusInv'
  <2>1. \A w \in Workers : pc'[w] \in Reading => pc'[w] = pc[w] /\ EntryOf(w)' = EntryOf(w)
    BY <1>8, <1>0, ConstantsAssumption
    DEF SyncStep, Reserve, Coalesce, SyncStart, Unpend, SyncRefused, WorkTypes, EntryOf, Workers
  <2>2. UNCHANGED <<status, name, spec, head, job>>
    BY <1>8 DEF SyncStep, Reserve, Coalesce, SyncStart, Unpend, SyncRefused, entryVars, setVars
  <2> QED BY <2>1, <2>2, <1>1, <1>n DEF Numbers
<1>9. CASE Push
  BY <1>9, <1>1, <1>n DEF Push, EntryOf, Numbers, entryVars, workVars
<1>10. CASE UNCHANGED vars
  BY <1>10, <1>1, <1>n DEF vars, EntryOf, Numbers, entryVars, workVars
<1> QED
  BY <1>2, <1>3, <1>4, <1>5, <1>6, <1>7, <1>8, <1>9, <1>10 DEF Next, Terminated
-----------------------------------------------------------------------------
(* The drain. *)

LEMMA DrainNext ==
    ASSUME TypeOK, MemberInv, LeaseInv, DrainInv, [Next]_vars PROVE DrainInv'
<1>0. SetTypes /\ EntryTypes /\ WorkTypes /\ ControlTypes  BY DEF TypeOK
<1> USE ConstantsAssumption DEF Workers, vars, setVars, entryVars, workVars
<1> DEFINE Over == {"off", "exited"}
\* A step outside the shutdown that admits no new work.
<1>1. ASSUME shutdown' = shutdown, api' = api, root' = root, name' = name,
             \A e \in Entries : pc[e] \in Over => pc'[e] \in Over,
             \A e \in Entries : held[e] = Drainer => held'[e] = Drainer,
             \A s \in Syncs, e \in Entries : (pc'[s] # "idle" /\ target'[s] = e) =>
                 pc[s] # "idle" /\ target[s] = e
      PROVE  DrainInv'
  <2>1. \A e \in Entries : Current(e)' => Current(e)
    BY <1>0, <1>1, StillCurrent
  <2>2. \A e \in Entries : Covered(e) => Covered(e)'
    BY <1>1 DEF Covered
  <2> QED BY <1>1, <2>1, <2>2 DEF DrainInv
<1>2. CASE SetStep
  <2>1. ASSUME NEW n \in Names, NEW e \in Entries, Add(n, e) PROVE DrainInv'
    <3>1. \A s \in Syncs : pc[s] # "idle" => target[s] # e
      BY <2>1 DEF Add, MemberInv
    <3>2. \A f \in Entries : f # e /\ Current(f)' => Current(f)
      BY <2>1, <1>0 DEF Add, Current, SetTypes, EntryTypes
    <3>3. UNCHANGED <<shutdown, api, root, held, target>> /\ \A s \in Syncs : pc'[s] = pc[s]
      BY <2>1, <1>0 DEF Add, WorkTypes
    <3>4. root = "done" => pc' = pc
      BY <2>1 DEF Add
    <3>5. \A f \in Entries : Covered(f) => Covered(f)'
      BY <3>3 DEF Covered
    <3>6. Covered(e)'  BY <3>1, <3>3 DEF Covered
    <3> QED BY <3>2, <3>3, <3>4, <3>5, <3>6 DEF DrainInv
  <2>2. ASSUME NEW n \in Names, Replace(n) PROVE DrainInv'
    BY <2>2, <1>1 DEF Replace
  <2> QED BY <1>2, <2>1, <2>2, <1>1, SetFrame
<1>3. ASSUME NEW n \in Names, NEW s \in Syncs, AcceptSync(n, s) PROVE DrainInv'
  BY <1>3, <1>0 DEF AcceptSync, WorkTypes, DrainInv
<1>4. CASE ShutdownStep
  <2>1. CASE Run
    BY <2>1 DEF Run, DrainInv
  <2>2. CASE StopSignal \/ ListenerDrained \/ StopReconciling
    BY <2>2 DEF StopSignal, ListenerDrained, StopReconciling, DrainInv
  <2>3. CASE DrainBegin
    <3>1. \A e \in Entries : Current(e)' => Covered(e)'
      BY <2>3, DrainFields DEF DrainBegin, Current, Covered
    <3> QED BY <2>3, <3>1, DrainFields DEF DrainBegin, DrainInv
  <2>4. CASE DrainLoops \/ DrainTimeout
    <3>1. /\ shutdown'.todo = shutdown.todo /\ shutdown.pc # "off" /\ shutdown'.report # "clean"
          /\ shutdown'.pc \in {"leases", shutdown.pc} /\ shutdown'.pc # "stopped"
          /\ shutdown'.pc = "leases" => \A e \in Entries : pc[e] \in Over
      <4>1. CASE DrainLoops
        <5>1. shutdown.pc = "wg" /\ \A e \in Entries : pc[e] \in Over
          BY <4>1 DEF DrainLoops
        <5>2. /\ shutdown'.pc = "leases" /\ shutdown'.todo = shutdown.todo
              /\ shutdown'.report = shutdown.report
          BY <4>1, DrainFields DEF DrainLoops
        <5> QED BY <5>1, <5>2 DEF DrainInv
      <4>2. CASE DrainTimeout
        <5>1. /\ shutdown'.pc = shutdown.pc /\ shutdown'.todo = shutdown.todo
              /\ shutdown'.report = "gave up" /\ shutdown.pc \in {"wg", "leases"}
          BY <4>2 DEF DrainTimeout, Drain
        <5> QED BY <5>1 DEF DrainInv
      <4> QED BY <2>4, <4>1, <4>2
    <3>2. UNCHANGED <<apps, name, held, target, pc, root, api>>
      BY <2>4 DEF DrainLoops, DrainTimeout
    <3>3. \A e \in Entries : Covered(e)' <=> Covered(e)
      BY <3>1, <3>2 DEF Covered
    <3> QED BY <2>4, <3>1, <3>2, <3>3 DEF DrainInv, Current
  <2>5. CASE DrainStopped
    <3>1. shutdown'.pc = "stopped" /\ shutdown'.todo = {} /\ shutdown.todo = {}
      BY <2>5, DrainFields DEF DrainStopped
    <3>2. UNCHANGED <<apps, name, held, target, pc, root, api>> /\ shutdown.pc = "leases"
      BY <2>5 DEF DrainStopped
    <3>3. \A e \in Entries : Covered(e)' <=> Covered(e)
      BY <3>1, <3>2 DEF Covered
    <3> QED BY <3>1, <3>2, <3>3 DEF DrainInv, Current
  <2>6. ASSUME NEW e \in Entries, LinkedCancel(e) PROVE DrainInv'
    BY <2>6, <1>1 DEF LinkedCancel
  <2>7. ASSUME NEW e \in Entries, DrainTake(e) PROVE DrainInv'
    <3>1. /\ shutdown'.pc = "leases" /\ shutdown'.todo = shutdown.todo \ {e}
          /\ shutdown'.report = shutdown.report /\ shutdown.pc = "leases"
      BY <2>7, DrainFields DEF DrainTake
    <3>2. UNCHANGED <<apps, name, target, pc, root, api>>
      BY <2>7 DEF DrainTake
    <3>3. held'[e] = Drainer /\ \A f \in Entries : f # e => held'[f] = held[f]
      BY <2>7, <1>0 DEF DrainTake, EntryTypes
    <3>4. \A f \in Entries : Covered(f) => Covered(f)'
      BY <3>1, <3>2, <3>3 DEF Covered
    <3> QED BY <3>1, <3>2, <3>4 DEF DrainInv, Current
  <2> QED BY <1>4, <2>1, <2>2, <2>3, <2>4, <2>5, <2>6, <2>7 DEF ShutdownStep
<1>5. ASSUME NEW w \in Workers, Acquire(w) PROVE DrainInv'
  <2>1. UNCHANGED <<shutdown, api, root, name, target>>
    BY <1>5 DEF Acquire, TakeLease, Abandon, Recheck
  <2>2. \A e \in Entries : held[e] = Drainer => held'[e] = Drainer
    BY <1>5, <1>0
    DEF Acquire, TakeLease, Abandon, Recheck, Busy, Freed, EntryTypes, LeaseInv, Holding
  <2>3. \A x \in Workers : /\ pc[x] \in Over => pc'[x] \in Over
                           /\ pc'[x] # "idle" => pc[x] # "idle"
    BY <1>5, <1>0 DEF Acquire, TakeLease, Abandon, Recheck, WorkTypes
  <2> QED BY <2>1, <2>2, <2>3, <1>1
<1>6. ASSUME NEW w \in Workers, Pass(w) PROVE DrainInv'
  <2>1. pc[w] \in Inside /\ UNCHANGED <<shutdown, api, root, name>>
    BY <1>6, PassFrame DEF ReleaseLease, Inside
  <2>2. CASE ReleaseLease(w)
    <3>1. \A e \in Entries : held[e] = Drainer => held'[e] = Drainer
      BY <2>1, <2>2, <1>0 DEF ReleaseLease, Freed, EntryTypes, LeaseInv, Holding
    <3>2. \A x \in Workers : pc[x] \in Over => pc'[x] \in Over
      BY <2>2, <1>0 DEF ReleaseLease, WorkTypes
    <3>3. \A s \in Syncs, e \in Entries : (pc'[s] # "idle" /\ target'[s] = e) =>
              pc[s] # "idle" /\ target[s] = e
      BY <2>2, <1>0 DEF ReleaseLease, WorkTypes
    <3> QED BY <2>1, <3>1, <3>2, <3>3, <1>1
  <2>3. CASE ~ReleaseLease(w)
    <3>1. \A x \in Workers : /\ pc[x] \in Over => pc'[x] \in Over
                             /\ pc'[x] # "idle" => pc[x] # "idle"
      BY <1>6, <2>3, <1>0, PassFrame DEF WorkTypes, Inside
    <3> QED BY <1>6, <2>1, <2>3, <3>1, <1>1, PassFrame
  <2> QED BY <2>2, <2>3
<1>7. ASSUME NEW e \in Entries, LoopStep(e) PROVE DrainInv'
  <2>1. \A x \in Workers : /\ pc[x] \in Over => pc'[x] \in Over
                           /\ pc'[x] # "idle" => pc[x] # "idle"
    BY <1>7, <1>0, LoopFrame DEF WorkTypes
  <2> QED BY <1>7, <2>1, <1>1, LoopFrame
<1>8. ASSUME NEW s \in Syncs, SyncStep(s) PROVE DrainInv'
  <2>1. UNCHANGED <<shutdown, api, root, name, held>> /\ \A e \in Entries : pc'[e] = pc[e]
    BY <1>8, <1>0 DEF SyncStep, Reserve, Coalesce, SyncStart, Unpend, SyncRefused, WorkTypes
  <2>2. \A t \in Syncs, e \in Entries : (pc'[t] # "idle" /\ target'[t] = e) =>
            pc[t] # "idle" /\ target[t] = e
    BY <1>8, <1>0 DEF SyncStep, Reserve, Coalesce, SyncStart, Unpend, SyncRefused, WorkTypes
  <2> QED BY <2>1, <2>2, <1>1
<1>9. CASE Push \/ UNCHANGED vars
  BY <1>9, <1>1 DEF Push
<1> QED
  BY <1>2, <1>3, <1>4, <1>5, <1>6, <1>7, <1>8, <1>9 DEF Next, Terminated
-----------------------------------------------------------------------------
(* The invariant, and the theorems. *)

IInv == CoreInv /\ EditInv /\ SlotInv /\ StatusInv /\ DrainInv

LEMMA IInvariant == Spec => []IInv
<1>1. ASSUME Init PROVE EditInv /\ SlotInv /\ StatusInv /\ DrainInv
  <2> USE <1>1, ConstantsAssumption DEF Init, Workers
  <2>1. EditInv  BY DEF EditInv, NoJob, Job
  <2>2. SlotInv  BY DEF SlotInv, SlotOwner, SlotPromise
  <2>3. StatusInv  BY DEF StatusInv, StatusPast, StatusPass, NoJob, Job
  <2>4. DrainInv  BY DrainFields DEF DrainInv
  <2> QED BY <2>1, <2>2, <2>3, <2>4
<1>2. CoreInv /\ EditInv /\ SlotInv /\ StatusInv /\ DrainInv /\ [Next]_vars =>
          EditInv' /\ SlotInv' /\ StatusInv' /\ DrainInv'
  BY EditNext, SlotNext, StatusNext, DrainNext DEF CoreInv
<1> QED BY <1>1, <1>2, CoreInvariant, PTL DEF Spec, IInv

\* No loop waits on the schedule a replaced spec earned (Replace and its poke).
THEOREM EditSafe == Spec => []EditNeverParked
<1>1. IInv => EditNeverParked
  BY DEF IInv, EditInv, EditNeverParked
<1> QED BY <1>1, IInvariant, PTL

\* A coalesced request is served by a sync that reads the repository after it
\* (AcceptSync gives the slot back before the pass reads).
THEOREM CoalesceSafe == Spec => []CoalescedSyncSeesPush
<1>1. IInv => CoalescedSyncSeesPush
  BY DEF IInv, SlotInv, SlotPromise, CoalescedSyncSeesPush
<1> QED BY <1>1, IInvariant, PTL

\* When the listener was drained first, a drain that reports a clean stop leaves
\* nobody inside a pass for an application of the set (Run and drain).
THEOREM DrainSafe == Spec => []CleanDrainIsQuiet
<1>1. ASSUME IInv, shutdown.report = "clean", api = "closed", NEW w \in Workers, Working(w),
             Current(EntryOf(w))
      PROVE  FALSE
  <2> USE ConstantsAssumption DEF Working, Inside
  <2>1. WorkTypes  BY <1>1 DEF IInv, CoreInv, TypeOK
  <2>2. EntryOf(w) \in Entries  BY <1>1, <2>1, EntryOfType
  <2>3. shutdown.pc = "stopped" /\ shutdown.todo = {}
    BY <1>1 DEF IInv, DrainInv
  <2>4. w \in Syncs  BY <1>1, <2>3 DEF IInv, DrainInv, Workers
  <2>5. Covered(EntryOf(w))  BY <1>1, <2>2, <2>3 DEF IInv, DrainInv
  <2>6. held[EntryOf(w)] = w  BY <1>1 DEF IInv, CoreInv, LeaseInv, Holding
  <2> QED BY <1>1, <2>3, <2>4, <2>5, <2>6 DEF Covered, EntryOf
<1>2. IInv => CleanDrainIsQuiet
  BY <1>1 DEF CleanDrainIsQuiet
<1> QED BY <1>2, IInvariant, PTL

\* What an application reports never goes back to an older spec or commit
\* (reconcile reads both with the lease held).
THEOREM StatusSafe == Spec => StatusAdvances
<1>1. ASSUME IInv, [Next]_vars, NEW e \in Entries
      PROVE  status'[e].spec >= status[e].spec /\ status'[e].rev >= status[e].rev
  <2> USE DEF vars, setVars, entryVars, workVars
  <2>0. TypeOK /\ EntryTypes /\ WorkTypes /\ Numbers
    BY <1>1, NumbersNow DEF IInv, CoreInv, TypeOK
  <2>1. CASE status' = status
    BY <2>0, <2>1 DEF Numbers
  <2>2. ASSUME NEW w \in Workers, NEW installs \in SUBSET Releases, NEW c \in Changes,
               Observe(w, installs, c)
        PROVE  status'[e].spec >= status[e].spec /\ status'[e].rev >= status[e].rev
    <3>1. pc[w] = "observe"  BY <2>2 DEF Observe
    <3>2. EntryOf(w) \in Entries  BY <2>0, <3>1, EntryOfType
    <3>3. CASE Current(EntryOf(w)) /\ e = EntryOf(w)
      <4>1. status'[e] = [spec |-> job[w].spec, rev |-> job[w].rev]
        BY <2>0, <2>2, <3>2, <3>3 DEF Observe, EntryTypes
      <4> QED BY <1>1, <3>1, <3>3, <4>1 DEF IInv, StatusInv, StatusPass
    <3>4. CASE ~Current(EntryOf(w)) \/ e # EntryOf(w)
      <4>1. status'[e] = status[e]
        BY <2>0, <2>2, <3>2, <3>4 DEF Observe, EntryTypes
      <4> QED BY <2>0, <4>1 DEF Numbers
    <3> QED BY <3>3, <3>4
  <2>3. CASE SetStep
    <3>1. status' = status  BY <2>3, SetFrame DEF Add, Replace
    <3> QED BY <2>1, <3>1
  <2>4. ASSUME NEW n \in Names, NEW s \in Syncs, AcceptSync(n, s) PROVE status' = status
    BY <2>4 DEF AcceptSync
  <2>5. CASE ShutdownStep
    <3>1. status' = status  BY <2>5, ShutdownFrame DEF Run, DrainTake
    <3> QED BY <2>1, <3>1
  <2>6. ASSUME NEW w \in Workers, Acquire(w) PROVE status' = status
    BY <2>6 DEF Acquire, TakeLease, Abandon, Recheck
  <2>7. ASSUME NEW w \in Workers, Pass(w),
               ~\E installs \in SUBSET Releases, c \in Changes : Observe(w, installs, c)
        PROVE  status' = status
    BY <2>7 DEF Pass, ReadSpec, Fetch, FetchFails, Fail, ClaimInstalls, ClaimRefused, ApplyDone,
                ApplyFails, ReleaseLease
  <2>8. ASSUME NEW f \in Entries, LoopStep(f) PROVE status' = status
    BY <2>8, LoopFrame
  <2>9. ASSUME NEW s \in Syncs, SyncStep(s) PROVE status' = status
    BY <2>9 DEF SyncStep, Reserve, Coalesce, SyncStart, Unpend, SyncRefused
  <2>10. CASE Push \/ UNCHANGED vars
    BY <2>1, <2>10 DEF Push
  <2> QED
    BY <1>1, <2>1, <2>2, <2>3, <2>4, <2>5, <2>6, <2>7, <2>8, <2>9, <2>10 DEF Next, Terminated
<1>2. IInv /\ [Next]_vars => [StatusForward]_status
  BY <1>1 DEF StatusForward
<1> QED BY <1>2, IInvariant, PTL DEF Spec, StatusAdvances
=============================================================================
