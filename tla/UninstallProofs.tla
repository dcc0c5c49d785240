-------------------------- MODULE UninstallProofs ---------------------------
(***************************************************************************)
(* The records of a release go last, a report of an emptied application is *)
(* true, and the removal call by call implements Removal, for any releases,*)
(* nodes, heirs and number of faults.                                      *)
(***************************************************************************)
EXTENDS Uninstall, TLAPS

-----------------------------------------------------------------------------
(* The inductive invariant *)

\* What has gone of the release at hand, unless somebody deployed it meanwhile:
\* the stack before the volumes, every volume that can be shown to go before
\* the records.
GoneSoFar ==
    at \notin raced =>
        /\ pc = "volumes" =>
             /\ at \notin stack
             /\ \A n \in Nodes : <<at, n>> \in volume => n \in nodes \/ partly
        /\ pc = "records" => ~Left(at)

\* No release that departs is forgotten between the listing and the report.
Pending ==
    /\ pc = "listed" => Departing \subseteq todo \cup failed
    /\ pc \in {"stack", "volumes", "records"} => Departing \subseteq todo \cup failed \cup {at}

IInv == UninstallInv /\ GoneSoFar /\ Pending

-----------------------------------------------------------------------------

\* The types hold in every initial state and over every step.
LEMMA TypeInit == Init => TypeOK
<1> SUFFICES ASSUME Init PROVE TypeOK
  OBVIOUS
<1>1. record \in [Releases -> {"departed", "heir", "none"}]
  BY DEF Init
<1>2. faults \in 0..MaxFaults
  BY UninstallAssumption DEF Init, UninstallAssumption
<1> QED
  BY <1>1, <1>2 DEF Init, TypeOK

\* A fault is one of those still to come.
LEMMA FaultStep == TypeOK /\ Fault => faults' \in 0..MaxFaults
  BY UninstallAssumption DEF TypeOK, Fault, UninstallAssumption

LEMMA TypeStep == TypeOK /\ [Next]_vars => TypeOK'
<1> SUFFICES ASSUME TypeOK, [Next]_vars PROVE TypeOK'
  OBVIOUS
<1> USE UninstallAssumption DEF UninstallAssumption, TypeOK
<1>1. CASE List
  BY <1>1 DEF List, Departing, swarm
<1>2. CASE NextRelease
  BY <1>2 DEF NextRelease, swarm
<1>3. CASE RemoveStack
  BY <1>3 DEF RemoveStack
<1>4. CASE RemoveVolume
  BY <1>4 DEF RemoveVolume, sweep
<1>5. CASE NodeDone
  BY <1>5 DEF NodeDone, swarm
<1>6. CASE PurgeFails
  BY <1>6, FaultStep DEF PurgeFails, Returns, swarm
<1>7. CASE PurgeEnds
  BY <1>7 DEF PurgeEnds, swarm
<1>8. CASE RemoveRecords
  BY <1>8 DEF RemoveRecords, Returns
<1>9. CASE Report
  BY <1>9 DEF Report, swarm
<1>10. CASE RemoveStackFails
  BY <1>10, FaultStep DEF RemoveStackFails, Returns
<1>11. CASE RemoveRecordsFails
  BY <1>11, FaultStep DEF RemoveRecordsFails, Returns
<1>12. CASE Stop
  BY <1>12, FaultStep DEF Stop, swarm
<1>13. CASE ContainersGo
  BY <1>13 DEF ContainersGo, sweep
<1>14. CASE NodeGoes
  BY <1>14 DEF NodeGoes, Fault, sweep
<1>15. CASE NodeComes
  BY <1>15 DEF NodeComes, sweep
<1>16. CASE HeirPlans
  BY <1>16 DEF HeirPlans, sweep
<1>17. CASE HeirDeploys
  BY <1>17 DEF HeirDeploys, sweep
<1>18. CASE UNCHANGED vars
  BY <1>18 DEF vars, swarm, sweep
<1> QED
  BY <1>1, <1>2, <1>3, <1>4, <1>5, <1>6, <1>7, <1>8, <1>9, <1>10, <1>11, <1>12, <1>13,
     <1>14, <1>15, <1>16, <1>17, <1>18 DEF Next, Sweep

-----------------------------------------------------------------------------
(* The parts of the invariant *)

LEMMA IInit == Init => IInv
<1> SUFFICES ASSUME Init PROVE IInv
  OBVIOUS
<1>1. TypeOK
  BY TypeInit
<1>2. RecordsLast /\ ReportIsTrue
  BY DEF Init, RecordsLast, ReportIsTrue
<1>3. GoneSoFar /\ Pending
  BY DEF Init, GoneSoFar, Pending
<1> QED
  BY <1>1, <1>2, <1>3 DEF IInv, UninstallInv

\* A step that puts nothing back leaves no more of a release than there was.
LEMMA LeftShrinks ==
    ASSUME TypeOK, volumes' = volumes, NEW r \in Releases,
           r \in stack' => r \in stack,
           \A n \in Nodes : <<r, n>> \in volume' => <<r, n>> \in volume,
           r \in warned => r \in warned',
           ~Left(r)
    PROVE  ~Left(r)'
  BY DEF Left

\* Records go only from a release of which nothing is left, or which somebody
\* deployed meanwhile; and a deploy puts records to what it puts back.
LEMMA RecordsStep == IInv /\ [Next]_vars => RecordsLast'
<1> SUFFICES ASSUME IInv, [Next]_vars, NEW r \in Releases,
                    r \notin raced', record'[r] = "none"
             PROVE  ~Left(r)'
  BY DEF RecordsLast
<1> TypeOK
  BY DEF IInv, UninstallInv
<1>1. CASE record[r] = "none"
  <2>1. raced \subseteq raced' /\ volumes' = volumes
    BY DEF Next, Sweep, vars, swarm, sweep, List, NextRelease, RemoveStack, RemoveVolume,
           NodeDone, PurgeFails, PurgeEnds, RemoveRecords, Report, RemoveStackFails,
           RemoveRecordsFails, Stop, ContainersGo, NodeGoes, NodeComes, HeirPlans, HeirDeploys
  <2>2. ~Left(r)
    BY <1>1, <2>1 DEF IInv, UninstallInv, RecordsLast
  <2>3. CASE HeirDeploys
    <3> PICK q \in heirs :
          /\ stack' = stack \cup {q} /\ volume' = volume \cup ({q} \X Nodes)
          /\ record' = [record EXCEPT ![q] = "heir"] /\ warned' = warned \ {q}
      BY <2>3 DEF HeirDeploys
    <3>1. q # r
      BY DEF TypeOK
    <3> QED
      BY <2>1, <2>2, <3>1 DEF Left
  <2>4. CASE ~HeirDeploys
    <3>1. stack' \subseteq stack /\ volume' \subseteq volume /\ warned \subseteq warned'
      BY <2>4 DEF Next, Sweep, vars, swarm, sweep, List, NextRelease, RemoveStack, RemoveVolume,
             NodeDone, PurgeFails, PurgeEnds, RemoveRecords, Report, RemoveStackFails,
             RemoveRecordsFails, Stop, ContainersGo, NodeGoes, NodeComes, HeirPlans
    <3> QED
      BY <2>1, <2>2, <3>1, LeftShrinks
  <2> QED
    BY <2>3, <2>4
<1>2. CASE record[r] # "none"
  <2>1. r = at /\ pc = "records" /\ (RemoveRecords \/ RemoveRecordsFails)
    BY <1>2 DEF Next, Sweep, vars, swarm, sweep, List, NextRelease, RemoveStack, RemoveVolume,
           NodeDone, PurgeFails, PurgeEnds, RemoveRecords, Report, RemoveStackFails,
           RemoveRecordsFails, Stop, ContainersGo, NodeGoes, NodeComes, HeirPlans, HeirDeploys,
           TypeOK
  <2>2. UNCHANGED <<volumes, stack, volume, warned, raced>>
    BY <2>1 DEF RemoveRecords, RemoveRecordsFails
  <2>3. ~Left(r)
    BY <2>1, <2>2 DEF IInv, GoneSoFar
  <2> QED
    BY <2>2, <2>3, LeftShrinks
<1> QED
  BY <1>1, <1>2

\* Nobody is stamped as departed again, and a release that is declared stays so.
LEMMA DepartingShrinks == TypeOK /\ [Next]_vars => Departing' \subseteq Departing
<1> SUFFICES ASSUME TypeOK, [Next]_vars, NEW r \in Releases,
                    record'[r] = "departed", r \notin heirs'
             PROVE  record[r] = "departed" /\ r \notin heirs
  BY DEF Departing
<1>1. heirs \subseteq heirs'
  BY DEF Next, Sweep, vars, swarm, sweep, List, NextRelease, RemoveStack, RemoveVolume,
         NodeDone, PurgeFails, PurgeEnds, RemoveRecords, Report, RemoveStackFails,
         RemoveRecordsFails, Stop, ContainersGo, NodeGoes, NodeComes, HeirPlans, HeirDeploys
<1>2. record[r] = "departed"
  BY DEF Next, Sweep, vars, swarm, sweep, List, NextRelease, RemoveStack, RemoveVolume,
         NodeDone, PurgeFails, PurgeEnds, RemoveRecords, Report, RemoveStackFails,
         RemoveRecordsFails, Stop, ContainersGo, NodeGoes, NodeComes, HeirPlans, HeirDeploys,
         TypeOK
<1> QED
  BY <1>1, <1>2

\* What is taken up goes from the list to hand, and from there to the failures or
\* off the swarm.
LEMMA PendingStep == IInv /\ [Next]_vars => Pending'
<1> SUFFICES ASSUME IInv, [Next]_vars PROVE Pending'
  OBVIOUS
<1> USE DEF Pending
<1>0. TypeOK /\ Pending /\ Departing' \subseteq Departing
  BY DepartingShrinks DEF IInv, UninstallInv
<1>1. CASE List
  BY <1>0, <1>1 DEF List
<1>2. CASE NextRelease
  BY <1>0, <1>2 DEF NextRelease
<1>3. CASE RemoveStack \/ RemoveVolume \/ NodeDone \/ PurgeEnds
  BY <1>0, <1>3 DEF RemoveStack, RemoveVolume, NodeDone, PurgeEnds, sweep
<1>4. CASE PurgeFails \/ RemoveStackFails \/ RemoveRecordsFails
  BY <1>0, <1>4 DEF PurgeFails, RemoveStackFails, RemoveRecordsFails, Returns
<1>5. CASE RemoveRecords
  <2>1. at \notin Departing'
    BY <1>0, <1>5 DEF RemoveRecords, Departing, TypeOK
  <2> QED
    BY <1>0, <1>5, <2>1 DEF RemoveRecords, Returns
<1>6. CASE Report \/ Stop
  BY <1>6 DEF Report, Stop
<1>7. CASE ContainersGo \/ NodeGoes \/ NodeComes \/ HeirPlans \/ HeirDeploys \/ UNCHANGED vars
  BY <1>0, <1>7 DEF ContainersGo, NodeGoes, NodeComes, HeirPlans, HeirDeploys, vars, sweep
<1> QED
  BY <1>1, <1>2, <1>3, <1>4, <1>5, <1>6, <1>7 DEF Next, Sweep

\* A report is made over every release that departs.
LEMMA ReportStep == IInv /\ [Next]_vars => ReportIsTrue'
<1> SUFFICES ASSUME IInv, [Next]_vars, pruned' PROVE Departing' = {}
  BY DEF ReportIsTrue, Departing
<1>0. TypeOK /\ Departing' \subseteq Departing
  BY DepartingShrinks DEF IInv, UninstallInv
<1>1. CASE pruned
  BY <1>0, <1>1 DEF IInv, UninstallInv, ReportIsTrue, Departing
<1>2. CASE ~pruned
  <2>1. Report
    BY <1>2 DEF Next, Sweep, vars, List, NextRelease, RemoveStack, RemoveVolume, NodeDone,
           PurgeFails, PurgeEnds, RemoveRecords, RemoveStackFails, RemoveRecordsFails, Stop,
           ContainersGo, NodeGoes, NodeComes, HeirPlans, HeirDeploys
  <2>2. Departing \subseteq failed /\ \A r \in failed : record[r] = "none"
    BY <2>1 DEF Report, IInv, Pending
  <2> QED
    BY <1>0, <2>2 DEF Departing
<1> QED
  BY <1>1, <1>2

\* The release at hand loses its stack, its volumes and its records in this order.
LEMMA GoneStep == IInv /\ [Next]_vars => GoneSoFar'
<1> SUFFICES ASSUME IInv, [Next]_vars, at' \notin raced', pc' \in {"volumes", "records"}
             PROVE  /\ pc' = "volumes" =>
                         /\ at' \notin stack'
                         /\ \A n \in Nodes : <<at', n>> \in volume' => n \in nodes' \/ partly'
                    /\ pc' = "records" => ~Left(at)'
  BY DEF GoneSoFar
<1>0. TypeOK /\ GoneSoFar
  BY DEF IInv, UninstallInv
<1>1. CASE RemoveStack
  <2>1. ~volumes => ~Left(at)'
    BY <1>1 DEF RemoveStack, Left
  <2> QED
    BY <1>0, <1>1, <2>1 DEF RemoveStack, TypeOK
<1>2. CASE RemoveVolume
  BY <1>0, <1>2 DEF RemoveVolume, GoneSoFar, sweep
<1>3. CASE NodeDone
  BY <1>0, <1>3 DEF NodeDone, GoneSoFar, swarm
<1>4. CASE PurgeEnds
  <2>1. at \notin stack' /\ \A n \in Nodes : <<at, n>> \in volume' => at \in warned'
    BY <1>0, <1>4 DEF PurgeEnds, GoneSoFar, swarm, TypeOK
  <2> QED
    BY <1>4, <2>1 DEF PurgeEnds, Left
<1>5. CASE HeirDeploys
  <2> PICK q \in heirs :
        /\ stack' = stack \cup {q} /\ volume' = volume \cup ({q} \X Nodes)
        /\ warned' = warned \ {q} /\ UNCHANGED <<volumes, sweep>>
        /\ raced' = IF (at = q /\ pc \in {"stack", "volumes", "records"}) \/ q \in todo
                    THEN raced \cup {q} ELSE raced
    BY <1>5 DEF HeirDeploys
  <2>1. at \notin raced /\ q # at
    BY DEF sweep
  <2> QED
    BY <1>0, <2>1 DEF GoneSoFar, Left, sweep
<1>6. CASE ContainersGo \/ NodeGoes \/ NodeComes \/ HeirPlans \/ UNCHANGED vars
  <2>1. UNCHANGED <<volumes, stack, volume, sweep, warned, raced>>
    BY <1>6 DEF ContainersGo, NodeGoes, NodeComes, HeirPlans, vars, swarm
  <2> QED
    BY <1>0, <2>1 DEF GoneSoFar, Left, sweep
<1>7. ~(\/ List \/ NextRelease \/ PurgeFails \/ RemoveRecords \/ Report
        \/ RemoveStackFails \/ RemoveRecordsFails \/ Stop)
  BY DEF List, NextRelease, PurgeFails, RemoveRecords, Report, RemoveStackFails,
         RemoveRecordsFails, Stop, Returns
<1> QED
  BY <1>1, <1>2, <1>3, <1>4, <1>5, <1>6, <1>7 DEF Next, Sweep

LEMMA IStep == IInv /\ [Next]_vars => IInv'
  BY TypeStep, RecordsStep, ReportStep, GoneStep, PendingStep DEF IInv, UninstallInv

LEMMA InvariantHolds == Spec => []IInv
  BY IInit, IStep, PTL DEF Spec

\* A release without records has nothing left that nobody was told of, and an
\* application that is reported as emptied is: prune.Release's and Departed's order.
THEOREM UninstallSafe == Spec => []UninstallInv
<1>1. IInv => UninstallInv
  BY DEF IInv
<1> QED
  BY <1>1, InvariantHolds, PTL

-----------------------------------------------------------------------------
(* The refinement *)

\* All of the release that a deploy puts in place is there.
Whole(r) == r \in stack /\ \A n \in Nodes : <<r, n>> \in volume

\* While the records go last, a release is at one of the stages of Removal.
StageOf(r) ==
    IF record[r] = "none" THEN "gone" ELSE IF Whole(r) THEN "installed" ELSE "dismantling"

LEMMA StageIs ==
    /\ RecordsLast => Stage = [r \in Releases |-> StageOf(r)]
    /\ RecordsLast' => Stage' = [r \in Releases |-> StageOf(r)']
  BY DEF Stage, RecordsLast, Whole, StageOf

\* A step that concerns one release moves that one only.
LEMMA OneMoves ==
    ASSUME RecordsLast, RecordsLast', NEW a \in Releases,
           \A r \in Releases \ {a} : StageOf(r)' = StageOf(r)
    PROVE  Stage' = [Stage EXCEPT ![a] = StageOf(a)'] /\ Stage[a] = StageOf(a)
  BY StageIs

LEMMA NoneMoves ==
    ASSUME RecordsLast, RecordsLast', \A r \in Releases : StageOf(r)' = StageOf(r)
    PROVE  Stage' = Stage
  BY StageIs

\* Every step of the sweep, and around it, is one of Removal's or moves no release.
LEMMA RemovalStep ==
    TypeOK /\ RecordsLast /\ RecordsLast' /\ [Next]_vars => [Promise!Next]_Stage
<1> SUFFICES ASSUME TypeOK, RecordsLast, RecordsLast', [Next]_vars
             PROVE  [Promise!Next]_Stage
  OBVIOUS
<1>1. CASE RemoveStack \/ RemoveStackFails \/ RemoveVolume
  <2> PICK a \in Releases : a = at
    BY DEF TypeOK
  <2>1. /\ record' = record /\ stack' \in {stack, stack \ {a}}
        /\ volume' \subseteq volume
        /\ \A r \in Releases \ {a} : \A n \in Nodes :
              <<r, n>> \in volume' <=> <<r, n>> \in volume
    BY <1>1 DEF RemoveStack, RemoveStackFails, RemoveVolume, TypeOK
  <2>2. \A r \in Releases \ {a} : StageOf(r)' = StageOf(r)
    BY <2>1 DEF StageOf, Whole
  <2>3. Stage' = [Stage EXCEPT ![a] = StageOf(a)'] /\ Stage[a] = StageOf(a)
    BY <2>1, <2>2, OneMoves
  <2>4. \/ StageOf(a)' = StageOf(a)
        \/ StageOf(a) = "installed" /\ StageOf(a)' = "dismantling"
    <3>1. Whole(a)' => Whole(a)
      BY <2>1 DEF Whole
    <3>2. record'[a] = record[a]
      BY <2>1
    <3>3. Whole(a) \in BOOLEAN /\ Whole(a)' \in BOOLEAN
      BY DEF Whole
    <3> QED
      BY <3>1, <3>2, <3>3 DEF StageOf
  <2>5. CASE StageOf(a)' = StageOf(a)
    BY <2>1, <2>2, <2>5, NoneMoves
  <2>6. CASE StageOf(a) = "installed" /\ StageOf(a)' = "dismantling"
    BY <2>1, <2>3, <2>6 DEF Promise!Next, Promise!Dismantle
  <2> QED
    BY <2>4, <2>5, <2>6
<1>2. CASE RemoveRecords \/ RemoveRecordsFails
  <2> PICK a \in Releases : a = at
    BY DEF TypeOK
  <2>1. /\ stack' = stack /\ volume' = volume
        /\ record' \in {record, [record EXCEPT ![a] = "none"]}
    BY <1>2 DEF RemoveRecords, RemoveRecordsFails, TypeOK
  <2>2. \A r \in Releases \ {a} : StageOf(r)' = StageOf(r)
    BY <2>1 DEF StageOf, Whole, TypeOK
  <2>3. Stage' = [Stage EXCEPT ![a] = StageOf(a)'] /\ Stage[a] = StageOf(a)
    BY <2>1, <2>2, OneMoves
  <2>4. \/ StageOf(a)' = StageOf(a)
        \/ StageOf(a) # "gone" /\ StageOf(a)' = "gone"
    <3>1. Whole(a)' = Whole(a)
      BY <2>1 DEF Whole
    <3>2. record'[a] \in {record[a], "none"}
      BY <2>1 DEF TypeOK
    <3>3. Whole(a) \in BOOLEAN
      BY DEF Whole
    <3> QED
      BY <3>1, <3>2, <3>3 DEF StageOf
  <2>5. CASE StageOf(a)' = StageOf(a)
    BY <2>1, <2>2, <2>5, NoneMoves
  <2>6. CASE StageOf(a) # "gone" /\ StageOf(a)' = "gone"
    BY <2>1, <2>3, <2>6 DEF Promise!Next, Promise!Finish
  <2> QED
    BY <2>4, <2>5, <2>6
<1>3. CASE HeirDeploys
  <2> PICK q \in heirs :
        /\ stack' = stack \cup {q} /\ volume' = volume \cup ({q} \X Nodes)
        /\ record' = [record EXCEPT ![q] = "heir"]
    BY <1>3 DEF HeirDeploys
  <2>1. q \in Releases
    BY UninstallAssumption DEF TypeOK, UninstallAssumption
  <2>2. \A r \in Releases \ {q} : StageOf(r)' = StageOf(r)
    BY DEF StageOf, Whole, TypeOK
  <2>3. Stage' = [Stage EXCEPT ![q] = StageOf(q)'] /\ Stage[q] = StageOf(q)
    BY <2>1, <2>2, OneMoves
  <2>4. StageOf(q)' = "installed"
    BY <2>1 DEF StageOf, Whole, TypeOK
  <2>5. CASE StageOf(q) = "installed"
    BY <2>1, <2>2, <2>4, <2>5, NoneMoves
  <2>6. CASE StageOf(q) # "installed"
    BY <2>1, <2>3, <2>4, <2>6 DEF Promise!Next, Promise!Deploy
  <2> QED
    BY <2>5, <2>6
<1>4. CASE \/ List \/ NextRelease \/ NodeDone \/ PurgeFails \/ PurgeEnds \/ Report \/ Stop
           \/ ContainersGo \/ NodeGoes \/ NodeComes \/ HeirPlans \/ UNCHANGED vars
  <2>1. UNCHANGED <<stack, volume, record>>
    BY <1>4 DEF List, NextRelease, NodeDone, PurgeFails, PurgeEnds, Report, Stop, ContainersGo,
           NodeGoes, NodeComes, HeirPlans, vars, swarm
  <2> QED
    BY <2>1, NoneMoves DEF StageOf, Whole
<1> QED
  BY <1>1, <1>2, <1>3, <1>4 DEF Next, Sweep

\* The sweep call by call keeps what Removal promises: a release that has begun to
\* go is found by its records until all of it has gone, or is deployed again.
THEOREM UninstallRemoves == Spec => Removes
<1>1. Init => Promise!Init
  <2> SUFFICES ASSUME Init PROVE Stage = [r \in Releases |-> "installed"]
    BY DEF Promise!Init
  <2> QED
    BY DEF Init, Stage
<1>2. IInv /\ IInv' /\ [Next]_vars => [Promise!Next]_Stage
  BY RemovalStep DEF IInv, UninstallInv
<1> QED
  BY <1>1, <1>2, InvariantHolds, PTL DEF Spec, Removes, Promise!Spec
=============================================================================
