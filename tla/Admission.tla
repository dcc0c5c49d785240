----------------------------- MODULE Admission -----------------------------
(***************************************************************************)
(* Which names a stack may have: what rejectForbiddenResources refuses of  *)
(* the secrets, configs, volumes and networks a release declares or refers *)
(* to, and what the startup audit says an application's allowlist lacks    *)
(* (backend.go, allowaudit.go, audit.go).                                  *)
(*                                                                         *)
(* Swarm addresses all of them by name alone.  Whose a name is, is read    *)
(* off the swarm (holder), and off the controller's own service (mine).    *)
(***************************************************************************)
EXTENDS Naturals, FiniteSets

CONSTANTS
    Stacks,      \* release names, which are stack namespaces
    Names,       \* names of secrets, configs, volumes and networks
    Kind,        \* name -> "secret", "config", "volume", "network"
    Under,       \* name -> the stacks it is scoped under: those whose name it
                 \* begins with
    RecordLike,  \* names in the space of the release records
    Wired,       \* secrets among the files mounted into the controller
    Self,        \* releases the set marks as the controller's own
    Allow,       \* release -> the names its application permits
    None,        \* nobody: the name is free, or there is no such stack
    Nobody       \* there is such a thing, with no stack's label

ASSUME AdmissionAssumption ==
    /\ Kind \in [Names -> {"secret", "config", "volume", "network"}]
    /\ Under \in [Names -> SUBSET Stacks] /\ RecordLike \subseteq Names
    /\ Wired \subseteq Names /\ Self \subseteq Stacks
    /\ Allow \in [Stacks -> SUBSET Names]
    /\ None \notin Stacks \cup {Nobody} /\ Nobody \notin Stacks

\* A manifest, converted: what it declares, refers to as external, and which of
\* its volumes carry driver options.
Charts == [declares: SUBSET Names, external: SUBSET Names, driven: SUBSET Names]
Refs(chart) == chart.declares \cup chart.external

\* inControllersStack.  mine, here and below, is the controller's own service:
\* the stack it runs as, and the names it mounts.
Inside(mine, n) == mine.namespace \in Under[n]

\* ownMount, which spares what the controller's own release refers to, and the
\* volumes it declares, but not the secrets and configs it declares.
Spared(mine, s, chart, n) ==
    /\ s \in Self /\ n \in mine.mounted
    /\ n \in chart.declares => Kind[n] = "volume"

\* notOwnVolume: another stack under whose name it is also scoped holds it.
ForeignVolume(s, holder, n) ==
    \/ s \notin Under[n]
    \/ holder[n] \notin {s, None, Nobody} /\ holder[n] \in Under[n]

\* ownDeclared
OwnDeclared(s, holder, n) == s \in Under[n] /\ holder[n] \in {s, None}

\* What no allowlist can grant.
Forbidden(mine, s, chart, holder, n) ==
    \/ Kind[n] \in {"secret", "config"} /\ n \in RecordLike
    \/ /\ ~Spared(mine, s, chart, n)
       /\ \/ Kind[n] # "network" /\ n \in mine.mounted
          \/ Kind[n] = "secret" /\ n \in Wired
          \/ Kind[n] = "network" /\ Inside(mine, n) /\ s \notin Self
          \/ /\ Kind[n] = "network" /\ ~Inside(mine, n)
             /\ n \in chart.declares /\ holder[n] \notin {s, None}
          \/ Kind[n] = "volume" /\ n \in chart.declares /\ ForeignVolume(s, holder, n)

\* What it can.
Ungranted(mine, s, chart, holder, allow, n) ==
    /\ ~Spared(mine, s, chart, n) /\ n \notin allow
    /\ \/ n \in chart.external /\ ~(Kind[n] = "network" /\ Inside(mine, n))
       \/ /\ n \in chart.declares /\ Kind[n] \in {"secret", "config"}
          /\ ~OwnDeclared(s, holder, n)
       \/ n \in chart.driven /\ Kind[n] = "volume"
       \/ /\ n \in chart.declares /\ Kind[n] = "network"
          /\ ~Inside(mine, n) /\ s \notin Under[n]

\* rejectForbiddenResources lets the stack pass.
Admitted(mine, s, chart, holder, allow) ==
    \A n \in Refs(chart) :
        ~Forbidden(mine, s, chart, holder, n) /\ ~Ungranted(mine, s, chart, holder, allow, n)

-----------------------------------------------------------------------------
(* The startup audit *)

\* Permitted already, or the controller's own.
Passed(mine, allow, n) ==
    n \in allow \/ (IF Kind[n] = "network" THEN Inside(mine, n) ELSE n \in mine.mounted)

\* Of what a stack declares, what it may not without being permitted.
Lacking(s, chart, holder, n) ==
    CASE Kind[n] = "network" -> s \notin Under[n]
      [] Kind[n] = "volume"  -> n \in chart.driven /\ ~ForeignVolume(s, holder, n)
      [] OTHER               -> n \notin RecordLike /\ ~OwnDeclared(s, holder, n)

\* UnpermittedNames: the names an allowlist would have to name.
Need(mine, s, chart, holder, allow) ==
    {n \in Refs(chart) : /\ ~Passed(mine, allow, n)
                         /\ n \in chart.external \/ Lacking(s, chart, holder, n)}
=============================================================================
