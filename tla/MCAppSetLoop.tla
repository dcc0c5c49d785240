---------------------------- MODULE MCAppSetLoop ----------------------------
(* Instances of AppSetLoop for TLC. *)
EXTENDS AppSetLoop, TLC

CONSTANTS a, b, r1, r2

\* The application set with the given specs of a and b.
Set(forA, forB) == [n \in Names |-> IF n = a THEN forA ELSE forB]

\* A rename: b takes over the release of a and brings one of its own.  No name
\* is ever given two specs.
RenameSets == {Set({r1}, None), Set(None, {r1, r2}), Empty}

\* An edit: b, which goes on running, takes over the release of a.
HandoverSets == {Set({r1}, {r2}), Set(None, {r1, r2})}

\* One application, with a release and without, or none.
OneSets == {Set({r1}, None), Set({}, None), Empty}
=============================================================================
