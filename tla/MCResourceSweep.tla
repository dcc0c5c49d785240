-------------------------- MODULE MCResourceSweep ---------------------------
(* Instances of ResourceSweep for TLC. *)
EXTENDS ResourceSweep, TLC

CONSTANTS web, job, conf1, conf2, net

\* A config rotated by content, a service and a network that are dropped.
SomeCharts == {{web, job, conf1, net}, {web, conf2}}
=============================================================================
