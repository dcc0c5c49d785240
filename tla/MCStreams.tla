------------------------------ MODULE MCStreams ------------------------------
(* The events of the instance, by the application each is about. *)
EXTENDS Streams

CONSTANTS edge, core

MCAbout == <<edge, core, edge>>
=============================================================================
