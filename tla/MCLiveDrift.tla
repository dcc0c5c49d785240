---------------------------- MODULE MCLiveDrift ----------------------------
(* The command lines of the instances: a word is the sequence of its parts. *)
EXTENDS LiveDrift

MCWords == {<<>>, <<<<"run">>>>, <<<<"run">>, <<"all">>>>}
MCGrouped == MCWords \cup {<<<<"run", "all">>>>}
=============================================================================
