-------------------------- MODULE MCSessionEvents --------------------------
(***************************************************************************)
(* An instance of SessionEvents: one task, with the two runs an answered   *)
(* question gives it.                                                      *)
(***************************************************************************)
EXTENDS SessionEventsDocs

CONSTANT t1
=============================================================================
