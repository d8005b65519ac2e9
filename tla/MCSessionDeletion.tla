-------------------------- MODULE MCSessionDeletion --------------------------
(***************************************************************************)
(* An instance of SessionDeletion: one session with one process and one or *)
(* two requests to delete it.                                              *)
(***************************************************************************)
EXTENDS SessionDeletionDocs, TLC

CONSTANTS d1, d2, p1, s1, web

Call1 == {p1}
OneDeleter == {d1}
TwoDeleters == {d1, d2}
OneStopper == {d1} \X {p1}
TwoStoppers == {d1, d2} \X {p1}
OneCall == p1 :> s1
OneName == p1 :> web
=============================================================================
