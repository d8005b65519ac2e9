------------------------- MODULE MCManagedProcesses -------------------------
(***************************************************************************)
(* An instance of ManagedProcesses: two calls of two sessions that compete *)
(* for ports, or one call that is started again.                           *)
(***************************************************************************)
EXTENDS ManagedProcesses, TLC

CONSTANTS p1, p2, s1, s2, web

MCCall == {p1, p2}
MCSession == {s1, s2}
OneCall == p1 :> s1
OneName == p1 :> web
TwoSessions == (p1 :> s1) @@ (p2 :> s2)
SameName == (p1 :> web) @@ (p2 :> web)
=============================================================================
