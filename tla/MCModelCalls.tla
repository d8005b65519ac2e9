---------------------------- MODULE MCModelCalls ----------------------------
(***************************************************************************)
(* An instance of ModelCalls: two calls of one session.                    *)
(***************************************************************************)
EXTENDS ModelCalls, TLC

CONSTANTS c1, c2, s1

OneSession == (c1 :> s1) @@ (c2 :> s1)
=============================================================================
