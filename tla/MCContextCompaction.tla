------------------------ MODULE MCContextCompaction ------------------------
(***************************************************************************)
(* Instances of ContextCompaction: two tasks of one session whose model    *)
(* reuses the ids of its calls.                                            *)
(***************************************************************************)
EXTENDS ContextCompaction

CONSTANTS t1, t2, k1, k2
=============================================================================
