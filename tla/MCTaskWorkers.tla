---------------------------- MODULE MCTaskWorkers ----------------------------
(***************************************************************************)
(* Symmetry for TaskWorkers.  The calls are not interchangeable: one has   *)
(* side effects.                                                           *)
(***************************************************************************)
EXTENDS TaskWorkers, TLC

Symmetry ==
    Permutations(Task) \cup Permutations(Run) \cup Permutations(Output)
    \cup Permutations(ClientRequest) \cup Permutations(ClientAnswer)
==============================================================================
