----------------------------- MODULE MCTaskStore -----------------------------
(* Model checking of the store and of the promise it keeps.  Identifiers   *)
(* are interchangeable, except that a call of a side-effecting tool        *)
(* differs from one of another tool.                                       *)
EXTENDS TaskStoreLifecycle, TLC

Symmetry ==
    Permutations(Session) \cup Permutations(Task) \cup Permutations(Run)
    \cup Permutations(Owner) \cup Permutations(Output)
    \cup Permutations(ClientAnswer) \cup Permutations(SideEffecting)
    \cup Permutations(Call \ SideEffecting)
==============================================================================
