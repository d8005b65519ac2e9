------------------------- MODULE SessionDeletionDocs -------------------------
(***************************************************************************)
(* What the documents say of the deletion of a session, for comparison     *)
(* with what the code does.                                                *)
(***************************************************************************)
EXTENDS SessionDeletion

(* docs/02-execution-recovery-and-hitl.md, 7: the processes are stopped,   *)
(* and the archived session is deleted after that succeeded.  A list that  *)
(* joins a refresh made before the process was spawned does not show it.   *)
DeletedSessionHasNoProcess ==
    row = "none" => \A p \in Call : ~Alive(p)

(* docs/02-execution-recovery-and-hitl.md, 7: after the fence the          *)
(* executions of this process are aborted and waited for, and the session  *)
(* is deleted when that succeeded.  One that was loaded before the fence   *)
(* registers after the abort has found none: it works, for a session that  *)
(* is gone, until the store refuses its next step.                         *)
DeletedSessionHasNoExecution ==
    row = "none" => \A l \in Life : ~Registered(l)

(* docs/02-execution-recovery-and-hitl.md, 7: the workspace goes after the *)
(* fence was committed.  The slower of two overlapping deletions removes   *)
(* the workspace of a session that was created again since.                *)
RemovesOnlyFencedWorkspaces ==
    [][files /\ ~files' => row # "active"]_allVars

(* docs/02-execution-recovery-and-hitl.md, 7: the event stream is closed   *)
(* only after the whole deletion succeeded.  The slower deletion finds an  *)
(* active session, deletes nothing, and closes the stream all the same.    *)
ClosesOnlyDeletedStreams ==
    [][stream = "open" /\ stream' = "closed" => row # "active"]_allVars
=============================================================================
