------------------------- MODULE SessionEventsDocs -------------------------
(***************************************************************************)
(* What the documentation and the comments say of the events of a session. *)
(***************************************************************************)
EXTENDS SessionEvents

(* "task_run.upserted: update the status by version" (docs/03, section 4): *)
(* a client never shows a closed run as open again.  The events of runs    *)
(* carry no version, and those of two flows may change places.             *)
RunsStayClosed ==
    [][\A t \in Task, r \in Run :
        client.stage = "following" /\ client' = client =>
            (shown.run[t][r] \in ClosedRun => shown.run[t][r]' \in ClosedRun)]_vars

(* "The end of its task clears the plan too, against events out of order"  *)
(* (docs/03, section 4): once all events are out the client shows no plan  *)
(* of a task that is over.  The plan.updated of the last update may come   *)
(* after the events of the end.                                            *)
NoPlanOfFinishedTask ==
    client.stage = "following" /\ AllPublished /\ shown.plan.task # None =>
        task[shown.plan.task].status \notin Over

(* "Complete best-effort projection batch for one committed Task           *)
(* terminalization" (task-finish-events.ts): the events of a cancelled     *)
(* task tell the end of every run it closed.  They tell of one.            *)
ClosedRunsAreAnnounced ==
    AllPublished => \A t \in Task, r \in Run :
        run[t][r] \in ClosedRun => <<t, r>> \in announced
=============================================================================
