-------------------------- MODULE TaskStoreLifecycle --------------------------
(* The store keeps the promise of TaskLifecycle: each variable of the      *)
(* promise is read off the rows.                                           *)
EXTENDS TaskStore

stageOf == [s \in Session |->
    CASE sessionStatus[s] = "absent" -> "new"
      [] sessionStatus[s] = "active" -> "open"
      [] OTHER -> "closed"]

executorOf == [t \in Task |->
    IF RunningRuns(t) = {} THEN None ELSE CHOOSE r \in RunningRuns(t) : TRUE]

Lifecycle == INSTANCE TaskLifecycle WITH
    Question <- Call,
    stage <- stageOf,
    home <- taskSession,
    status <- taskStatus,
    executor <- executorOf,
    granted <- {r \in Run : runStatus[r] # "absent"},
    asked <- [t \in Task |-> PendingRequests(t)],
    retired <- {c \in Call : reqStatus[c] \in {"answered", "expired", "cancelled"}}

(* Every behaviour of the store is one the clients were promised. *)
KeepsLifecycle == Lifecycle!Spec

(* At most one run executes in a session, and none once its deletion has   *)
(* begun (uniq_agent_tasks_active_session, uniq_agent_task_runs_active and *)
(* the cancellation inside beginSessionDeletion, together).                *)
OneExecutorPerSession == Lifecycle!OneExecutorPerSession
==============================================================================
