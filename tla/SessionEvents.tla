--------------------------- MODULE SessionEvents ---------------------------
(***************************************************************************)
(* What a client sees of a session: the events each flow and execution     *)
(* publishes after its commands, one by one, and the SessionView it loads  *)
(* once it has subscribed.  A command and the first of its events are two  *)
(* steps, the commands of other flows and their events may come between.   *)
(*                                                                         *)
(* Of a session this keeps its tasks, their runs and the plan; messages,   *)
(* tool calls and requests are announced like tasks.  The client is not    *)
(* part of the source: it follows the rules of docs/03, section 4, as the  *)
(* fields of the events allow.                                             *)
(***************************************************************************)
EXTENDS Naturals, Sequences

CONSTANTS
    Task,
    None,
    MaxPlanUpdates,    \* bound: plans of one task
    MaxConnections     \* bound: subscriptions of the client

ASSUME NoneAssumption == None \notin Task
ASSUME BoundsAssumption == {MaxPlanUpdates, MaxConnections} \subseteq Nat

VARIABLES
    task,       \* agent_tasks: status and version
    run,        \* agent_task_runs: status of the first and the second run
    plan,       \* agent_active_plans: the task and the version
    outbox,     \* events each actor has yet to publish
    client,     \* its subscription, and the view it is loading
    shown,      \* what it shows of tasks, runs and plan
    announced   \* history: runs the stream has told the end of

store == <<task, run, plan>>
vars == <<store, outbox, client, shown, announced>>

Run == {1, 2}
OpenRun == {"running", "paused"}
ClosedRun == {"completed", "cancelled"}
Active == {"created", "running", "waiting"}
Over == {"completed", "cancelled"}

(* The API requests of a task and its execution. *)
Actor == Task \X {"create", "repeat", "answer", "cancel", "execute"}

Row(status, version) == [status |-> status, version |-> version]
NoTask == Row("none", 0)
NoPlan == [task |-> None, version |-> 0]
Nothing == [task |-> [t \in Task |-> NoTask],
            run |-> [t \in Task |-> [r \in Run |-> "none"]],
            plan |-> NoPlan]
Store == [task |-> task, run |-> run, plan |-> plan]

Init ==
    /\ task = Nothing.task
    /\ run = Nothing.run
    /\ plan = NoPlan
    /\ outbox = [a \in Actor |-> <<>>]
    /\ client = [stage |-> "away", view |-> Nothing, connections |-> 0]
    /\ shown = Nothing
    /\ announced = {}

-----------------------------------------------------------------------------
(* Events.  Those of a task and of a plan have a version, that of a run has *)
(* none, that of a cleared plan names its task.                            *)

TaskUpserted(t, row) == [type |-> "task", task |-> t, row |-> row]
RunUpserted(t, r, status) == [type |-> "run", task |-> t, run |-> r, status |-> status]
PlanUpdated(p) == [type |-> "plan", plan |-> p]
PlanCleared(t) == [type |-> "cleared", task |-> t]

Idle(a) == outbox[a] = <<>>

(* The next command of an actor follows the events of its last one. *)
Announces(a, events) == Idle(a) /\ outbox' = [outbox EXCEPT ![a] = events]

(* taskFinishEvents: the run, the task, and that its plan is gone. *)
FinishEvents_RunOnly(t, runs, row) == runs
FinishEvents(t, runs, row) ==
    runs \o <<TaskUpserted(t, row)>>
         \o (IF plan.task = t THEN <<PlanCleared(t)>> ELSE <<>>)

-----------------------------------------------------------------------------
(* The flows and the execution of a task *)

NextRow(t, status) == Row(status, task[t].version + 1)
Quiet == UNCHANGED <<client, shown, announced>>

CreateEvents_WithStart(t) ==
    <<TaskUpserted(t, Row("created", 0)), TaskUpserted(t, Row("running", 1))>>
CreateEvents(t) == <<TaskUpserted(t, Row("created", 0))>>

CreateTask(t) ==
    /\ task[t] = NoTask
    /\ \A u \in Task : task[u].status \notin Active
    /\ task' = [task EXCEPT ![t] = Row("created", 0)]
    /\ Announces(<<t, "create">>, CreateEvents(t))
    /\ UNCHANGED <<run, plan>> /\ Quiet

StartTaskRun(t) ==
    /\ task[t].status = "created"
    /\ task' = [task EXCEPT ![t] = NextRow(t, "running")]
    /\ run' = [run EXCEPT ![t][1] = "running"]
    /\ Announces(<<t, "create">>,
                 <<TaskUpserted(t, task'[t]), RunUpserted(t, 1, "running")>>)
    /\ UNCHANGED plan /\ Quiet

(* A request with a clientRequestId already used tells of the task it finds. *)
RepeatRequest(t) ==
    /\ task[t].status # "none"
    /\ Announces(<<t, "repeat">>, <<TaskUpserted(t, task[t])>>)
    /\ UNCHANGED store /\ Quiet

(* The execution is dispatched after the events of the start. *)
Starter(r) == IF r = 1 THEN "create" ELSE "answer"
Executes(t, r) ==
    /\ task[t].status = "running" /\ run[t][r] = "running"
    /\ Idle(<<t, Starter(r)>>)

UpdatePlan(t) ==
    /\ \E r \in Run : Executes(t, r)
    /\ plan.task \in {None, t} /\ plan.version < MaxPlanUpdates
    /\ plan' = [task |-> t,
                version |-> IF plan.task = t THEN plan.version + 1 ELSE 0]
    /\ Announces(<<t, "execute">>, <<PlanUpdated(plan')>>)
    /\ UNCHANGED <<task, run>> /\ Quiet

WaitForUserInput(t) ==
    /\ Executes(t, 1)
    /\ run' = [run EXCEPT ![t][1] = "paused"]
    /\ task' = [task EXCEPT ![t] = NextRow(t, "waiting")]
    /\ Announces(<<t, "execute">>,
                 <<RunUpserted(t, 1, "paused"), TaskUpserted(t, task'[t])>>)
    /\ UNCHANGED plan /\ Quiet

(* The paused run stays as it is. *)
AnswerUserInput(t) ==
    /\ task[t].status = "waiting"
    /\ run' = [run EXCEPT ![t][2] = "running"]
    /\ task' = [task EXCEPT ![t] = NextRow(t, "running")]
    /\ Announces(<<t, "answer">>,
                 <<TaskUpserted(t, task'[t]), RunUpserted(t, 2, "running")>>)
    /\ UNCHANGED plan /\ Quiet

Ends(t, status) ==
    /\ task' = [task EXCEPT ![t] = NextRow(t, status)]
    /\ plan' = IF plan.task = t THEN NoPlan ELSE plan

(* A failure ends a task in the same way. *)
CompleteTask(t) ==
    \E r \in Run :
        /\ Executes(t, r)
        /\ run' = [run EXCEPT ![t][r] = "completed"]
        /\ Ends(t, "completed")
        /\ Announces(<<t, "execute">>,
                     FinishEvents(t, <<RunUpserted(t, r, "completed")>>, task'[t]))
        /\ Quiet

(* Every open run is closed; of these the command returns one. *)
CancelTask(t) ==
    LET open == {r \in Run : run[t][r] \in OpenRun} IN
    /\ task[t].status \in Active
    /\ run' = [run EXCEPT ![t] = [r \in Run |-> IF r \in open THEN "cancelled" ELSE @[r]]]
    /\ Ends(t, "cancelled")
    /\ \E runs \in IF open = {} THEN {<<>>}
                   ELSE {<<RunUpserted(t, r, "cancelled")>> : r \in open} :
        Announces(<<t, "cancel">>, FinishEvents(t, runs, task'[t]))
    /\ Quiet

-----------------------------------------------------------------------------
(* The client *)

Newer(a, b) == IF b.status = "none" \/ a.version > b.version THEN a ELSE b

(* A plan replaces an older one of its task, or one of another task. *)
ShowPlan(p) == IF shown.plan.task = p.task /\ shown.plan.version > p.version
               THEN shown.plan ELSE p
ClearPlan(t) == IF shown.plan.task = t THEN NoPlan ELSE shown.plan

Show(e) ==
    shown' = CASE e.type = "task" ->
                    [shown EXCEPT !.task[e.task] = Newer(e.row, @),
                                  !.plan = IF e.row.status \in Over
                                           THEN ClearPlan(e.task) ELSE @]
               [] e.type = "run" -> [shown EXCEPT !.run[e.task][e.run] = e.status]
               [] e.type = "plan" -> [shown EXCEPT !.plan = ShowPlan(e.plan)]
               [] e.type = "cleared" -> [shown EXCEPT !.plan = ClearPlan(e.task)]

EndsTold(e) == IF e.type = "run" /\ e.status \in ClosedRun
               THEN {<<e.task, e.run>>} ELSE {}

(* The bus keeps nothing: who is not subscribed misses the event. *)
Publish(a) ==
    /\ ~Idle(a)
    /\ LET e == Head(outbox[a]) IN
        /\ announced' = announced \cup EndsTold(e)
        /\ IF client.stage = "away" THEN UNCHANGED shown ELSE Show(e)
    /\ outbox' = [outbox EXCEPT ![a] = Tail(@)]
    /\ UNCHANGED <<store, client>>

Subscribe ==
    /\ client.stage = "away" /\ client.connections < MaxConnections
    /\ client' = [client EXCEPT !.stage = "subscribed", !.connections = @ + 1]
    /\ shown' = Nothing
    /\ UNCHANGED <<store, outbox, announced>>

LoadView ==
    /\ client.stage = "subscribed"
    /\ client' = [client EXCEPT !.stage = "loading", !.view = Store]
    /\ UNCHANGED <<store, outbox, shown, announced>>

(* The view fills in what no event has told since, by version if there is one. *)
ShowView ==
    /\ client.stage = "loading"
    /\ client' = [client EXCEPT !.stage = "following", !.view = Nothing]
    /\ shown' = [task |-> [t \in Task |-> Newer(client.view.task[t], shown.task[t])],
                 run |-> [t \in Task |-> [r \in Run |->
                            IF shown.run[t][r] = "none" THEN client.view.run[t][r]
                            ELSE shown.run[t][r]]],
                 plan |-> IF shown.plan = NoPlan THEN client.view.plan ELSE shown.plan]
    /\ UNCHANGED <<store, outbox, announced>>

Disconnect ==
    /\ client.stage # "away"
    /\ client' = [client EXCEPT !.stage = "away", !.view = Nothing]
    /\ shown' = Nothing
    /\ UNCHANGED <<store, outbox, announced>>

Next ==
    \/ \E t \in Task :
        \/ CreateTask(t) \/ StartTaskRun(t) \/ RepeatRequest(t)
        \/ UpdatePlan(t) \/ WaitForUserInput(t) \/ AnswerUserInput(t)
        \/ CompleteTask(t) \/ CancelTask(t)
    \/ \E a \in Actor : Publish(a)
    \/ Subscribe \/ LoadView \/ ShowView \/ Disconnect

Spec == Init /\ [][Next]_vars

(* A flow publishes the events of its command one after the other. *)
FairSpec == Spec /\ \A a \in Actor : WF_vars(Publish(a))

-----------------------------------------------------------------------------
(* Properties *)

TypeOK ==
    /\ \A s \in {Store, shown, client.view} :
        /\ \A t \in Task : /\ s.task[t].status \in {"none"} \cup Active \cup Over
                           /\ s.task[t].version \in 0..4
                           /\ \A r \in Run : s.run[t][r] \in {"none"} \cup OpenRun \cup ClosedRun
        /\ s.plan.task \in Task \cup {None} /\ s.plan.version \in 0..MaxPlanUpdates
    /\ \A a \in Actor : Len(outbox[a]) <= 3
    /\ client.stage \in {"away", "subscribed", "loading", "following"}
    /\ client.connections \in 0..MaxConnections
    /\ announced \subseteq Task \X Run

AllPublished == \A a \in Actor : Idle(a)

(* Whatever the order of the events of different flows, and wherever the   *)
(* load of the view falls among them, a client that subscribed first shows *)
(* every task as it is once all events are out.                            *)
TasksAreShown ==
    client.stage = "following" /\ AllPublished => shown.task = task

(* No event tells of a state of a task before it is committed. *)
ShownIsCommitted == \A t \in Task : shown.task[t].version <= task[t].version

(* The end of a task reaches a client that stays. *)
EndsAreShown ==
    \A t \in Task :
        client.stage = "following" /\ task[t].status \in Over
            ~> client.stage # "following" \/ shown.task[t].status \in Over
=============================================================================
