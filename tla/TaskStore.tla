------------------------------ MODULE TaskStore ------------------------------
(***************************************************************************)
(* The PostgreSQL store of the agent runtime: sessions, tasks, the runs of *)
(* a task, the tool calls of a run, the questions put to the user and the  *)
(* active plan.  Each action is one command of src/storage/postgres, that  *)
(* is, one transaction that holds the row lock of the session, so it is    *)
(* atomic.  A command that throws rolls back and a command that finds its  *)
(* work already done returns what is stored: neither changes a row, and    *)
(* neither has an action here.                                             *)
(*                                                                         *)
(* One variable per column the commands read back.  An identifier that no  *)
(* insert has used yet has status "absent".  Identifiers are random and are *)
(* never used twice; that of a session may be derived from the client's    *)
(* request, and a session created again after its deletion counts as a new *)
(* one.  Wording, payloads, timestamps nobody compares and the session     *)
(* version nobody compares are left out.                                   *)
(*                                                                         *)
(* An operator named X_Fault is X with that fault, as the code might have  *)
(* had it; no definition uses it.  It shows that a property notices it.    *)
(***************************************************************************)
EXTENDS Integers, FiniteSetsExt

CONSTANTS
    Session, Task, Run, Call,   \* row identifiers; a question has its call's
    Output,                     \* model outputs, the batches calls come from
    Owner,                      \* workers
    ClientRequest, ClientAnswer,\* idempotency keys chosen by clients
    SideEffecting,              \* calls of tools declared side_effecting
    Lease,                      \* how long one grant of ownership lasts
    AnswerTtl,                  \* how long a question with a deadline stays open
    MaxTime,                    \* bound on the clock
    None                        \* SQL null

ASSUME SideEffectingAssumption == SideEffecting \subseteq Call
ASSUME LeaseAssumption == Lease \in Nat \ {0}
ASSUME AnswerTtlAssumption == AnswerTtl \in Nat \ {0}
ASSUME MaxTimeAssumption == MaxTime \in Nat
ASSUME NoneAssumption ==
    None \notin Session \cup Task \cup Run \cup Call \cup Output \cup Owner
                        \cup ClientRequest \cup ClientAnswer \cup Int \cup {"completed", "failed"}

VARIABLES
    sessionStatus,
    taskSession, taskRequest, taskStatus, taskVersion,
    runTask, runNo, runStatus, runOwner, runExpiry,
    callTask, callRun, callOutput, callStatus, callStarted, callResult,
    reqStatus, reqExpiry, reqAnswer,
    plan,                       \* the task whose plan the session shows
    now                         \* the clock of the machine the workers share

taskVars == <<taskSession, taskRequest, taskStatus, taskVersion>>
runVars == <<runTask, runNo, runStatus, runOwner, runExpiry>>
callLinks == <<callTask, callRun, callOutput>>
callVars == <<callLinks, callStatus, callStarted, callResult>>
reqVars == <<reqStatus, reqExpiry, reqAnswer>>
vars == <<sessionStatus, taskVars, runVars, callVars, reqVars, plan, now>>

-----------------------------------------------------------------------------
(* States of the rows. *)

ActiveTaskStatus == {"created", "running", "waiting_for_user"}
TerminalTaskStatus == {"completed", "failed", "cancelled"}
TaskStatus == {"absent"} \cup ActiveTaskStatus \cup TerminalTaskStatus
RunStatus == {"absent", "running", "paused", "completed", "failed",
              "interrupted", "cancelled"}
ActiveCallStatus == {"pending", "running", "waiting_for_user"}
SettledCallStatus == {"completed", "failed", "outcome_unknown", "cancelled"}
CallStatus == {"absent"} \cup ActiveCallStatus \cup SettledCallStatus
RequestStatus == {"absent", "pending", "answered", "expired", "cancelled"}

TypeOK ==
    /\ sessionStatus \in [Session -> {"absent", "active", "archived", "deleted"}]
    /\ taskSession \in [Task -> Session \cup {None}]
    /\ taskRequest \in [Task -> ClientRequest \cup {None}]
    /\ taskStatus \in [Task -> TaskStatus]
    /\ taskVersion \in [Task -> Nat]
    /\ runTask \in [Run -> Task \cup {None}]
    /\ runNo \in [Run -> Nat]
    /\ runStatus \in [Run -> RunStatus]
    /\ runOwner \in [Run -> Owner \cup {None}]
    /\ runExpiry \in [Run -> Nat \cup {None}]
    /\ callTask \in [Call -> Task \cup {None}]
    /\ callRun \in [Call -> Run \cup {None}]
    /\ callOutput \in [Call -> Output \cup {None}]
    /\ callStatus \in [Call -> CallStatus]
    /\ callStarted \in [Call -> BOOLEAN]
    /\ callResult \in [Call -> {None, "completed", "failed"}]
    /\ reqStatus \in [Call -> RequestStatus]
    /\ reqExpiry \in [Call -> Nat \cup {None}]
    /\ reqAnswer \in [Call -> ClientAnswer \cup {None}]
    /\ plan \in [Session -> Task \cup {None}]
    /\ now \in Nat

Init ==
    /\ sessionStatus = [s \in Session |-> "absent"]
    /\ taskSession = [t \in Task |-> None]
    /\ taskRequest = [t \in Task |-> None]
    /\ taskStatus = [t \in Task |-> "absent"]
    /\ taskVersion = [t \in Task |-> 0]
    /\ runTask = [r \in Run |-> None]
    /\ runNo = [r \in Run |-> 0]
    /\ runStatus = [r \in Run |-> "absent"]
    /\ runOwner = [r \in Run |-> None]
    /\ runExpiry = [r \in Run |-> None]
    /\ callTask = [c \in Call |-> None]
    /\ callRun = [c \in Call |-> None]
    /\ callOutput = [c \in Call |-> None]
    /\ callStatus = [c \in Call |-> "absent"]
    /\ callStarted = [c \in Call |-> FALSE]
    /\ callResult = [c \in Call |-> None]
    /\ reqStatus = [c \in Call |-> "absent"]
    /\ reqExpiry = [c \in Call |-> None]
    /\ reqAnswer = [c \in Call |-> None]
    /\ plan = [s \in Session |-> None]
    /\ now = 0

-----------------------------------------------------------------------------
(* What the commands share. *)

(* A caller reads its clock before it has the connection and the session   *)
(* lock, so the time a command works with may be any earlier one.          *)
CallerTime == 0 .. now

(* lockAgentSession: the session exists and is not being deleted. *)
SessionActive(s) == sessionStatus[s] = "active"

(* lockAgentSessionForTask: the task exists, in a session that is active. *)
TaskLocked(t) ==
    /\ taskStatus[t] # "absent"
    /\ SessionActive(taskSession[t])

(* assertTaskRunOwnership: the fence every write of a worker passes. *)
OwnsRun(t, r, o, at) ==
    /\ taskStatus[t] = "running"
    /\ runTask[r] = t
    /\ runStatus[r] = "running"
    /\ runOwner[r] = o
    /\ runExpiry[r] > at

NextRunNo_OpenRunsOnly(t) ==
    Max({0} \cup {runNo[r] : r \in {x \in Run : runTask[x] = t
                                               /\ runStatus[x] = "running"}}) + 1

(* select coalesce(max(run_no), 0) + 1 *)
NextRunNo(t) == Max({0} \cup {runNo[r] : r \in {x \in Run : runTask[x] = t}}) + 1

InsertRunningRun(r, t, o, at) ==
    /\ runStatus[r] = "absent"
    /\ runTask' = [runTask EXCEPT ![r] = t]
    /\ runNo' = [runNo EXCEPT ![r] = NextRunNo(t)]
    /\ runStatus' = [runStatus EXCEPT ![r] = "running"]
    /\ runOwner' = [runOwner EXCEPT ![r] = o]
    /\ runExpiry' = [runExpiry EXCEPT ![r] = at + Lease]

(* A run that leaves "running" gives its owner and lease up. *)
CloseRuns(R, status) ==
    /\ runStatus' = [r \in Run |-> IF r \in R THEN status ELSE runStatus[r]]
    /\ runOwner' = [r \in Run |-> IF r \in R THEN None ELSE runOwner[r]]
    /\ runExpiry' = [r \in Run |-> IF r \in R THEN None ELSE runExpiry[r]]
    /\ UNCHANGED <<runTask, runNo>>

(* A task that moves changes status and version together. *)
MoveTask(t, status) ==
    /\ taskStatus' = [taskStatus EXCEPT ![t] = status]
    /\ taskVersion' = [taskVersion EXCEPT ![t] = @ + 1]
    /\ UNCHANGED <<taskSession, taskRequest>>

ClearPlans_OfRunningTasks(T) ==
    plan' = [s \in Session |->
        IF plan[s] \in T /\ taskStatus[plan[s]] = "running" THEN None ELSE plan[s]]

ClearPlans(T) ==
    plan' = [s \in Session |-> IF plan[s] \in T THEN None ELSE plan[s]]

TerminalizedCalls_RunningUnknown(T, status) ==
    [c \in Call |->
        IF callTask[c] \in T /\ status[c] \in ActiveCallStatus
        THEN IF c \in SideEffecting /\ status[c] = "running"
             THEN "outcome_unknown" ELSE "cancelled"
        ELSE status[c]]

TerminalizedCalls_SettledToo(T, status) ==
    [c \in Call |->
        IF callTask[c] \in T
        THEN IF c \in SideEffecting /\ callStarted[c]
             THEN "outcome_unknown" ELSE "cancelled"
        ELSE status[c]]

(* terminalizeTaskChildren, for the calls: a side effect that was started  *)
(* may have happened, and nobody will ever know.                           *)
TerminalizedCalls(T, status) ==
    [c \in Call |->
        IF callTask[c] \in T /\ status[c] \in ActiveCallStatus
        THEN IF c \in SideEffecting /\ callStarted[c]
             THEN "outcome_unknown" ELSE "cancelled"
        ELSE status[c]]

TerminalizedRequests_Forgotten(T, status) == status

(* terminalizeTaskChildren, for the questions. *)
TerminalizedRequests(T, status) ==
    [c \in Call |->
        IF callTask[c] \in T /\ status[c] = "pending"
        THEN "cancelled" ELSE status[c]]

(* assertNoActiveTaskChildren *)
NoActiveChildren(t) ==
    \A c \in Call : callTask[c] = t => /\ callStatus[c] \notin ActiveCallStatus
                                       /\ reqStatus[c] # "pending"

Cancellable_StartedOnly(T) ==
    {t \in T : taskStatus[t] \in {"running", "waiting_for_user"}}

(* The early return of cancelLockedTask leaves a terminal task alone. *)
Cancellable(T) == {t \in T : taskStatus[t] \in ActiveTaskStatus}

OpenRuns_PausedOnly(T) == {r \in Run : runTask[r] \in T /\ runStatus[r] = "paused"}

OpenRuns(T) ==
    {r \in Run : runTask[r] \in T /\ runStatus[r] \in {"running", "paused"}}

(* cancelLockedTask, for every task of T. *)
CancelLockedTasks(T) ==
    LET active == Cancellable(T)
    IN /\ CloseRuns(OpenRuns(active), "cancelled")
       /\ callStatus' = TerminalizedCalls(active, callStatus)
       /\ reqStatus' = TerminalizedRequests(active, reqStatus)
       /\ taskStatus' = [t \in Task |-> IF t \in active THEN "cancelled"
                                        ELSE taskStatus[t]]
       /\ taskVersion' = [t \in Task |-> IF t \in active THEN taskVersion[t] + 1
                                         ELSE taskVersion[t]]
       /\ ClearPlans(active)
       /\ UNCHANGED <<taskSession, taskRequest, callLinks, callStarted,
                      callResult, reqExpiry, reqAnswer, now>>

-----------------------------------------------------------------------------
(* Sessions. *)

CreateSession(s) ==
    /\ sessionStatus[s] = "absent"
    /\ sessionStatus' = [sessionStatus EXCEPT ![s] = "active"]
    /\ UNCHANGED <<taskVars, runVars, callVars, reqVars, plan, now>>

BeginSessionDeletion(s) ==
    /\ sessionStatus[s] \in {"active", "archived"}
    /\ sessionStatus' = [sessionStatus EXCEPT ![s] = "archived"]
    /\ CancelLockedTasks({t \in Task : taskSession[t] = s})

(* The delete cascades to every row below the session.  No row outlives    *)
(* its session and every command starts from the session row, so the one   *)
(* status stands for all of them: the other columns keep what they had.    *)
FinalizeDeletion(s) ==
    /\ sessionStatus[s] = "archived"
    /\ sessionStatus' = [sessionStatus EXCEPT ![s] = "deleted"]
    /\ UNCHANGED <<taskVars, runVars, callVars, reqVars, plan, now>>

-----------------------------------------------------------------------------
(* Tasks and their runs. *)

(* The two partial unique indexes of agent_tasks are what rejects a second *)
(* active task and a client request that was already turned into a task.   *)
CreateTaskWithUserMessage(t, s, k) ==
    /\ SessionActive(s)
    /\ taskStatus[t] = "absent"
    /\ \A u \in Task : taskSession[u] = s =>
            /\ taskStatus[u] \notin ActiveTaskStatus
            /\ k # None => taskRequest[u] # k
    /\ taskSession' = [taskSession EXCEPT ![t] = s]
    /\ taskRequest' = [taskRequest EXCEPT ![t] = k]
    /\ taskStatus' = [taskStatus EXCEPT ![t] = "created"]
    /\ UNCHANGED <<sessionStatus, taskVersion, runVars, callVars, reqVars, plan, now>>

StartTaskRun(t, v, r, o, at) ==
    /\ TaskLocked(t)
    /\ taskVersion[t] = v
    /\ taskStatus[t] = "created"
    /\ InsertRunningRun(r, t, o, at)
    /\ MoveTask(t, "running")
    /\ UNCHANGED <<sessionStatus, callVars, reqVars, plan, now>>

(* One UPDATE, without the lock of the session. *)
RenewTaskRunOwnership(t, r, o, at) ==
    /\ runTask[r] = t
    /\ runStatus[r] = "running"
    /\ runOwner[r] = o
    /\ runExpiry[r] > at
    /\ runExpiry' = [runExpiry EXCEPT ![r] = at + Lease]
    /\ UNCHANGED <<sessionStatus, taskVars, runTask, runNo, runStatus, runOwner,
                   callVars, reqVars, plan, now>>

(* A task that was created and never dispatched. *)
ReconcileCreatedTask(t, v) ==
    /\ TaskLocked(t)
    /\ taskVersion[t] = v
    /\ taskStatus[t] = "created"
    /\ MoveTask(t, "failed")
    /\ ClearPlans({t})
    /\ UNCHANGED <<sessionStatus, runVars, callVars, reqVars, now>>

(* A task whose owner let its lease run out. *)
ReconcileRunningTask(t, v, at) ==
    /\ TaskLocked(t)
    /\ taskVersion[t] = v
    /\ taskStatus[t] = "running"
    /\ \E r \in Run : /\ runTask[r] = t
                      /\ runStatus[r] = "running"
                      /\ runExpiry[r] <= at
                      /\ CloseRuns({r}, "interrupted")
    /\ callStatus' = TerminalizedCalls({t},
            [c \in Call |->
                IF callTask[c] = t /\ callStatus[c] = "running"
                THEN IF c \in SideEffecting THEN "outcome_unknown" ELSE "failed"
                ELSE callStatus[c]])
    /\ reqStatus' = TerminalizedRequests({t}, reqStatus)
    /\ MoveTask(t, "failed")
    /\ ClearPlans({t})
    /\ UNCHANGED <<sessionStatus, callLinks, callStarted, callResult,
                   reqExpiry, reqAnswer, now>>

FailTask(t, v, r, o, at) ==
    /\ TaskLocked(t)
    /\ taskVersion[t] = v
    /\ OwnsRun(t, r, o, at)
    /\ CloseRuns({r}, "failed")
    /\ callStatus' = TerminalizedCalls({t}, callStatus)
    /\ reqStatus' = TerminalizedRequests({t}, reqStatus)
    /\ MoveTask(t, "failed")
    /\ ClearPlans({t})
    /\ UNCHANGED <<sessionStatus, callLinks, callStarted, callResult,
                   reqExpiry, reqAnswer, now>>

CancelTask(t, v) ==
    /\ TaskLocked(t)
    /\ taskVersion[t] = v
    /\ CancelLockedTasks({t})
    /\ UNCHANGED sessionStatus

CompleteTask(t, r, o, at) ==
    /\ TaskLocked(t)
    /\ OwnsRun(t, r, o, at)
    /\ NoActiveChildren(t)
    /\ CloseRuns({r}, "completed")
    /\ MoveTask(t, "completed")
    /\ ClearPlans({t})
    /\ UNCHANGED <<sessionStatus, callVars, reqVars, now>>

-----------------------------------------------------------------------------
(* Tool calls. *)

(* One model output is saved with all its calls, once. *)
SaveToolCalls(t, r, o, at, out, C) ==
    /\ TaskLocked(t)
    /\ OwnsRun(t, r, o, at)
    /\ C # {}
    /\ \A c \in C : callStatus[c] = "absent"
    /\ \A c \in Call : ~(callTask[c] = t /\ callOutput[c] = out)
    /\ callTask' = [c \in Call |-> IF c \in C THEN t ELSE callTask[c]]
    /\ callRun' = [c \in Call |-> IF c \in C THEN r ELSE callRun[c]]
    /\ callOutput' = [c \in Call |-> IF c \in C THEN out ELSE callOutput[c]]
    /\ callStatus' = [c \in Call |-> IF c \in C THEN "pending" ELSE callStatus[c]]
    /\ UNCHANGED <<sessionStatus, taskVars, runVars, callStarted, callResult,
                   reqVars, plan, now>>

StartToolCall(t, r, o, at, c) ==
    /\ TaskLocked(t)
    /\ OwnsRun(t, r, o, at)
    /\ callTask[c] = t
    /\ callStatus[c] = "pending"
    /\ callStatus' = [callStatus EXCEPT ![c] = "running"]
    /\ callStarted' = [callStarted EXCEPT ![c] = TRUE]
    /\ UNCHANGED <<sessionStatus, taskVars, runVars, callLinks, callResult,
                   reqVars, plan, now>>

(* The outcome a worker reports: a failure may come with the mark that the *)
(* tool had started and that nobody knows what it did.                     *)
Outcome == {"completed", "failed", "failed_unknown"}

SettledStatus(c, outcome) ==
    CASE outcome = "completed" -> "completed"
      [] outcome = "failed_unknown" /\ c \in SideEffecting -> "outcome_unknown"
      [] OTHER -> "failed"

(* The tool message tells the model of a failure, known or not. *)
ResultMessage(c, outcome) ==
    IF outcome = "completed" THEN "completed" ELSE "failed"

CompleteToolCall(t, r, o, at, c, outcome) ==
    /\ TaskLocked(t)
    /\ OwnsRun(t, r, o, at)
    /\ callTask[c] = t
    /\ callStatus[c] = "running"
    /\ callStatus' = [callStatus EXCEPT ![c] = SettledStatus(c, outcome)]
    /\ callResult' = [callResult EXCEPT ![c] = ResultMessage(c, outcome)]
    /\ UNCHANGED <<sessionStatus, taskVars, runVars, callLinks, callStarted,
                   reqVars, plan, now>>

-----------------------------------------------------------------------------
(* Questions to the user.  A pending question has version 0, the version   *)
(* every caller that saw it pending expects: that check never adds to the  *)
(* one of its status.                                                      *)

WaitForUserInput(t, r, o, at, C, deadline) ==
    /\ TaskLocked(t)
    /\ OwnsRun(t, r, o, at)
    /\ C # {}
    /\ \A c \in C : /\ callTask[c] = t
                    /\ callStatus[c] = "running"
                    /\ reqStatus[c] = "absent"
    /\ \A c, d \in C : callOutput[c] = callOutput[d]
    /\ callStatus' = [c \in Call |-> IF c \in C THEN "waiting_for_user"
                                     ELSE callStatus[c]]
    /\ reqStatus' = [c \in Call |-> IF c \in C THEN "pending" ELSE reqStatus[c]]
    /\ reqExpiry' = [c \in Call |-> IF c \in C THEN deadline[c] ELSE reqExpiry[c]]
    /\ CloseRuns({r}, "paused")
    /\ MoveTask(t, "waiting_for_user")
    /\ UNCHANGED <<sessionStatus, callLinks, callStarted, callResult, reqAnswer,
                   plan, now>>

PendingRequests(t) == {c \in Call : callTask[c] = t /\ reqStatus[c] = "pending"}

LastQuestion_AnyAnswer(t, c) == TRUE

LastQuestion(t, c) == PendingRequests(t) = {c}

(* The answer becomes the result of the call.  The answer to the last open *)
(* question starts a new run; r is that run's identifier, unused otherwise.*)
AnswerUserInput(t, c, a, r, o, at) ==
    /\ TaskLocked(t)
    /\ callTask[c] = t
    /\ reqStatus[c] = "pending"
    /\ taskStatus[t] = "waiting_for_user"
    /\ callStatus[c] = "waiting_for_user"
    /\ \A d \in Call \ {c} : callTask[d] = t => reqAnswer[d] # a
    /\ callStatus' = [callStatus EXCEPT ![c] = "completed"]
    /\ callResult' = [callResult EXCEPT ![c] = "completed"]
    /\ reqStatus' = [reqStatus EXCEPT ![c] = "answered"]
    /\ reqAnswer' = [reqAnswer EXCEPT ![c] = a]
    /\ \/ /\ ~LastQuestion(t, c)
          /\ UNCHANGED <<taskVars, runVars>>
       \/ /\ LastQuestion(t, c)
          /\ InsertRunningRun(r, t, o, at)
          /\ MoveTask(t, "running")
    /\ UNCHANGED <<sessionStatus, callLinks, callStarted, reqExpiry, plan, now>>

ExpireUserInput(t, c, at) ==
    /\ TaskLocked(t)
    /\ callTask[c] = t
    /\ reqStatus[c] = "pending"
    /\ reqExpiry[c] # None
    /\ reqExpiry[c] <= at
    /\ taskStatus[t] = "waiting_for_user"
    /\ callStatus[c] = "waiting_for_user"
    /\ callStatus' = TerminalizedCalls({t}, [callStatus EXCEPT ![c] = "failed"])
    /\ callResult' = [callResult EXCEPT ![c] = "failed"]
    /\ reqStatus' = TerminalizedRequests({t}, [reqStatus EXCEPT ![c] = "expired"])
    /\ CloseRuns({r \in {callRun[c]} : runStatus[r] = "paused"}, "failed")
    /\ MoveTask(t, "failed")
    /\ ClearPlans({t})
    /\ UNCHANGED <<sessionStatus, callLinks, callStarted, reqExpiry, reqAnswer, now>>

-----------------------------------------------------------------------------
(* The plan of the session. *)

ApplyActivePlan(t, r, o, at) ==
    /\ TaskLocked(t)
    /\ OwnsRun(t, r, o, at)
    /\ plan[taskSession[t]] \in {None, t}
    /\ plan' = [plan EXCEPT ![taskSession[t]] = t]
    /\ UNCHANGED <<sessionStatus, taskVars, runVars, callVars, reqVars, now>>

-----------------------------------------------------------------------------

Tick ==
    /\ now < MaxTime
    /\ now' = now + 1
    /\ UNCHANGED <<sessionStatus, taskVars, runVars, callVars, reqVars, plan>>

SessionNext ==
    \E s \in Session :
        \/ CreateSession(s)
        \/ BeginSessionDeletion(s)
        \/ FinalizeDeletion(s)
        \/ \E t \in Task, k \in ClientRequest \cup {None} :
                CreateTaskWithUserMessage(t, s, k)

(* What a worker does under the fence of its run. *)
WorkerNext ==
    \E t \in Task, r \in Run, o \in Owner, at \in CallerTime :
        \/ StartTaskRun(t, taskVersion[t], r, o, at)
        \/ RenewTaskRunOwnership(t, r, o, at)
        \/ FailTask(t, taskVersion[t], r, o, at)
        \/ CompleteTask(t, r, o, at)
        \/ ApplyActivePlan(t, r, o, at)
        \/ \E out \in Output, C \in SUBSET Call : SaveToolCalls(t, r, o, at, out, C)
        \/ \E c \in Call :
              \/ StartToolCall(t, r, o, at, c)
              \/ \E outcome \in Outcome : CompleteToolCall(t, r, o, at, c, outcome)
        \/ \E C \in SUBSET Call : \E deadline \in [C -> {None, at + AnswerTtl}] :
                WaitForUserInput(t, r, o, at, C, deadline)

(* What the API and the maintenance scans do, with no run of their own. *)
ApiNext ==
    \E t \in Task :
        \/ CancelTask(t, taskVersion[t])
        \/ ReconcileCreatedTask(t, taskVersion[t])
        \/ \E at \in CallerTime : ReconcileRunningTask(t, taskVersion[t], at)
        \/ \E c \in Call, at \in CallerTime :
              \/ ExpireUserInput(t, c, at)
              \/ \E a \in ClientAnswer, r \in Run, o \in Owner :
                    AnswerUserInput(t, c, a, r, o, at)

Next == Tick \/ SessionNext \/ WorkerNext \/ ApiNext

Spec == Init /\ [][Next]_vars

-----------------------------------------------------------------------------
(* Safety. *)

RunningRuns(t) == {r \in Run : runTask[r] = t /\ runStatus[r] = "running"}

(* A task is running exactly when one run of it is, so that there is always*)
(* one worker the fence lets through, never two, and never one for a task  *)
(* that waits or is over (startTaskRun, answerUserInput, waitForUserInput, *)
(* and every command that ends a task).                                    *)
OneExecutorWhileRunning ==
    \A t \in Task :
        IF taskStatus[t] = "running"
        THEN \E r \in Run : RunningRuns(t) = {r}
        ELSE RunningRuns(t) = {}

(* A task waits exactly while a question of it is open, and a question is  *)
(* open exactly while its call waits: a task never resumes before the last *)
(* answer and never waits with nobody left to answer.                      *)
WaitsWhileQuestionsOpen ==
    /\ \A t \in Task :
            taskStatus[t] = "waiting_for_user" <=> PendingRequests(t) # {}
    /\ \A c \in Call :
            reqStatus[c] = "pending" <=> callStatus[c] = "waiting_for_user"

(* A task that is over has no call and no question left open, whichever of *)
(* the seven commands ended it (docs/02-execution-recovery-and-hitl.md).   *)
TerminalTaskIsClosed ==
    \A t \in Task :
        taskStatus[t] \in TerminalTaskStatus => NoActiveChildren(t)

(* A side-effecting tool that was started is never recorded as cancelled,  *)
(* and as failed only when a worker reported the failure: whatever stopped *)
(* it halfway leaves "outcome_unknown".                                    *)
StartedSideEffectsAccounted ==
    \A c \in SideEffecting :
        callStarted[c] => \/ callStatus[c] \in ActiveCallStatus
                          \/ callStatus[c] = "outcome_unknown"
                          \/ callResult[c] = callStatus[c]

(* In a task that may still call the model, or that completed, every call  *)
(* that is settled has its tool message: the history given to the model    *)
(* never holds a call without a result.                                    *)
SettledCallsHaveResults ==
    \A c \in Call :
        /\ callStatus[c] \in SettledCallStatus
        /\ taskStatus[callTask[c]] \notin {"failed", "cancelled"}
        => callResult[c] # None

(* The runs of a task are numbered 1, 2, ..., k without gap, the one that  *)
(* is running is the last, and the version of the task tells its status    *)
(* apart from every earlier one: a caller whose version matches has seen   *)
(* the newest run.                                                         *)
RunsNumberedByVersion ==
    \A t \in Task :
        LET runs == {r \in Run : runTask[r] = t}
            k == Cardinality(runs)
        IN /\ {runNo[r] : r \in runs} = 1 .. k
           /\ \A r \in RunningRuns(t) : runNo[r] = k
           /\ taskVersion[t] \in
                CASE taskStatus[t] \in {"absent", "created"} -> {2 * k}
                  [] taskStatus[t] = "running" -> {2 * k - 1}
                  [] taskStatus[t] = "waiting_for_user" -> {2 * k}
                  [] OTHER -> {2 * k, 2 * k + 1}

(* Once the deletion of a session has begun nothing below it is left to    *)
(* run, to be answered or to be renewed, so that the row may go.           *)
ArchivedSessionIsQuiet ==
    \A t \in Task :
        taskStatus[t] \in ActiveTaskStatus => sessionStatus[taskSession[t]] = "active"

(* The session shows a plan only of the task it is working on: the plan of *)
(* an earlier task never keeps the next one from planning.                 *)
PlanOfActiveTask ==
    \A s \in Session :
        plan[s] # None => /\ taskSession[plan[s]] = s
                          /\ taskStatus[plan[s]] \in {"running", "waiting_for_user"}

-----------------------------------------------------------------------------
(* What no step does. *)

TerminalTaskStays(t) ==
    /\ taskStatus'[t] = taskStatus[t]
    /\ taskVersion'[t] = taskVersion[t]
    /\ \A r \in Run : runTask[r] = t <=> runTask'[r] = t
    /\ \A r \in Run : runTask[r] = t =>
            runStatus'[r] = runStatus[r] /\ runExpiry'[r] = runExpiry[r]
    /\ \A c \in Call : callTask[c] = t <=> callTask'[c] = t
    /\ \A c \in Call : callTask[c] = t =>
            /\ callStatus'[c] = callStatus[c]
            /\ callResult'[c] = callResult[c]
            /\ reqStatus'[c] = reqStatus[c]

(* A terminal task is final: no late command of a worker, an answer, an    *)
(* expiry or a second cancellation changes it, its runs or its calls.      *)
TerminalIsFinal ==
    [][\A t \in Task :
         taskStatus[t] \in TerminalTaskStatus => TerminalTaskStays(t)]_vars

CallMoves ==
    {<<"absent", "pending">>, <<"pending", "running">>, <<"pending", "cancelled">>,
     <<"running", "waiting_for_user">>, <<"waiting_for_user", "cancelled">>}
    \cup ({"running", "waiting_for_user"} \X {"completed", "failed", "outcome_unknown"})
    \cup {<<"running", "cancelled">>}

CallStep(c) ==
    /\ callStatus'[c] # callStatus[c] =>
            <<callStatus[c], callStatus'[c]>> \in CallMoves
    /\ callResult'[c] # callResult[c] =>
            /\ callResult[c] = None
            /\ callStatus[c] \in {"running", "waiting_for_user"}
            /\ callStatus'[c] \in SettledCallStatus

(* A call is started once and settled once, in that order, and its result  *)
(* is written at most once and only by the step that settles it            *)
(* (docs/01-database-and-state-machines.md, the rules of ToolCall).        *)
CallSettlesOnce == [][\A c \in Call : CallStep(c)]_vars
==============================================================================
