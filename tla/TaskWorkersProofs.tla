-------------------------- MODULE TaskWorkersProofs --------------------------
(* Theorems about TaskWorkers, for every value of its constants.  What the *)
(* process does to the rows it does by commands of TaskStore, so that the  *)
(* theorems of the store hold of it; what its executions do follows from   *)
(* these and from an invariant of their own.                               *)
EXTENDS TaskWorkers, TaskStoreProofs

USE DEF taskVars, runVars, callLinks, callVars, reqVars, vars
USE DEF process, flows, counts, allVars
USE DEF ActiveTaskStatus, TerminalTaskStatus, TaskStatus, RunStatus,
        ActiveCallStatus, SettledCallStatus, CallStatus, RequestStatus

-----------------------------------------------------------------------------
(* What every step of the store keeps. *)

(* A run stays with its task, and a call that was started stays started. *)
RowsStay ==
    /\ \A r \in Run : runTask[r] # None => runTask'[r] = runTask[r]
    /\ \A c \in Call : callStarted[c] => callStarted'[c]

(* A run that is running stays so, or its task is over or waits. *)
RunsStay ==
    \A r \in Run : runStatus[r] = "running" =>
        \/ runStatus'[r] = "running"
        \/ taskStatus'[runTask[r]] \in TerminalTaskStatus \cup {"waiting_for_user"}

LEMMA SessionNextKeepsRows ==
    ASSUME Inv, SessionNext
    PROVE  RowsStay /\ RunsStay
<1> USE DEF Inv
<1>1. PICK s \in Session :
        \/ CreateSession(s)
        \/ BeginSessionDeletion(s)
        \/ FinalizeDeletion(s)
        \/ \E t \in Task, k \in ClientRequest \cup {None} : CreateTaskWithUserMessage(t, s, k)
  BY DEF SessionNext
<1>2. CASE CreateSession(s)
  BY <1>2 DEF CreateSession, RowsStay, RunsStay
<1>3. CASE BeginSessionDeletion(s)
  <2>1. RowsStay
    BY <1>3 DEF BeginSessionDeletion, CancelLockedTasks, CloseRuns, RowsStay
  <2>2. RunsStay
    BY <1>3, NoneAssumption
    DEF BeginSessionDeletion, CancelLockedTasks, Cancellable, OpenRuns, CloseRuns,
        RunsStay, TypeOK, RowLinks
  <2>. QED
    BY <2>1, <2>2
<1>4. CASE FinalizeDeletion(s)
  BY <1>4 DEF FinalizeDeletion, RowsStay, RunsStay
<1>5. CASE \E t \in Task, k \in ClientRequest \cup {None} : CreateTaskWithUserMessage(t, s, k)
  BY <1>5 DEF CreateTaskWithUserMessage, RowsStay, RunsStay
<1>. QED
  BY <1>1, <1>2, <1>3, <1>4, <1>5

LEMMA WorkerNextKeepsRows ==
    ASSUME Inv, WorkerNext
    PROVE  RowsStay /\ RunsStay
<1> USE DEF Inv
<1>1. PICK t \in Task, r \in Run, o \in Owner, at \in CallerTime :
        \/ StartTaskRun(t, taskVersion[t], r, o, at)
        \/ RenewTaskRunOwnership(t, r, o, at)
        \/ FailTask(t, taskVersion[t], r, o, at)
        \/ CompleteTask(t, r, o, at)
        \/ ApplyActivePlan(t, r, o, at)
        \/ \E out \in Output, C \in SUBSET Call : SaveToolCalls(t, r, o, at, out, C)
        \/ \E c \in Call : StartToolCall(t, r, o, at, c)
        \/ \E c \in Call, outcome \in Outcome : CompleteToolCall(t, r, o, at, c, outcome)
        \/ \E C \in SUBSET Call : \E deadline \in [C -> {None, at + AnswerTtl}] :
                WaitForUserInput(t, r, o, at, C, deadline)
  BY DEF WorkerNext
<1>2. CASE StartTaskRun(t, taskVersion[t], r, o, at)
  BY <1>2, NoneAssumption
  DEF StartTaskRun, InsertRunningRun, RowsStay, RunsStay, TypeOK, RowLinks
<1>3. CASE RenewTaskRunOwnership(t, r, o, at)
  BY <1>3 DEF RenewTaskRunOwnership, RowsStay, RunsStay
<1>4. CASE FailTask(t, taskVersion[t], r, o, at)
  BY <1>4 DEF FailTask, OwnsRun, CloseRuns, MoveTask, RowsStay, RunsStay, TypeOK
<1>5. CASE CompleteTask(t, r, o, at)
  BY <1>5 DEF CompleteTask, OwnsRun, CloseRuns, MoveTask, RowsStay, RunsStay, TypeOK
<1>6. CASE ApplyActivePlan(t, r, o, at)
  BY <1>6 DEF ApplyActivePlan, RowsStay, RunsStay
<1>7. CASE \E out \in Output, C \in SUBSET Call : SaveToolCalls(t, r, o, at, out, C)
  BY <1>7 DEF SaveToolCalls, RowsStay, RunsStay
<1>8. CASE \E c \in Call : StartToolCall(t, r, o, at, c)
  BY <1>8 DEF StartToolCall, RowsStay, RunsStay, TypeOK
<1>9. CASE \E c \in Call, outcome \in Outcome : CompleteToolCall(t, r, o, at, c, outcome)
  BY <1>9 DEF CompleteToolCall, RowsStay, RunsStay
<1>10. CASE \E C \in SUBSET Call : \E deadline \in [C -> {None, at + AnswerTtl}] :
                WaitForUserInput(t, r, o, at, C, deadline)
  BY <1>10
  DEF WaitForUserInput, OwnsRun, CloseRuns, MoveTask, RowsStay, RunsStay, TypeOK
<1>. QED
  BY <1>1, <1>2, <1>3, <1>4, <1>5, <1>6, <1>7, <1>8, <1>9, <1>10

LEMMA ApiNextKeepsRows ==
    ASSUME Inv, ApiNext
    PROVE  RowsStay /\ RunsStay
<1> USE DEF Inv
<1>1. PICK t \in Task :
        \/ CancelTask(t, taskVersion[t])
        \/ ReconcileCreatedTask(t, taskVersion[t])
        \/ \E at \in CallerTime : ReconcileRunningTask(t, taskVersion[t], at)
        \/ \E c \in Call, at \in CallerTime : ExpireUserInput(t, c, at)
        \/ \E c \in Call, at \in CallerTime, a \in ClientAnswer, r \in Run, o \in Owner :
              AnswerUserInput(t, c, a, r, o, at)
  BY DEF ApiNext
<1>2. CASE CancelTask(t, taskVersion[t])
  <2>1. RowsStay
    BY <1>2 DEF CancelTask, CancelLockedTasks, CloseRuns, RowsStay
  <2>2. RunsStay
    BY <1>2, NoneAssumption
    DEF CancelTask, CancelLockedTasks, Cancellable, OpenRuns, CloseRuns, RunsStay,
        TypeOK, RowLinks
  <2>. QED
    BY <2>1, <2>2
<1>3. CASE ReconcileCreatedTask(t, taskVersion[t])
  BY <1>3 DEF ReconcileCreatedTask, RowsStay, RunsStay
<1>4. CASE \E at \in CallerTime : ReconcileRunningTask(t, taskVersion[t], at)
  BY <1>4 DEF ReconcileRunningTask, CloseRuns, MoveTask, RowsStay, RunsStay, TypeOK
<1>5. CASE \E c \in Call, at \in CallerTime : ExpireUserInput(t, c, at)
  BY <1>5 DEF ExpireUserInput, CloseRuns, MoveTask, RowsStay, RunsStay, TypeOK
<1>6. CASE \E c \in Call, at \in CallerTime, a \in ClientAnswer, r \in Run, o \in Owner :
              AnswerUserInput(t, c, a, r, o, at)
  BY <1>6, NoneAssumption
  DEF AnswerUserInput, InsertRunningRun, RowsStay, RunsStay, TypeOK, RowLinks
<1>. QED
  BY <1>1, <1>2, <1>3, <1>4, <1>5, <1>6

LEMMA NextKeepsRows ==
    ASSUME Inv, [Next]_vars
    PROVE  RowsStay /\ RunsStay
<1>1. CASE Tick \/ UNCHANGED vars
  BY <1>1 DEF Tick, RowsStay, RunsStay
<1>. QED
  BY <1>1, SessionNextKeepsRows, WorkerNextKeepsRows, ApiNextKeepsRows DEF Next

-----------------------------------------------------------------------------
(* The invariant of the process. *)

ExecRecord == [stage : Stage, signal : {"none", "cancelled", "shutdown", "lost"},
               seen : Nat, left : SUBSET Call,
               current : Call \cup {None}, asked : SUBSET Call]

(* ProcessTypeOK without the rows. *)
ProcessTypes ==
    /\ up \in {"down", "scanning", "serving", "stopping"}
    /\ owner \in Owner \cup {None}
    /\ scanAt \in Nat
    /\ exec \in [Run -> ExecRecord]
    /\ starting \subseteq Task
    /\ abortDue \subseteq Task
    /\ invoked \in [Call -> Nat]
    /\ modelCalls \in [Task -> Nat]
    /\ createdAt \in [Task -> Nat]

(* Whoever sends a command has an identity, a task and, where it is about  *)
(* one, a call.                                                            *)
SenderInv ==
    /\ up # "down" => owner \in Owner
    /\ \A r \in Run :
         /\ Live(r) => up # "down" /\ runTask[r] # None
         /\ Aborted(r) => Live(r)
         /\ exec[r].stage \in {"started", "invoking", "reporting"} =>
                exec[r].current \in Call

(* A started call that has not been invoked waits in one execution only. *)
InvocationInv ==
    /\ \A c \in Call : invoked[c] \in {0, 1}
    /\ \A c \in Call : invoked[c] = 1 => callStarted[c]
    /\ \A r \in Run : At(r, "started") =>
            callStarted[exec[r].current] /\ invoked[exec[r].current] = 0
    /\ \A r, q \in Run :
            /\ At(r, "started") /\ At(q, "started")
            /\ exec[r].current = exec[q].current
            => r = q

(* AbortFollowsFence, with the flows that have yet to abort. *)
FenceInv ==
    /\ \A t \in abortDue : taskStatus[t] \in TerminalTaskStatus
    /\ AbortFollowsFence

(* OneExecutionPerTask, from the dispatch of an execution on. *)
LiveRunsRun ==
    \A r \in Run : Live(r) /\ taskStatus[TaskOf(r)] \in ActiveTaskStatus
                      => runStatus[r] = "running"

ProcessInv ==
    /\ Inv
    /\ CallsInTheirRuns
    /\ ProcessTypes
    /\ SenderInv
    /\ InvocationInv
    /\ FenceInv
    /\ LiveRunsRun

USE DEF InLoop, LiveStage, Stage, ExecRecord

-----------------------------------------------------------------------------
(* Every step of the process is a command of the store or leaves it alone. *)

LEMMA TimesOfTheProcess ==
    ASSUME ProcessTypes, now \in Nat
    PROVE  ProcessTime \subseteq CallerTime
BY DEF ProcessTypes, ProcessTime, CallerTime

(* What the fence lets through has a task and an owner. *)
LEMMA FencedSender ==
    ASSUME ProcessInv, NEW r \in Run, Live(r)
    PROVE  /\ TaskOf(r) \in Task
           /\ owner \in Owner
BY DEF ProcessInv, SenderInv, ProcessTypes, Inv, TypeOK, TaskOf

LEMMA ProceedIsCommand ==
    ASSUME ProcessInv, NEW r \in Run, Proceed(r)
    PROVE  [Next]_vars
<1> USE DEF ProcessInv
<1>1. now \in Nat /\ ProcessTime \subseteq CallerTime
  BY TimesOfTheProcess DEF Inv, TypeOK
<1>2. Live(r) => TaskOf(r) \in Task /\ owner \in Owner
  BY FencedSender
<1>3. CASE FinalAnswer(r)
  <2>1. Live(r)
    BY <1>3 DEF FinalAnswer, At, Live
  <2>. QED
    BY <1>1, <1>2, <1>3, <2>1 DEF FinalAnswer, Next, WorkerNext
<1>4. CASE SaveBatch(r)
  <2>1. Live(r)
    BY <1>4 DEF SaveBatch, At, Live
  <2>2. PICK at \in ProcessTime, out \in Output, C \in Batches :
            SaveToolCalls(TaskOf(r), r, owner, at, out, C)
    BY <1>4 DEF SaveBatch
  <2>3. C \in SUBSET Call
    BY DEF Batches
  <2>. QED
    BY <1>1, <1>2, <2>1, <2>2, <2>3 DEF Next, WorkerNext
<1>5. CASE \E c \in Call : StartTool(r, c)
  <2>1. Live(r)
    BY <1>5 DEF StartTool, At, Live
  <2>2. PICK c \in Call :
            \/ \E at \in ProcessTime : StartToolCall(TaskOf(r), r, owner, at, c)
            \/ UNCHANGED vars
    BY <1>5 DEF StartTool
  <2>. QED
    BY <1>1, <1>2, <2>1, <2>2 DEF Next, WorkerNext
<1>6. CASE Report(r)
  <2>1. Live(r) /\ exec[r].current \in Call
    BY <1>6 DEF Report, At, Live, SenderInv
  <2>2. PICK at \in ProcessTime, outcome \in Outcomes(exec[r].current) :
            CompleteToolCall(TaskOf(r), r, owner, at, exec[r].current, outcome)
    BY <1>6 DEF Report
  <2>3. outcome \in Outcome
    BY DEF Outcomes, Outcome
  <2>. QED
    BY <1>1, <1>2, <2>1, <2>2, <2>3 DEF Next, WorkerNext
<1>7. CASE Ask(r)
  <2>1. Live(r) /\ exec[r].asked \in SUBSET Call
    BY <1>7 DEF Ask, At, Live, ProcessTypes
  <2>2. PICK at \in ProcessTime : \E deadline \in [exec[r].asked -> {None, at + AnswerTtl}] :
            WaitForUserInput(TaskOf(r), r, owner, at, exec[r].asked, deadline)
    BY <1>7 DEF Ask
  <2>. QED
    BY <1>1, <1>2, <2>1, <2>2 DEF Next, WorkerNext
<1>8. CASE Fail(r)
  <2>1. Live(r)
    BY <1>8 DEF Fail, At, Live
  <2>2. \/ UNCHANGED vars
        \/ \E at \in ProcessTime :
              FailTask(TaskOf(r), taskVersion[TaskOf(r)], r, owner, at)
    BY <1>8 DEF Fail
  <2>. QED
    BY <1>1, <1>2, <2>1, <2>2 DEF Next, WorkerNext
<1>9. CASE Cancel(r)
  <2>1. Live(r)
    BY <1>9 DEF Cancel, At, Live
  <2>. QED
    BY <1>2, <1>9, <2>1 DEF Cancel, Next, ApiNext
<1>10. CASE \/ Load(r) \/ Register(r) \/ CallModel(r) \/ Correct(r) \/ GiveUp(r)
            \/ SaveRefused(r) \/ StartRefused(r) \/ SkipTool(r) \/ InvokeTool(r)
            \/ ToolReturns(r) \/ ToolAsks(r) \/ ReportOfUnknown(r) \/ ReportRefused(r)
            \/ ReportMalformed(r) \/ AskRefused(r) \/ NextTurn(r) \/ Stops(r)
            \/ StoreFails(r)
  BY <1>10
  DEF Load, Register, CallModel, Correct, GiveUp, SaveRefused, StartRefused, SkipTool,
      InvokeTool, ToolReturns, ToolAsks, ReportOfUnknown, ReportRefused,
      ReportMalformed, AskRefused, NextTurn, Stops, StoreFails, Refused
<1>. QED
  BY <1>3, <1>4, <1>5, <1>6, <1>7, <1>8, <1>9, <1>10 DEF Proceed

LEMMA FlowIsCommand ==
    ASSUME ProcessInv, Flow
    PROVE  [Next]_vars
<1> USE DEF ProcessInv
<1>1. now \in Nat /\ ProcessTime \subseteq CallerTime
  BY TimesOfTheProcess DEF Inv, TypeOK
<1>2. owner \in Owner
  BY DEF Flow, OpenForRequests, SenderInv
<1>3. CASE \E s \in Session : OpenSession(s)
  BY <1>3 DEF OpenSession, Next, SessionNext
<1>4. CASE \E s \in Session : PrepareSessionDeletion(s)
  BY <1>4 DEF PrepareSessionDeletion, Next, SessionNext
<1>5. CASE \E t \in Task, s \in Session, k \in ClientRequest : RequestTask(t, s, k)
  BY <1>5 DEF RequestTask, Next, SessionNext
<1>6. CASE \E t \in Task, r \in Run : StartTask(t, r)
  <2>1. PICK t \in Task, r \in Run, at \in ProcessTime : StartTaskRun(t, 0, r, owner, at)
    BY <1>6 DEF StartTask
  <2>2. StartTaskRun(t, taskVersion[t], r, owner, at)
    BY <2>1 DEF StartTaskRun
  <2>. QED
    BY <1>1, <1>2, <2>2 DEF Next, WorkerNext
<1>7. CASE \E t \in Task : RequestCancel(t)
  BY <1>7 DEF RequestCancel, Next, ApiNext
<1>8. CASE \E t \in Task, c \in Call, a \in ClientAnswer, r \in Run : Answer(t, c, a, r)
  <2>1. PICK t \in Task, c \in Call, a \in ClientAnswer, r \in Run, at \in ProcessTime :
            AnswerUserInput(t, c, a, r, owner, at)
    BY <1>8 DEF Answer
  <2>. QED
    BY <1>1, <1>2, <2>1 DEF Next, ApiNext
<1>9. CASE \E t \in Task : RepeatRequest(t) \/ StartTaskFails(t) \/ AbortExecution(t)
  BY <1>9 DEF RepeatRequest, StartTaskFails, AbortExecution
<1>. QED
  BY <1>3, <1>4, <1>5, <1>6, <1>7, <1>8, <1>9 DEF Flow

LEMMA ScanIsCommand ==
    ASSUME ProcessInv, Scan
    PROVE  [Next]_vars
<1> USE DEF ProcessInv
<1>1. now \in Nat /\ ProcessTime \subseteq CallerTime
  BY TimesOfTheProcess DEF Inv, TypeOK
<1>2. CASE \E c \in ExpiredRequests, at \in ProcessTime : ExpireUserInput(callTask[c], c, at)
  <2>1. PICK c \in ExpiredRequests, at \in ProcessTime : ExpireUserInput(callTask[c], c, at)
    BY <1>2
  <2>2. c \in Call /\ callStatus[c] = "waiting_for_user"
    BY DEF ExpiredRequests, Inv, QuestionInv
  <2>3. callTask[c] \in Task
    BY <2>2 DEF Inv, TypeOK, RowLinks
  <2>. QED
    BY <1>1, <2>1, <2>2, <2>3 DEF Next, ApiNext
<1>3. CASE \E t \in ForgottenTasks : ReconcileCreatedTask(t, taskVersion[t])
  BY <1>3 DEF ForgottenTasks, Next, ApiNext
<1>4. CASE \E t \in LapsedTasks, at \in ProcessTime :
              ReconcileRunningTask(t, taskVersion[t], at)
  BY <1>1, <1>4 DEF LapsedTasks, Next, ApiNext
<1>. QED
  BY <1>2, <1>3, <1>4 DEF Scan

LEMMA ProcessStepIsCommand ==
    ASSUME ProcessInv, [ProcessNext]_allVars
    PROVE  [Next]_vars
<1>1. CASE \E r \in Run : Proceed(r)
  BY <1>1, ProceedIsCommand
<1>2. CASE \E r \in Run : Renew(r)
  <2>1. PICK r \in Run, at \in ProcessTime : /\ Registered(r)
                                             /\ RenewTaskRunOwnership(TaskOf(r), r, owner, at)
    BY <1>2 DEF Renew
  <2>2. TaskOf(r) \in Task /\ owner \in Owner
    BY <2>1, FencedSender DEF Registered, Live
  <2>3. at \in CallerTime
    BY TimesOfTheProcess DEF ProcessInv, Inv, TypeOK
  <2>. QED
    BY <2>1, <2>2, <2>3 DEF Next, WorkerNext
<1>3. CASE \/ \E r \in Run : LoseOwnership(r)
           \/ ProcessEnds \/ Shutdown \/ ScanEnds
           \/ \E o \in Owner : Boot(o)
           \/ UNCHANGED allVars
  BY <1>3 DEF LoseOwnership, ProcessEnds, Shutdown, ScanEnds, Boot
<1>4. CASE TimePasses
  BY <1>4 DEF TimePasses, Next
<1>. QED
  BY <1>1, <1>2, <1>3, <1>4, FlowIsCommand, ScanIsCommand DEF ProcessNext, Execution

-----------------------------------------------------------------------------
(* Types and senders. *)

(* What becomes of an execution that goes on or leaves. *)
LEMMA ExecutionMoves ==
    ASSUME exec \in [Run -> ExecRecord], NEW r \in Run, NEW stage \in Stage,
           Enter(r, stage) \/ Leave(r, stage)
    PROVE  /\ exec' \in [Run -> ExecRecord]
           /\ exec'[r].stage = stage
           /\ \/ exec'[r].signal = exec[r].signal /\ exec'[r].current = exec[r].current
              \/ exec'[r].signal = "none" /\ exec'[r].current = None
           /\ Leave(r, stage) => exec'[r].signal = "none"
           /\ \A q \in Run \ {r} : exec'[q] = exec[q]
BY DEF Enter, Leave, Idle

LEMMA ProceedTypes ==
    ASSUME ProcessInv, NEW r \in Run, Proceed(r), UNCHANGED <<process, flows>>
    PROVE  ProcessTypes'
<1> USE DEF ProcessInv, ProcessTypes
<1>1. ASSUME NEW stage \in Stage, Enter(r, stage) \/ Leave(r, stage)
      PROVE  exec' \in [Run -> ExecRecord]
  BY <1>1, ExecutionMoves
<1>2. CASE Load(r)
  <2>1. \/ Leave(r, "ended")
        \/ /\ OwnsRun(TaskOf(r), r, owner, now) \/ runTask[r] # None
           /\ exec' = [exec EXCEPT ![r].stage = "loaded", ![r].seen = taskVersion[TaskOf(r)]]
    BY <1>2 DEF Load, At, Live, SenderInv
  <2>2. TaskOf(r) \in Task
    BY <1>2, FencedSender DEF Load, At, Live
  <2>3. taskVersion[TaskOf(r)] \in Nat
    BY <2>2 DEF Inv, TypeOK
  <2>4. exec' \in [Run -> ExecRecord]
    BY <1>1, <2>1, <2>3
  <2>. QED
    BY <1>2, <2>4 DEF Load
<1>3. CASE CallModel(r)
  <2>1. TaskOf(r) \in Task
    BY <1>3, FencedSender DEF CallModel, At, Live
  <2>2. exec' \in [Run -> ExecRecord]
    BY <1>1, <1>3 DEF CallModel
  <2>. QED
    BY <1>3, <2>1, <2>2 DEF CallModel
<1>4. CASE SaveBatch(r)
  <2>1. PICK C \in Batches :
            \/ exec' = [exec EXCEPT ![r].stage = "calling", ![r].left = C]
            \/ Leave(r, "abandoned")
    BY <1>4 DEF SaveBatch
  <2>2. C \in SUBSET Call
    BY DEF Batches
  <2>3. exec' \in [Run -> ExecRecord]
    BY <1>1, <2>1, <2>2
  <2>. QED
    BY <1>4, <2>3 DEF SaveBatch
<1>5. CASE \E c \in Call : StartTool(r, c)
  <2>1. PICK c \in Call, next \in {"started", "failing"} :
            exec' = [exec EXCEPT ![r].stage = next, ![r].current = c, ![r].left = @ \ {c}]
    BY <1>5 DEF StartTool, AfterLostStart
  <2>2. exec[r] \in ExecRecord /\ exec[r].left \ {c} \in SUBSET Call
    OBVIOUS
  <2>3. exec' \in [Run -> ExecRecord]
    BY <2>1, <2>2
  <2>. QED
    BY <1>5, <2>3 DEF StartTool
<1>6. CASE InvokeTool(r)
  <2>1. exec[r].current \in Call
    BY <1>6 DEF InvokeTool, At, SenderInv
  <2>2. exec' \in [Run -> ExecRecord]
    BY <1>1, <1>6 DEF InvokeTool
  <2>. QED
    BY <1>6, <2>1, <2>2 DEF InvokeTool
<1>7. CASE ToolAsks(r)
  <2>1. exec[r].current \in Call
    BY <1>7 DEF ToolAsks, At, SenderInv
  <2>2. exec' = [exec EXCEPT ![r].stage = "calling", ![r].current = None,
                             ![r].asked = @ \cup {exec[r].current}]
    BY <1>7 DEF ToolAsks
  <2>3. exec[r] \in ExecRecord /\ exec[r].asked \cup {exec[r].current} \in SUBSET Call
    BY <2>1
  <2>4. exec' \in [Run -> ExecRecord]
    BY <2>2, <2>3
  <2>. QED
    BY <1>7, <2>4 DEF ToolAsks
<1>8. CASE Report(r)
  <2>1. PICK stage \in {"failing", "calling"} :
            \/ exec' = [exec EXCEPT ![r].current = None, ![r].stage = stage]
            \/ Leave(r, "abandoned")
    BY <1>8 DEF Report, AfterLoopFailure
  <2>2. exec' \in [Run -> ExecRecord]
    BY <1>1, <2>1
  <2>. QED
    BY <1>8, <2>2 DEF Report
<1>9. CASE \/ Register(r) \/ Correct(r) \/ GiveUp(r) \/ FinalAnswer(r)
           \/ SaveRefused(r) \/ StartRefused(r) \/ SkipTool(r) \/ ToolReturns(r)
           \/ ReportOfUnknown(r) \/ ReportRefused(r) \/ ReportMalformed(r)
           \/ Ask(r) \/ AskRefused(r) \/ NextTurn(r) \/ Stops(r) \/ Fail(r)
           \/ Cancel(r) \/ StoreFails(r)
  <2>1. \E stage \in Stage : Enter(r, stage) \/ Leave(r, stage)
    BY <1>9
    DEF Register, Correct, GiveUp, AfterLoopFailure, FinalAnswer, LastCommand,
        SaveRefused, StartRefused, SkipTool, ToolReturns, AfterTool,
        ReportOfUnknown, ReportRefused, ReportMalformed, Ask, AfterQuestion, AskRefused,
        NextTurn, Stops, Fail, Cancel, StoreFails, Refused
  <2>2. UNCHANGED counts
    BY <1>9
    DEF Register, Correct, GiveUp, FinalAnswer,
        SaveRefused, StartRefused, SkipTool, ToolReturns,
        ReportOfUnknown, ReportRefused, ReportMalformed, Ask, AskRefused,
        NextTurn, Stops, Fail, Cancel, StoreFails, Refused
  <2>. QED
    BY <1>1, <2>1, <2>2
<1>. QED
  BY <1>2, <1>3, <1>4, <1>5, <1>6, <1>7, <1>8, <1>9 DEF Proceed

LEMMA FlowTypes ==
    ASSUME ProcessInv, Flow
    PROVE  ProcessTypes'
<1> USE DEF ProcessInv, ProcessTypes
<1>1. now \in Nat /\ ProcessTime \subseteq Nat
  BY TimesOfTheProcess DEF Inv, TypeOK, ProcessTime
<1>2. ASSUME NEW r \in Run, NEW stage \in Stage, Leave(r, stage)
      PROVE  exec' \in [Run -> ExecRecord]
  BY <1>2, ExecutionMoves
<1>3. UNCHANGED process
  BY DEF Flow
<1>4. CASE \E s \in Session : OpenSession(s)
  BY <1>3, <1>4 DEF OpenSession
<1>5. CASE \E s \in Session : PrepareSessionDeletion(s)
  BY <1>3, <1>5 DEF PrepareSessionDeletion
<1>6. CASE \E t \in Task, s \in Session, k \in ClientRequest : RequestTask(t, s, k)
  <2>1. PICK t \in Task, at \in ProcessTime :
            /\ createdAt' = [createdAt EXCEPT ![t] = at]
            /\ starting' \in {starting, starting \cup {t}}
            /\ UNCHANGED <<abortDue, exec, invoked, modelCalls>>
    BY <1>6 DEF RequestTask
  <2>. QED
    BY <1>1, <1>3, <2>1
<1>7. CASE \E t \in Task, r \in Run : StartTask(t, r)
  <2>1. PICK t \in Task, r \in Run :
            /\ starting' = starting \ {t}
            /\ Leave(r, DispatchedStage) \/ Leave(r, "abandoned")
            /\ UNCHANGED <<abortDue, counts>>
    BY <1>7 DEF StartTask
  <2>2. exec' \in [Run -> ExecRecord]
    BY <1>2, <2>1 DEF DispatchedStage
  <2>. QED
    BY <1>3, <2>1, <2>2
<1>8. CASE \E t \in Task : RequestCancel(t)
  BY <1>3, <1>8 DEF RequestCancel
<1>9. CASE \E t \in Task, c \in Call, a \in ClientAnswer, r \in Run : Answer(t, c, a, r)
  <2>1. PICK r \in Run :
            /\ UNCHANGED exec \/ Leave(r, DispatchedStage) \/ Leave(r, "abandoned")
            /\ UNCHANGED <<flows, counts>>
    BY <1>9 DEF Answer
  <2>2. exec' \in [Run -> ExecRecord]
    BY <1>2, <2>1 DEF DispatchedStage
  <2>. QED
    BY <1>3, <2>1, <2>2
<1>10. CASE \E t \in Task : AbortExecution(t)
  BY <1>3, <1>10 DEF AbortExecution, Abort
<1>11. CASE \E t \in Task : RepeatRequest(t) \/ StartTaskFails(t)
  BY <1>3, <1>11 DEF RepeatRequest, StartTaskFails
<1>. QED
  BY <1>4, <1>5, <1>6, <1>7, <1>8, <1>9, <1>10, <1>11 DEF Flow

LEMMA ProcessStepTypes ==
    ASSUME ProcessInv, [ProcessNext]_allVars
    PROVE  ProcessTypes'
<1> USE DEF ProcessInv, ProcessTypes
<1>1. CASE \E r \in Run : Proceed(r) /\ UNCHANGED <<process, flows>>
  BY <1>1, ProceedTypes
<1>2. CASE \E r \in Run : Renew(r) /\ UNCHANGED <<process, flows>>
  BY <1>2 DEF Renew
<1>3. CASE \E r \in Run : LoseOwnership(r) /\ UNCHANGED <<process, flows>>
  BY <1>3 DEF LoseOwnership
<1>4. CASE ProcessEnds
  BY <1>4 DEF ProcessEnds, Idle
<1>5. CASE Shutdown
  <2>1. /\ exec \in [Run -> ExecRecord]
        /\ exec' = [r \in Run |-> IF r \in {q \in Run : Registered(q)} /\ ~Aborted(r)
                                 THEN [exec[r] EXCEPT !.signal = "shutdown"] ELSE exec[r]]
    BY <1>5 DEF Shutdown, Abort
  <2>2. \A r \in Run : [exec[r] EXCEPT !.signal = "shutdown"] \in ExecRecord
    BY <2>1 DEF ExecRecord
  <2>3. exec' \in [Run -> ExecRecord]
    BY <2>1, <2>2
  <2>. QED
    BY <1>5, <2>3 DEF Shutdown
<1>6. CASE \E o \in Owner : Boot(o)
  BY <1>6 DEF Boot, Inv, TypeOK
<1>7. CASE ScanEnds
  BY <1>7 DEF ScanEnds
<1>8. CASE Scan \/ TimePasses
  BY <1>8 DEF Scan, TimePasses
<1>9. CASE UNCHANGED allVars
  BY <1>9
<1>. QED
  BY <1>1, <1>2, <1>3, <1>4, <1>5, <1>6, <1>7, <1>8, <1>9, FlowTypes
  DEF ProcessNext, Execution

-----------------------------------------------------------------------------
(* How an execution moves. *)

(* Nothing starts a tool but StartTool, and nothing invokes one but        *)
(* InvokeTool; an execution that is over has no signal.                    *)
Moves(r) ==
    /\ Live(r)
    /\ \A q \in Run \ {r} : exec'[q] = exec[q]
    /\ exec'[r].signal \in {exec[r].signal, "none"}
    /\ Live(r)' \/ exec'[r].signal = "none"
    /\ exec'[r].stage \in {"started", "invoking", "reporting"} => exec'[r].current \in Call
    /\ \/ \E c \in Call : StartTool(r, c)
       \/ InvokeTool(r)
       \/ exec'[r].stage # "started" /\ UNCHANGED invoked

LEMMA ProceedMoves ==
    ASSUME ProcessInv, NEW r \in Run, Proceed(r)
    PROVE  Moves(r)
<1> USE DEF ProcessInv, ProcessTypes
<1>1. Live(r)
  BY DEF Proceed, Load, Register, CallModel, Correct, GiveUp, FinalAnswer, SaveBatch,
         SaveRefused, StartTool, StartRefused, SkipTool, InvokeTool, ToolReturns, ToolAsks,
         Report, ReportOfUnknown, ReportRefused, ReportMalformed, Ask, AskRefused, NextTurn,
         Stops, Fail, Cancel, StoreFails, At, Live
<1>2. ASSUME NEW stage \in LiveStage \ {"started", "invoking", "reporting"},
             Enter(r, stage), UNCHANGED invoked
      PROVE  Moves(r)
  BY <1>1, <1>2 DEF Enter, Moves, Live
<1>3. ASSUME Leave(r, "ended") \/ Leave(r, "abandoned"), UNCHANGED invoked
      PROVE  Moves(r)
  BY <1>1, <1>3 DEF Leave, Idle, Moves
<1>4. CASE \/ SkipTool(r) \/ ToolReturns(r)
  BY <1>1, <1>4 DEF SkipTool, ToolReturns, AfterTool, At, Enter, Moves, Live, SenderInv
<1>5. CASE InvokeTool(r)
  BY <1>1, <1>5 DEF InvokeTool, At, Enter, Moves, Live, SenderInv
<1>6. CASE \E c \in Call : StartTool(r, c)
  <2>1. PICK c \in Call, next \in {"started", "failing"} :
            exec' = [exec EXCEPT ![r].stage = next, ![r].current = c, ![r].left = @ \ {c}]
    BY <1>6 DEF StartTool, AfterLostStart
  <2>2. /\ exec'[r].stage = next /\ exec'[r].current = c
        /\ exec'[r].signal = exec[r].signal
        /\ \A q \in Run \ {r} : exec'[q] = exec[q]
    BY <2>1
  <2>. QED
    BY <1>1, <1>6, <2>2 DEF Moves, Live
<1>7. CASE Load(r)
  <2>1. CASE Leave(r, "ended")
    BY <1>3, <1>7, <2>1 DEF Load
  <2>2. CASE exec' = [exec EXCEPT ![r].stage = "loaded", ![r].seen = taskVersion[TaskOf(r)]]
    BY <1>1, <1>7, <2>2 DEF Load, Moves, Live
  <2>. QED
    BY <1>7, <2>1, <2>2 DEF Load
<1>8. CASE SaveBatch(r)
  <2>1. CASE Leave(r, "abandoned")
    BY <1>3, <1>8, <2>1 DEF SaveBatch
  <2>2. CASE \E C \in Batches : exec' = [exec EXCEPT ![r].stage = "calling", ![r].left = C]
    BY <1>1, <1>8, <2>2 DEF SaveBatch, Moves, Live
  <2>. QED
    BY <1>8, <2>1, <2>2 DEF SaveBatch
<1>9. CASE ToolAsks(r)
  BY <1>1, <1>9 DEF ToolAsks, Moves, Live
<1>10. CASE Report(r)
  <2>1. CASE Leave(r, "abandoned")
    BY <1>3, <1>10, <2>1 DEF Report
  <2>2. CASE \E stage \in {"failing", "calling"} :
                exec' = [exec EXCEPT ![r].current = None, ![r].stage = stage]
    BY <1>1, <1>10, <2>2 DEF Report, Moves, Live
  <2>. QED
    BY <1>10, <2>1, <2>2 DEF Report, AfterLoopFailure
<1>11. CASE \/ Register(r) \/ CallModel(r) \/ Correct(r) \/ GiveUp(r) \/ FinalAnswer(r)
            \/ SaveRefused(r) \/ StartRefused(r)
            \/ ReportOfUnknown(r) \/ ReportRefused(r) \/ ReportMalformed(r)
            \/ Ask(r) \/ AskRefused(r) \/ NextTurn(r) \/ Stops(r) \/ Fail(r)
            \/ Cancel(r) \/ StoreFails(r)
  <2>1. \/ \E stage \in LiveStage \ {"started", "invoking", "reporting"} : Enter(r, stage)
        \/ Leave(r, "ended") \/ Leave(r, "abandoned")
    BY <1>11
    DEF Register, CallModel, Correct, GiveUp, AfterLoopFailure, FinalAnswer, LastCommand,
        SaveRefused, StartRefused, ReportOfUnknown, ReportRefused,
        ReportMalformed, Ask, AfterQuestion, AskRefused,
        NextTurn, Stops, Fail, Cancel, StoreFails, Refused
  <2>2. UNCHANGED invoked
    BY <1>11
    DEF Register, CallModel, Correct, GiveUp, FinalAnswer,
        SaveRefused, StartRefused, ReportOfUnknown, ReportRefused,
        ReportMalformed, Ask, AskRefused,
        NextTurn, Stops, Fail, Cancel, StoreFails, Refused
  <2>. QED
    BY <1>2, <1>3, <2>1, <2>2
<1>. QED
  BY <1>4, <1>5, <1>6, <1>7, <1>8, <1>9, <1>10, <1>11 DEF Proceed

(* The signals a step may give, and to whom. *)
LEMMA AbortMoves ==
    ASSUME exec \in [Run -> ExecRecord], NEW R \in SUBSET Run,
           NEW reason \in {"cancelled", "shutdown"}, Abort(R, reason)
    PROVE  \A r \in Run :
              /\ exec'[r].stage = exec[r].stage
              /\ exec'[r].current = exec[r].current
              /\ \/ exec'[r].signal = exec[r].signal
                 \/ r \in R /\ exec'[r].signal = reason
BY DEF Abort

LEMMA SenderStep ==
    ASSUME ProcessInv, [ProcessNext]_allVars
    PROVE  SenderInv'
<1> USE DEF ProcessInv, ProcessTypes
<1>1. RowsStay
  BY ProcessStepIsCommand, NextKeepsRows
<1>2. ASSUME UNCHANGED <<process, exec>>
      PROVE  SenderInv'
  BY <1>1, <1>2 DEF SenderInv, RowsStay, Live, Aborted
<1>3. CASE \E r \in Run : Proceed(r) /\ UNCHANGED <<process, flows>>
  <2>1. PICK r \in Run : Moves(r) /\ UNCHANGED process
    BY <1>3, ProceedMoves
  <2>. QED
    BY <1>1, <2>1 DEF SenderInv, RowsStay, Moves, Live, Aborted
<1>4. CASE \E r \in Run : LoseOwnership(r) /\ UNCHANGED <<process, flows>>
  BY <1>1, <1>4 DEF LoseOwnership, Registered, SenderInv, RowsStay, Live, Aborted
<1>5. CASE \E t \in Task, r \in Run : StartTask(t, r) /\ UNCHANGED process
  <2>1. PICK t \in Task, r \in Run, at \in ProcessTime :
            /\ StartTaskRun(t, 0, r, owner, at)
            /\ Leave(r, DispatchedStage) \/ Leave(r, "abandoned")
            /\ UNCHANGED process
    BY <1>5 DEF StartTask
  <2>2. runTask'[r] # None
    BY <2>1, NoneAssumption DEF StartTaskRun, InsertRunningRun, Inv, TypeOK
  <2>3. /\ \A q \in Run \ {r} : exec'[q] = exec[q]
        /\ exec'[r].signal = "none"
        /\ exec'[r].stage \in {"loading", "abandoned"}
        /\ exec'[r].stage = "loading" => up = "serving"
    BY <2>1 DEF Leave, Idle, DispatchedStage
  <2>. QED
    BY <1>1, <2>1, <2>2, <2>3 DEF SenderInv, RowsStay, Live, Aborted
<1>6. CASE \E t \in Task, c \in Call, a \in ClientAnswer, r \in Run :
              Answer(t, c, a, r) /\ UNCHANGED process
  <2>1. PICK t \in Task, c \in Call, a \in ClientAnswer, r \in Run, at \in ProcessTime :
            /\ AnswerUserInput(t, c, a, r, owner, at)
            /\ IF runStatus'[r] = runStatus[r]
               THEN UNCHANGED exec
               ELSE Leave(r, DispatchedStage) \/ Leave(r, "abandoned")
            /\ UNCHANGED process
    BY <1>6 DEF Answer
  <2>2. CASE UNCHANGED exec
    BY <1>2, <2>1, <2>2
  <2>3. CASE Leave(r, DispatchedStage) \/ Leave(r, "abandoned")
    <3>1. runTask'[r] # None \/ UNCHANGED exec
      BY <2>1, NoneAssumption DEF AnswerUserInput, InsertRunningRun, Inv, TypeOK
    <3>2. /\ \A q \in Run \ {r} : exec'[q] = exec[q]
          /\ exec'[r].signal = "none"
          /\ exec'[r].stage \in {"loading", "abandoned"}
          /\ exec'[r].stage = "loading" => up = "serving"
      BY <2>3 DEF Leave, Idle, DispatchedStage
    <3>. QED
      BY <1>1, <1>2, <2>1, <3>1, <3>2 DEF SenderInv, RowsStay, Live, Aborted
  <2>. QED
    BY <2>1, <2>2, <2>3
<1>7. CASE \E t \in Task : AbortExecution(t) /\ UNCHANGED process
  <2>1. PICK t \in Task : Abort(AbortedBy(t), "cancelled") /\ UNCHANGED process
    BY <1>7 DEF AbortExecution
  <2>2. AbortedBy(t) \in SUBSET Run /\ \A r \in AbortedBy(t) : Live(r)
    BY DEF AbortedBy, Registered, Live
  <2>. QED
    BY <1>1, <2>1, <2>2, AbortMoves DEF SenderInv, RowsStay, Live, Aborted
<1>8. CASE Shutdown
  <2>1. Abort({r \in Run : Registered(r)}, "shutdown")
    BY <1>8 DEF Shutdown
  <2>. QED
    BY <1>1, <1>8, <2>1, AbortMoves
    DEF Shutdown, SenderInv, RowsStay, Live, Aborted, Registered
<1>9. CASE ProcessEnds
  BY <1>9 DEF ProcessEnds, Idle, SenderInv, Live, Aborted
<1>10. CASE \E o \in Owner : Boot(o)
  BY <1>1, <1>10 DEF Boot, SenderInv, RowsStay, Live, Aborted
<1>11. CASE ScanEnds
  BY <1>1, <1>11 DEF ScanEnds, SenderInv, RowsStay, Live, Aborted
<1>12. CASE \/ \E r \in Run : Renew(r) /\ UNCHANGED <<process, flows>>
            \/ Scan \/ TimePasses \/ UNCHANGED allVars
  BY <1>2, <1>12 DEF Renew, Scan, TimePasses
<1>13. CASE /\ UNCHANGED process
            /\ \/ \E s \in Session : OpenSession(s) \/ PrepareSessionDeletion(s)
               \/ \E t \in Task, s \in Session, k \in ClientRequest : RequestTask(t, s, k)
               \/ \E t \in Task : RepeatRequest(t) \/ StartTaskFails(t) \/ RequestCancel(t)
  BY <1>2, <1>13
  DEF OpenSession, PrepareSessionDeletion, RequestTask, RepeatRequest, StartTaskFails,
      RequestCancel
<1>. QED
  BY <1>3, <1>4, <1>5, <1>6, <1>7, <1>8, <1>9, <1>10, <1>11, <1>12, <1>13
  DEF ProcessNext, Execution, Flow

-----------------------------------------------------------------------------
(* Invocations. *)

(* A step other than StartTool and InvokeTool brings no execution to the   *)
(* point where it invokes a tool.                                          *)
LEMMA OthersDoNotStart ==
    ASSUME ProcessInv, [ProcessNext]_allVars
    PROVE  \/ \E r \in Run : InvokeTool(r) \/ \E c \in Call : StartTool(r, c)
           \/ /\ UNCHANGED invoked
              /\ \A r \in Run : exec'[r].stage = "started" =>
                    At(r, "started") /\ exec'[r].current = exec[r].current
<1> USE DEF ProcessInv, ProcessTypes
<1>1. CASE \E r \in Run : Proceed(r)
  BY <1>1, ProceedMoves DEF Moves, At
<1>2. CASE \E r \in Run : LoseOwnership(r)
  BY <1>2 DEF LoseOwnership, At
<1>3. CASE \E t \in Task, r \in Run : StartTask(t, r)
  BY <1>3 DEF StartTask, Leave, Idle, DispatchedStage, At
<1>4. CASE \E t \in Task, c \in Call, a \in ClientAnswer, r \in Run : Answer(t, c, a, r)
  BY <1>4 DEF Answer, Leave, Idle, DispatchedStage, At
<1>5. CASE \E t \in Task : AbortExecution(t)
  <2>1. PICK t \in Task : Abort(AbortedBy(t), "cancelled") /\ UNCHANGED counts
    BY <1>5 DEF AbortExecution
  <2>. QED
    BY <2>1, AbortMoves DEF AbortedBy, At
<1>6. CASE Shutdown
  BY <1>6, AbortMoves DEF Shutdown, At
<1>7. CASE ProcessEnds
  BY <1>7 DEF ProcessEnds, Idle, Live, At
<1>8. CASE \/ \E r \in Run : Renew(r)
           \/ \E o \in Owner : Boot(o)
           \/ ScanEnds \/ Scan \/ TimePasses \/ UNCHANGED allVars
           \/ \E s \in Session : OpenSession(s) \/ PrepareSessionDeletion(s)
           \/ \E t \in Task, s \in Session, k \in ClientRequest : RequestTask(t, s, k)
           \/ \E t \in Task : RepeatRequest(t) \/ StartTaskFails(t) \/ RequestCancel(t)
  BY <1>8
  DEF Renew, Boot, ScanEnds, Scan, TimePasses, OpenSession, PrepareSessionDeletion,
      RequestTask, RepeatRequest, StartTaskFails, RequestCancel, At
<1>. QED
  BY <1>1, <1>2, <1>3, <1>4, <1>5, <1>6, <1>7, <1>8 DEF ProcessNext, Execution, Flow

LEMMA InvocationStep ==
    ASSUME ProcessInv, [ProcessNext]_allVars
    PROVE  InvocationInv'
<1> USE DEF ProcessInv, ProcessTypes
<1>1. RowsStay
  BY ProcessStepIsCommand, NextKeepsRows
<1>2. CASE /\ UNCHANGED invoked
           /\ \A r \in Run : exec'[r].stage = "started" =>
                    At(r, "started") /\ exec'[r].current = exec[r].current
  BY <1>1, <1>2 DEF InvocationInv, RowsStay, SenderInv, At
<1>3. ASSUME NEW r \in Run, InvokeTool(r)
      PROVE  InvocationInv'
  <2>1. exec[r].current \in Call
    BY <1>3 DEF InvokeTool, At, SenderInv
  <2>2. /\ invoked[exec[r].current] = 0 /\ callStarted[exec[r].current]
        /\ invoked' = [invoked EXCEPT ![exec[r].current] = @ + 1]
        /\ UNCHANGED vars
    BY <1>3 DEF InvokeTool, InvocationInv
  <2>3. /\ exec'[r].stage = "invoking"
        /\ \A q \in Run \ {r} : exec'[q] = exec[q]
    BY <1>3 DEF InvokeTool, Enter
  <2>4. \A q \in Run \ {r} : At(q, "started") => exec[q].current # exec[r].current
    BY <1>3 DEF InvokeTool, InvocationInv
  <2>5. /\ invoked'[exec[r].current] = 1
        /\ \A c \in Call \ {exec[r].current} : invoked'[c] = invoked[c]
    BY <2>1, <2>2
  <2>6. \A q \in Run \ {r} : At(q, "started") => exec[q].current \in Call
    BY DEF SenderInv, At
  <2>. QED
    BY <2>1, <2>2, <2>3, <2>4, <2>5, <2>6 DEF InvocationInv, At
<1>4. ASSUME NEW r \in Run, NEW c \in Call, StartTool(r, c)
      PROVE  InvocationInv'
  <2>1. PICK next \in {"started", "failing"} :
            /\ \/ \E at \in ProcessTime : StartToolCall(TaskOf(r), r, owner, at, c)
               \/ next = "failing" /\ UNCHANGED vars
            /\ exec' = [exec EXCEPT ![r].stage = next, ![r].current = c, ![r].left = @ \ {c}]
    BY <1>4 DEF StartTool, AfterLostStart
  <2>2. /\ exec'[r].stage = next /\ exec'[r].current = c
        /\ \A q \in Run \ {r} : exec'[q] = exec[q]
    BY <2>1
  <2>3. UNCHANGED invoked
    BY <1>4 DEF StartTool
  <2>4. CASE next = "failing"
    BY <1>1, <2>2, <2>3, <2>4 DEF InvocationInv, RowsStay, SenderInv, At
  <2>5. CASE next = "started"
    <3>1. callStatus[c] = "pending" /\ callStarted' = [callStarted EXCEPT ![c] = TRUE]
      BY <2>1, <2>5 DEF StartToolCall
    <3>2. ~callStarted[c] /\ callStarted'[c]
      BY <3>1 DEF Inv, CallInv, TypeOK
    <3>3. invoked[c] = 0
      BY <3>2 DEF InvocationInv
    <3>4. \A q \in Run \ {r} : At(q, "started") => exec[q].current # c
      BY <3>2 DEF InvocationInv
    <3>. QED
      BY <1>1, <2>2, <2>3, <2>5, <3>2, <3>3, <3>4 DEF InvocationInv, RowsStay, SenderInv, At
  <2>. QED
    BY <2>4, <2>5
<1>. QED
  BY <1>2, <1>3, <1>4, OthersDoNotStart

-----------------------------------------------------------------------------
(* Cancellations. *)

(* What is over stays over, as every command of the store leaves it. *)
LEMMA OverStaysOver ==
    ASSUME ProcessInv, [ProcessNext]_allVars
    PROVE  /\ \A t \in Task : taskStatus[t] \in TerminalTaskStatus
                                 => taskStatus'[t] \in TerminalTaskStatus
           /\ CallsInTheirRuns'
<1>1. [Next]_vars
  BY ProcessStepIsCommand
<1>2. CallsInTheirRuns' /\ [TaskFinal /\ CallsStep]_vars
  BY <1>1, NextIsFinal DEF ProcessInv
<1>. QED
  BY <1>2 DEF TaskFinal, TerminalTaskStays

(* The tasks a cancellation was asked for are over. *)
LEMMA CancelledAreOver ==
    ASSUME TypeOK, NEW T \in SUBSET Task, CancelLockedTasks(T),
           NEW t \in T, taskStatus[t] # "absent"
    PROVE  taskStatus'[t] \in TerminalTaskStatus
BY DEF CancelLockedTasks, Cancellable, TypeOK

LEMMA FenceStep ==
    ASSUME ProcessInv, [ProcessNext]_allVars
    PROVE  FenceInv'
<1> USE DEF ProcessInv, ProcessTypes
<1>1. RowsStay
  BY ProcessStepIsCommand, NextKeepsRows
<1>2. \A t \in Task : taskStatus[t] \in TerminalTaskStatus
                         => taskStatus'[t] \in TerminalTaskStatus
  BY OverStaysOver
<1>3. \A r \in Run : Aborted(r) \/ runTask[r] \in abortDue =>
          runTask[r] \in Task /\ runTask'[r] = runTask[r]
  BY <1>1, NoneAssumption DEF SenderInv, RowsStay, Inv, TypeOK
<1>4. ASSUME \A r \in Run : exec'[r].signal = "cancelled" =>
                exec[r].signal = "cancelled" \/ runTask[r] \in abortDue,
             \A t \in abortDue' : taskStatus'[t] \in TerminalTaskStatus
      PROVE  FenceInv'
  BY <1>2, <1>3, <1>4 DEF FenceInv, AbortFollowsFence, TaskOf, Aborted
<1>5. ASSUME \A r \in Run : exec'[r].signal = "cancelled" =>
                exec[r].signal = "cancelled" \/ runTask[r] \in abortDue,
             abortDue' \subseteq abortDue
      PROVE  FenceInv'
  BY <1>2, <1>4, <1>5 DEF FenceInv
<1>6. CASE \E r \in Run : Proceed(r) /\ UNCHANGED <<process, flows>>
  <2>1. PICK r \in Run : Moves(r)
    BY <1>6, ProceedMoves
  <2>2. \A q \in Run : exec'[q].signal = "cancelled" => exec[q].signal = "cancelled"
    BY <2>1 DEF Moves
  <2>. QED
    BY <1>5, <1>6, <2>2
<1>7. CASE \E r \in Run : LoseOwnership(r) /\ UNCHANGED <<process, flows>>
  <2>1. \A q \in Run : exec'[q].signal = "cancelled" => exec[q].signal = "cancelled"
    BY <1>7 DEF LoseOwnership
  <2>. QED
    BY <1>5, <1>7, <2>1
<1>8. CASE \/ \E t \in Task, r \in Run : StartTask(t, r)
           \/ \E t \in Task, c \in Call, a \in ClientAnswer, r \in Run : Answer(t, c, a, r)
  <2>1. \A q \in Run : exec'[q].signal = "cancelled" => exec[q].signal = "cancelled"
    BY <1>8 DEF StartTask, Answer, Leave, Idle
  <2>2. abortDue' = abortDue
    BY <1>8 DEF StartTask, Answer
  <2>. QED
    BY <1>5, <2>1, <2>2
<1>9. CASE \E t \in Task : AbortExecution(t)
  <2>1. PICK t \in Task : /\ t \in abortDue
                          /\ abortDue' = abortDue \ {t}
                          /\ Abort(AbortedBy(t), "cancelled")
                          /\ UNCHANGED vars
    BY <1>9 DEF AbortExecution
  <2>2. \A q \in Run : exec'[q].signal = "cancelled" =>
            exec[q].signal = "cancelled" \/ runTask[q] = t
    BY <2>1, AbortMoves DEF Abort, AbortedBy, TaskOf
  <2>. QED
    BY <1>5, <2>1, <2>2
<1>10. CASE Shutdown
  <2>1. \A q \in Run : exec'[q].signal = "cancelled" => exec[q].signal = "cancelled"
    BY <1>10 DEF Shutdown, Abort
  <2>. QED
    BY <1>5, <1>10, <2>1 DEF Shutdown
<1>11. CASE ProcessEnds
  <2>1. \A q \in Run : exec'[q].signal = "cancelled" => exec[q].signal = "cancelled"
    BY <1>11 DEF ProcessEnds, Idle
  <2>. QED
    BY <1>5, <1>11, <2>1 DEF ProcessEnds
<1>12. CASE \E s \in Session : PrepareSessionDeletion(s)
  <2>1. PICK s \in Session :
            /\ CancelLockedTasks({t \in Task : taskSession[t] = s})
            /\ abortDue' \in {abortDue, abortDue \cup {t \in Task : taskSession[t] = s}}
            /\ UNCHANGED exec
    BY <1>12 DEF PrepareSessionDeletion, BeginSessionDeletion
  <2>2. \A t \in Task : taskSession[t] = s => taskStatus[t] # "absent"
    BY NoneAssumption DEF Inv, TypeOK, RowLinks
  <2>3. \A t \in Task : taskSession[t] = s => taskStatus'[t] \in TerminalTaskStatus
    BY <2>1, <2>2, CancelledAreOver DEF Inv
  <2>4. \A t \in abortDue' : taskStatus'[t] \in TerminalTaskStatus
    BY <1>2, <2>1, <2>3 DEF FenceInv
  <2>. QED
    BY <1>4, <2>1, <2>4
<1>13. CASE \E t \in Task : RequestCancel(t)
  <2>1. PICK t \in Task :
            /\ taskStatus[t] # "absent"
            /\ CancelLockedTasks({t})
            /\ abortDue' \in {abortDue, abortDue \cup {t}}
            /\ UNCHANGED exec
    BY <1>13 DEF RequestCancel, CancelTask, TaskLocked
  <2>2. taskStatus'[t] \in TerminalTaskStatus
    BY <2>1, CancelledAreOver DEF Inv
  <2>3. \A u \in abortDue' : taskStatus'[u] \in TerminalTaskStatus
    BY <1>2, <2>1, <2>2 DEF FenceInv
  <2>. QED
    BY <1>4, <2>1, <2>3
<1>14. CASE \/ \E r \in Run : Renew(r) /\ UNCHANGED <<process, flows>>
            \/ \E o \in Owner : Boot(o)
            \/ ScanEnds \/ Scan \/ TimePasses \/ UNCHANGED allVars
            \/ \E s \in Session : OpenSession(s)
            \/ \E t \in Task, s \in Session, k \in ClientRequest : RequestTask(t, s, k)
            \/ \E t \in Task : RepeatRequest(t) \/ StartTaskFails(t)
  <2>1. exec' = exec /\ abortDue' = abortDue
    BY <1>14
    DEF Renew, Boot, ScanEnds, Scan, TimePasses, OpenSession, RequestTask, RepeatRequest,
        StartTaskFails
  <2>. QED
    BY <1>5, <2>1
<1>. QED
  BY <1>6, <1>7, <1>8, <1>9, <1>10, <1>11, <1>12, <1>13, <1>14
  DEF ProcessNext, Execution, Flow

-----------------------------------------------------------------------------
(* Runs and their executions. *)

(* An execution begins in a run that has just been made. *)
LEMMA BeginsInNewRun ==
    ASSUME ProcessInv, [ProcessNext]_allVars, NEW r \in Run, Live(r)', ~Live(r)
    PROVE  runStatus'[r] = "running"
<1> USE DEF ProcessInv, ProcessTypes
<1>1. CASE \E q \in Run : Proceed(q)
  BY <1>1, ProceedMoves DEF Moves, Live
<1>2. CASE \E q \in Run : LoseOwnership(q)
  BY <1>2 DEF LoseOwnership, Live
<1>3. CASE \E t \in Task, q \in Run : StartTask(t, q)
  BY <1>3 DEF StartTask, StartTaskRun, InsertRunningRun, Leave, Live, Inv, TypeOK
<1>4. CASE \E t \in Task, c \in Call, a \in ClientAnswer, q \in Run : Answer(t, c, a, q)
  <2>1. PICK t \in Task, c \in Call, a \in ClientAnswer, q \in Run, at \in ProcessTime :
            /\ AnswerUserInput(t, c, a, q, owner, at)
            /\ IF runStatus'[q] = runStatus[q]
               THEN UNCHANGED exec
               ELSE Leave(q, DispatchedStage) \/ Leave(q, "abandoned")
    BY <1>4 DEF Answer
  <2>2. UNCHANGED exec \/ runStatus'[q] = "running"
    BY <2>1 DEF AnswerUserInput, InsertRunningRun, Inv, TypeOK
  <2>. QED
    BY <2>1, <2>2 DEF Leave, Live
<1>5. CASE \E t \in Task : AbortExecution(t)
  <2>1. PICK t \in Task : Abort(AbortedBy(t), "cancelled")
    BY <1>5 DEF AbortExecution
  <2>. QED
    BY <2>1, AbortMoves DEF AbortedBy, Live
<1>6. CASE Shutdown
  BY <1>6, AbortMoves DEF Shutdown, Live
<1>7. CASE ProcessEnds
  BY <1>7 DEF ProcessEnds, Idle, Live
<1>8. CASE \/ \E q \in Run : Renew(q)
           \/ \E o \in Owner : Boot(o)
           \/ ScanEnds \/ Scan \/ TimePasses \/ UNCHANGED allVars
           \/ \E s \in Session : OpenSession(s) \/ PrepareSessionDeletion(s)
           \/ \E t \in Task, s \in Session, k \in ClientRequest : RequestTask(t, s, k)
           \/ \E t \in Task : RepeatRequest(t) \/ StartTaskFails(t) \/ RequestCancel(t)
  BY <1>8
  DEF Renew, Boot, ScanEnds, Scan, TimePasses, OpenSession, PrepareSessionDeletion,
      RequestTask, RepeatRequest, StartTaskFails, RequestCancel, Live
<1>. QED
  BY <1>1, <1>2, <1>3, <1>4, <1>5, <1>6, <1>7, <1>8 DEF ProcessNext, Execution, Flow

(* A task that runs comes to wait by a question of its execution only. *)
NoPause ==
    \A t \in Task : taskStatus[t] = "running" => taskStatus'[t] # "waiting_for_user"

LEMMA OnlyAskPauses ==
    ASSUME ProcessInv, [ProcessNext]_allVars
    PROVE  NoPause \/ \E r \in Run : Ask(r)
<1> USE DEF ProcessInv, Inv
<1>1. ASSUME UNCHANGED taskVars
      PROVE  NoPause
  BY <1>1 DEF NoPause
<1>2. ASSUME NEW t \in Task, NEW status \in TaskStatus \ {"waiting_for_user"},
             MoveTask(t, status)
      PROVE  NoPause
  BY <1>2 DEF NoPause, MoveTask, TypeOK
<1>3. ASSUME NEW T \in SUBSET Task, CancelLockedTasks(T)
      PROVE  NoPause
  BY <1>3 DEF NoPause, CancelLockedTasks, Cancellable, TypeOK
<1>4. ASSUME NEW r \in Run, Proceed(r)
      PROVE  NoPause \/ Ask(r)
  <2>1. CASE FinalAnswer(r) \/ Fail(r) \/ Cancel(r)
    <3>1. TaskOf(r) \in Task
      BY <2>1, FencedSender DEF FinalAnswer, Fail, Cancel, At, Live
    <3>2. \/ MoveTask(TaskOf(r), "completed")
          \/ MoveTask(TaskOf(r), "failed")
          \/ CancelLockedTasks({TaskOf(r)})
          \/ UNCHANGED vars
      BY <2>1 DEF FinalAnswer, CompleteTask, Fail, FailTask, Cancel, CancelTask
    <3>. QED
      BY <1>1, <1>2, <1>3, <3>1, <3>2
  <2>2. CASE SaveBatch(r) \/ (\E c \in Call : StartTool(r, c)) \/ Report(r)
    <3>1. UNCHANGED taskVars
      BY <2>2 DEF SaveBatch, SaveToolCalls, StartTool, StartToolCall, Report,
                  CompleteToolCall
    <3>. QED
      BY <1>1, <3>1
  <2>3. CASE \/ Load(r) \/ Register(r) \/ CallModel(r) \/ Correct(r) \/ GiveUp(r)
             \/ SaveRefused(r) \/ StartRefused(r) \/ SkipTool(r) \/ InvokeTool(r)
             \/ ToolReturns(r) \/ ToolAsks(r) \/ ReportOfUnknown(r) \/ ReportRefused(r)
             \/ ReportMalformed(r) \/ AskRefused(r) \/ NextTurn(r) \/ Stops(r)
             \/ StoreFails(r)
    <3>1. UNCHANGED taskVars
      BY <2>3
      DEF Load, Register, CallModel, Correct, GiveUp, SaveRefused, StartRefused, SkipTool,
          InvokeTool, ToolReturns, ToolAsks, ReportOfUnknown, ReportRefused,
          ReportMalformed, AskRefused, NextTurn, Stops, StoreFails, Refused
    <3>. QED
      BY <1>1, <3>1
  <2>. QED
    BY <1>4, <2>1, <2>2, <2>3 DEF Proceed
<1>5. CASE \E s \in Session : PrepareSessionDeletion(s)
  BY <1>3, <1>5 DEF PrepareSessionDeletion, BeginSessionDeletion
<1>6. CASE \E t \in Task : RequestCancel(t)
  BY <1>3, <1>6 DEF RequestCancel, CancelTask
<1>7. CASE \E t \in Task, s \in Session, k \in ClientRequest : RequestTask(t, s, k)
  BY <1>7 DEF RequestTask, CreateTaskWithUserMessage, NoPause, TypeOK
<1>8. CASE \E t \in Task, r \in Run : StartTask(t, r)
  <2>1. PICK t \in Task : MoveTask(t, "running")
    BY <1>8 DEF StartTask, StartTaskRun
  <2>. QED
    BY <1>2, <2>1
<1>9. CASE \E t \in Task, c \in Call, a \in ClientAnswer, r \in Run : Answer(t, c, a, r)
  <2>1. PICK t \in Task : MoveTask(t, "running") \/ UNCHANGED taskVars
    BY <1>9 DEF Answer, AnswerUserInput
  <2>. QED
    BY <1>1, <1>2, <2>1
<1>10. CASE Scan
  <2>1. \A c \in ExpiredRequests : callTask[c] \in Task
    BY NoneAssumption DEF ExpiredRequests, TypeOK, RowLinks, QuestionInv
  <2>2. ForgottenTasks \subseteq Task /\ LapsedTasks \subseteq Task
    BY DEF ForgottenTasks, LapsedTasks
  <2>3. \E t \in Task : MoveTask(t, "failed")
    BY <1>10, <2>1, <2>2
    DEF Scan, ExpireUserInput, ReconcileCreatedTask, ReconcileRunningTask
  <2>. QED
    BY <1>2, <2>3
<1>11. CASE \/ \E r \in Run : Renew(r) \/ LoseOwnership(r)
            \/ \E o \in Owner : Boot(o)
            \/ ProcessEnds \/ Shutdown \/ ScanEnds \/ TimePasses \/ UNCHANGED allVars
            \/ \E s \in Session : OpenSession(s)
            \/ \E t \in Task : RepeatRequest(t) \/ StartTaskFails(t) \/ AbortExecution(t)
  <2>1. UNCHANGED taskVars
    BY <1>11
    DEF Renew, RenewTaskRunOwnership, LoseOwnership, Boot, ProcessEnds, Shutdown, ScanEnds,
        TimePasses, Tick, OpenSession, CreateSession, RepeatRequest, StartTaskFails,
        AbortExecution
  <2>. QED
    BY <1>1, <2>1
<1>. QED
  BY <1>4, <1>5, <1>6, <1>7, <1>8, <1>9, <1>10, <1>11 DEF ProcessNext, Execution, Flow

LEMMA LiveRunsStep ==
    ASSUME ProcessInv, [ProcessNext]_allVars
    PROVE  LiveRunsRun'
<1> USE DEF ProcessInv
<1>1. RowsStay /\ RunsStay
  BY ProcessStepIsCommand, NextKeepsRows
<1>2. SUFFICES ASSUME NEW r \in Run, Live(r)', taskStatus'[TaskOf(r)'] \in ActiveTaskStatus
               PROVE  runStatus'[r] = "running"
  BY DEF LiveRunsRun
<1>3. CASE ~Live(r)
  BY <1>2, <1>3, BeginsInNewRun
<1>4. CASE Live(r)
  <2>1. runTask[r] \in Task /\ runTask'[r] = runTask[r]
    BY <1>1, <1>4, FencedSender DEF RowsStay, SenderInv, TaskOf
  <2>2. taskStatus[runTask[r]] \in ActiveTaskStatus
    BY <1>2, <2>1, OverStaysOver, NoneAssumption DEF Inv, TypeOK, RowLinks, TaskOf
  <2>3. runStatus[r] = "running" /\ taskStatus[runTask[r]] = "running"
    BY <1>4, <2>2 DEF LiveRunsRun, TaskOf, Inv, ExecutorInv
  <2>4. CASE NoPause
    BY <1>1, <1>2, <2>1, <2>3, <2>4 DEF RunsStay, NoPause, TaskOf
  <2>5. CASE \E q \in Run : Ask(q)
    <3>1. PICK q \in Run, at \in ProcessTime :
              /\ \E deadline \in [exec[q].asked -> {None, at + AnswerTtl}] :
                    WaitForUserInput(TaskOf(q), q, owner, at, exec[q].asked, deadline)
              /\ Leave(q, "ended") \/ Leave(q, "abandoned")
      BY <2>5 DEF Ask, AfterQuestion
    <3>2. r # q
      BY <1>2, <3>1 DEF Leave, Idle, Live, ProcessTypes
    <3>3. runStatus'[r] = runStatus[r]
      BY <3>1, <3>2 DEF WaitForUserInput, CloseRuns
    <3>. QED
      BY <2>3, <3>3
  <2>. QED
    BY <2>4, <2>5, OnlyAskPauses
<1>. QED
  BY <1>3, <1>4

-----------------------------------------------------------------------------

LEMMA ProcessInitInv ==
    ASSUME ProcessInit
    PROVE  ProcessInv
<1>1. Inv /\ CallsInTheirRuns
  BY InitInv DEF ProcessInit, Init, CallsInTheirRuns
<1>2. ProcessTypes
  BY DEF ProcessInit, ProcessTypes, Idle
<1>3. SenderInv /\ InvocationInv /\ FenceInv /\ LiveRunsRun
  BY DEF ProcessInit, Idle, SenderInv, InvocationInv, FenceInv, AbortFollowsFence,
         LiveRunsRun, Live, Aborted, At
<1>. QED
  BY <1>1, <1>2, <1>3 DEF ProcessInv

LEMMA ProcessNextInv ==
    ASSUME ProcessInv, [ProcessNext]_allVars
    PROVE  ProcessInv'
<1>1. Inv'
  BY ProcessStepIsCommand, NextInv DEF ProcessInv
<1>. QED
  BY <1>1, OverStaysOver, ProcessStepTypes, SenderStep, InvocationStep, FenceStep,
     LiveRunsStep
  DEF ProcessInv

(* The invariant of the process holds in every reachable state. *)
THEOREM ProcessInvariance == ProcessSpec => []ProcessInv
  BY ProcessInitInv, ProcessNextInv, PTL DEF ProcessSpec

-----------------------------------------------------------------------------
(* The properties of TaskWorkers. *)

(* Whatever the flows, the executions, the scan, a shutdown and a crash do *)
(* to the rows, the commands of the store do: what holds of TaskStore      *)
(* holds of the process.                                                   *)
THEOREM ProcessImplementsStore == ProcessSpec => Spec
<1>1. ProcessInit => Init
  BY DEF ProcessInit
<1>2. ProcessInv /\ [ProcessNext]_allVars => [Next]_vars
  BY ProcessStepIsCommand
<1>. QED
  BY <1>1, <1>2, ProcessInvariance, PTL DEF ProcessSpec, Spec

(* So the process, with its lost replies, crashes and restarts, keeps the  *)
(* promise to the clients of a session.                                    *)
THEOREM ProcessKeepsLifecycle == ProcessSpec => KeepsLifecycle
  BY ProcessImplementsStore, StoreKeepsLifecycle

(* The rows and the state of the process keep to their types. *)
THEOREM ProcessTypeCorrect == ProcessSpec => []ProcessTypeOK
<1>1. ProcessInv => ProcessTypeOK
  BY DEF ProcessInv, ProcessTypes, Inv, ProcessTypeOK
<1>. QED
  BY <1>1, ProcessInvariance, PTL

(* No tool is invoked twice for one call, whatever replies are lost and    *)
(* however often the process dies and starts again.                        *)
THEOREM ToolsAreInvokedOnce == ProcessSpec => []InvokedAtMostOnce
<1>1. ProcessInv => InvokedAtMostOnce
  BY DEF ProcessInv, InvocationInv, InvokedAtMostOnce
<1>. QED
  BY <1>1, ProcessInvariance, PTL

(* No tool is invoked before the store has its start, and the row of a     *)
(* side effect that may have happened never denies it.                     *)
THEOREM SideEffectsAreRecordedFirst == ProcessSpec => []SideEffectsRecordedFirst
<1>1. ASSUME ProcessInv PROVE SideEffectsRecordedFirst
  <2> SUFFICES ASSUME NEW c \in Call, invoked[c] > 0
               PROVE  /\ callStarted[c]
                      /\ c \in SideEffecting => callStatus[c] \notin {"pending", "cancelled"}
    BY DEF SideEffectsRecordedFirst
  <2>1. callStarted[c]
    BY <1>1 DEF ProcessInv, InvocationInv
  <2>2. /\ callStatus[c] # "pending"
        /\ callStatus[c] = "cancelled" /\ c \in SideEffecting => FALSE
    BY <1>1, <2>1 DEF ProcessInv, Inv, CallInv
  <2>. QED
    BY <2>1, <2>2
<1>. QED
  BY <1>1, ProcessInvariance, PTL

(* What the signal of an execution says of a cancellation is true in the   *)
(* store, however late the flow that asked for it aborts the execution.    *)
THEOREM AbortsFollowFences == ProcessSpec => []AbortFollowsFence
<1>1. ProcessInv => AbortFollowsFence
  BY DEF ProcessInv, FenceInv
<1>. QED
  BY <1>1, ProcessInvariance, PTL

(* Only the running run of a task that is not over is executed. *)
THEOREM TasksHaveOneExecution == ProcessSpec => []OneExecutionPerTask
<1>1. ASSUME ProcessInv PROVE OneExecutionPerTask
  <2>1. \A r \in Run : Registered(r) => Live(r)
    BY DEF Registered, Live
  <2>. QED
    BY <1>1, <2>1 DEF ProcessInv, LiveRunsRun, OneExecutionPerTask
<1>. QED
  BY <1>1, ProcessInvariance, PTL

-----------------------------------------------------------------------------
(* What the commands leave of runs, calls and questions. *)

(* A call stays in its run, a run keeps its number, and its owner while it *)
(* runs.                                                                   *)
LinksStay ==
    /\ \A c \in Call : callTask[c] # None =>
            callTask'[c] = callTask[c] /\ callRun'[c] = callRun[c]
    /\ \A r \in Run : runTask[r] # None => runNo'[r] = runNo[r]
    /\ \A r \in Run : runStatus[r] = "running" /\ runStatus'[r] = "running" =>
            runOwner'[r] = runOwner[r]

(* While a question is open, its run stays paused and its task gets no run. *)
QuestionsStay ==
    \A c \in Call : reqStatus[c] = "pending" /\ reqStatus'[c] = "pending" =>
        /\ runStatus[callRun[c]] = "paused" => runStatus'[callRun[c]] = "paused"
        /\ \A r \in Run : runTask'[r] = callTask[c] => runTask[r] = callTask[c]

(* The running run of a task has the greatest number. *)
RunningIsNewest ==
    \A r, q \in Run :
        /\ runStatus[r] = "running" /\ q # r /\ runTask[q] = runTask[r]
        => runNo[q] < runNo[r]

Undisturbed == LinksStay /\ QuestionsStay /\ RunningIsNewest'

(* A command that neither makes nor opens nor closes a run. *)
LEMMA RunsUntouched ==
    ASSUME Inv, CallsInTheirRuns, RunningIsNewest,
           UNCHANGED <<runTask, runNo, runStatus, runOwner, callLinks>>
    PROVE  Undisturbed
  BY DEF Undisturbed, LinksStay, QuestionsStay, RunningIsNewest

(* A command that closes runs closes no paused run whose task still asks. *)
LEMMA RunsClosed ==
    ASSUME Inv, CallsInTheirRuns, RunningIsNewest,
           NEW R \in SUBSET Run, NEW status \in RunStatus \ {"running"}, CloseRuns(R, status),
           UNCHANGED callLinks,
           \A c \in Call : reqStatus[c] = "pending" /\ callRun[c] \in R => reqStatus'[c] # "pending"
    PROVE  Undisturbed
<1>1. UNCHANGED <<runTask, runNo>>
  BY DEF CloseRuns
<1>2. \A r \in Run : r \notin R => runStatus'[r] = runStatus[r] /\ runOwner'[r] = runOwner[r]
  BY DEF CloseRuns
<1>3. \A r \in Run : r \in R => runStatus'[r] # "running"
  BY DEF CloseRuns
<1>4. LinksStay
  BY <1>1, <1>2, <1>3 DEF LinksStay
<1>5. \A c \in Call : reqStatus[c] = "pending" => callRun[c] \in Run
  BY NoneAssumption DEF Inv, QuestionInv, RowLinks, TypeOK, CallsInTheirRuns
<1>6. QuestionsStay
  BY <1>1, <1>2, <1>5 DEF QuestionsStay
<1>7. RunningIsNewest'
  BY <1>1, <1>2, <1>3 DEF RunningIsNewest
<1>. QED
  BY <1>4, <1>6, <1>7 DEF Undisturbed

(* A run that is made is the newest of a task that asks nothing any more. *)
LEMMA RunMade ==
    ASSUME Inv, CallsInTheirRuns, RunningIsNewest,
           NEW t \in Task, NEW r \in Run, NEW o \in Owner, NEW at \in CallerTime,
           taskStatus[t] \in {"created", "waiting_for_user"}, InsertRunningRun(r, t, o, at),
           UNCHANGED callLinks,
           \A c \in Call : callTask[c] = t => reqStatus'[c] # "pending"
    PROVE  Undisturbed
<1> USE DEF Inv
<1>1. /\ runTask[r] = None /\ runStatus[r] = "absent"
      /\ runTask'[r] = t /\ runNo'[r] = NextRunNo(t) /\ runStatus'[r] = "running"
  BY DEF InsertRunningRun, RowLinks, TypeOK
<1>2. \A q \in Run : q # r => /\ runTask'[q] = runTask[q] /\ runNo'[q] = runNo[q]
                              /\ runStatus'[q] = runStatus[q] /\ runOwner'[q] = runOwner[q]
  BY DEF InsertRunningRun, TypeOK
<1>3. LinksStay
  BY <1>1, <1>2 DEF LinksStay
<1>4. QuestionsStay
  <2>1. \A c \in Call : reqStatus[c] = "pending" =>
            callRun[c] \in Run /\ callTask[c] # None /\ runTask[callRun[c]] # None
    BY NoneAssumption DEF QuestionInv, RowLinks, TypeOK, CallsInTheirRuns
  <2>. QED
    BY <1>1, <1>2, <2>1 DEF QuestionsStay
<1>5. \A q \in Run : runTask[q] = t => runNo[q] < NextRunNo(t) /\ runStatus[q] # "running"
  <2> SUFFICES ASSUME NEW q \in Run, runTask[q] = t
               PROVE  runNo[q] < NextRunNo(t) /\ runStatus[q] # "running"
    OBVIOUS
  <2>1. taskStatus[t] = "waiting_for_user"
    BY NoneAssumption DEF RowLinks
  <2>2. NextRunNo(t) \in Nat /\ 2 * NextRunNo(t) = taskVersion[t] + 2
    BY <2>1, ResumedRunNo
  <2>3. runNo[q] \in Nat /\ taskVersion[t] \in Nat /\ 2 * runNo[q] <= taskVersion[t] + 1
    BY <2>1 DEF RunNumbers, TypeOK
  <2>. QED
    BY <2>1, <2>2, <2>3 DEF ExecutorInv
<1>6. RunningIsNewest'
  BY <1>1, <1>2, <1>5, NoneAssumption DEF RunningIsNewest
<1>. QED
  BY <1>3, <1>4, <1>6 DEF Undisturbed

LEMMA CancelledDisturbNothing ==
    ASSUME Inv, CallsInTheirRuns, RunningIsNewest, NEW T \in SUBSET Task, CancelLockedTasks(T)
    PROVE  Undisturbed
<1> DEFINE R == OpenRuns(Cancellable(T))
<1>1. CloseRuns(R, "cancelled") /\ UNCHANGED callLinks
  BY DEF CancelLockedTasks
<1>2. R \in SUBSET Run
  BY DEF OpenRuns
<1>3. ASSUME NEW c \in Call, reqStatus[c] = "pending", callRun[c] \in R
      PROVE  reqStatus'[c] # "pending"
  <2>1. callTask[c] # None
    BY <1>3 DEF Inv, QuestionInv, RowLinks
  <2>2. callTask[c] \in Cancellable(T)
    BY <1>3, <2>1 DEF OpenRuns, CallsInTheirRuns
  <2>. QED
    BY <2>2 DEF CancelLockedTasks, TerminalizedRequests
<1>. QED
  BY <1>1, <1>2, <1>3, RunsClosed

LEMMA SessionNextUndisturbing ==
    ASSUME Inv, CallsInTheirRuns, RunningIsNewest, SessionNext
    PROVE  Undisturbed
<1>1. PICK s \in Session :
        \/ CreateSession(s)
        \/ BeginSessionDeletion(s)
        \/ FinalizeDeletion(s)
        \/ \E t \in Task, k \in ClientRequest \cup {None} : CreateTaskWithUserMessage(t, s, k)
  BY DEF SessionNext
<1>2. CASE BeginSessionDeletion(s)
  BY <1>2, CancelledDisturbNothing DEF BeginSessionDeletion
<1>3. CASE \/ CreateSession(s) \/ FinalizeDeletion(s)
           \/ \E t \in Task, k \in ClientRequest \cup {None} :
                 CreateTaskWithUserMessage(t, s, k)
  BY <1>3, RunsUntouched DEF CreateSession, FinalizeDeletion, CreateTaskWithUserMessage
<1>. QED
  BY <1>1, <1>2, <1>3

LEMMA WorkerNextUndisturbing ==
    ASSUME Inv, CallsInTheirRuns, RunningIsNewest, WorkerNext
    PROVE  Undisturbed
<1>1. PICK t \in Task, r \in Run, o \in Owner, at \in CallerTime :
        \/ StartTaskRun(t, taskVersion[t], r, o, at)
        \/ RenewTaskRunOwnership(t, r, o, at)
        \/ FailTask(t, taskVersion[t], r, o, at)
        \/ CompleteTask(t, r, o, at)
        \/ ApplyActivePlan(t, r, o, at)
        \/ \E out \in Output, C \in SUBSET Call : SaveToolCalls(t, r, o, at, out, C)
        \/ \E c \in Call : StartToolCall(t, r, o, at, c)
        \/ \E c \in Call, outcome \in Outcome : CompleteToolCall(t, r, o, at, c, outcome)
        \/ \E C \in SUBSET Call : \E deadline \in [C -> {None, at + AnswerTtl}] :
                WaitForUserInput(t, r, o, at, C, deadline)
  BY DEF WorkerNext
<1>2. CASE StartTaskRun(t, taskVersion[t], r, o, at)
  <2>1. \A c \in Call : callTask[c] = t => FALSE
    BY <1>2, NoneAssumption DEF StartTaskRun, Inv, RowLinks
  <2>. QED
    BY <1>2, <2>1, RunMade DEF StartTaskRun
<1>3. CASE \/ RenewTaskRunOwnership(t, r, o, at)
           \/ ApplyActivePlan(t, r, o, at)
           \/ \E c \in Call : StartToolCall(t, r, o, at, c)
           \/ \E c \in Call, outcome \in Outcome : CompleteToolCall(t, r, o, at, c, outcome)
  BY <1>3, RunsUntouched
  DEF RenewTaskRunOwnership, ApplyActivePlan, StartToolCall, CompleteToolCall
<1>4. CASE FailTask(t, taskVersion[t], r, o, at) \/ CompleteTask(t, r, o, at)
  <2>1. runStatus[r] = "running" /\ runTask[r] = t /\ taskStatus[t] = "running"
    BY <1>4 DEF FailTask, CompleteTask, OwnsRun
  <2>2. \A c \in Call : reqStatus[c] = "pending" => callRun[c] # r
    BY <2>1, NoneAssumption DEF Inv, QuestionInv, RowLinks, TypeOK, CallsInTheirRuns
  <2>. QED
    BY <1>4, <2>2, RunsClosed DEF FailTask, CompleteTask
<1>5. CASE \E out \in Output, C \in SUBSET Call : SaveToolCalls(t, r, o, at, out, C)
  BY <1>5 DEF SaveToolCalls, Undisturbed, LinksStay, QuestionsStay, RunningIsNewest, Inv,
              RowLinks, QuestionInv
<1>6. CASE \E C \in SUBSET Call : \E deadline \in [C -> {None, at + AnswerTtl}] :
                WaitForUserInput(t, r, o, at, C, deadline)
  <2>1. runStatus[r] = "running" /\ runTask[r] = t /\ taskStatus[t] = "running"
    BY <1>6 DEF WaitForUserInput, OwnsRun
  <2>2. \A c \in Call : reqStatus[c] = "pending" => callRun[c] # r
    BY <2>1, NoneAssumption DEF Inv, QuestionInv, RowLinks, TypeOK, CallsInTheirRuns
  <2>. QED
    BY <1>6, <2>2, RunsClosed DEF WaitForUserInput
<1>. QED
  BY <1>1, <1>2, <1>3, <1>4, <1>5, <1>6

LEMMA ApiNextUndisturbing ==
    ASSUME Inv, CallsInTheirRuns, RunningIsNewest, ApiNext
    PROVE  Undisturbed
<1>1. PICK t \in Task :
        \/ CancelTask(t, taskVersion[t])
        \/ ReconcileCreatedTask(t, taskVersion[t])
        \/ \E at \in CallerTime : ReconcileRunningTask(t, taskVersion[t], at)
        \/ \E c \in Call, at \in CallerTime : ExpireUserInput(t, c, at)
        \/ \E c \in Call, at \in CallerTime, a \in ClientAnswer, r \in Run, o \in Owner :
              AnswerUserInput(t, c, a, r, o, at)
  BY DEF ApiNext
<1>2. CASE CancelTask(t, taskVersion[t])
  BY <1>2, CancelledDisturbNothing DEF CancelTask
<1>3. CASE ReconcileCreatedTask(t, taskVersion[t])
  BY <1>3, RunsUntouched DEF ReconcileCreatedTask
<1>4. CASE \E at \in CallerTime : ReconcileRunningTask(t, taskVersion[t], at)
  <2>1. PICK r \in Run : runTask[r] = t /\ runStatus[r] = "running" /\ CloseRuns({r}, "interrupted")
    BY <1>4 DEF ReconcileRunningTask
  <2>2. taskStatus[t] = "running" /\ UNCHANGED callLinks
    BY <1>4 DEF ReconcileRunningTask
  <2>3. \A c \in Call : reqStatus[c] = "pending" => callRun[c] # r
    BY <2>1, <2>2, NoneAssumption DEF Inv, QuestionInv, RowLinks, TypeOK, CallsInTheirRuns
  <2>. QED
    BY <2>1, <2>2, <2>3, RunsClosed
<1>5. CASE \E c \in Call, at \in CallerTime : ExpireUserInput(t, c, at)
  <2>1. PICK c \in Call :
            /\ callTask[c] = t
            /\ reqStatus' = TerminalizedRequests({t}, [reqStatus EXCEPT ![c] = "expired"])
            /\ CloseRuns({r \in {callRun[c]} : runStatus[r] = "paused"}, "failed")
            /\ UNCHANGED callLinks
    BY <1>5 DEF ExpireUserInput
  <2>2. callRun[c] \in Run /\ runTask[callRun[c]] = t
    BY <2>1, NoneAssumption DEF CallsInTheirRuns
  <2>3. \A d \in Call : reqStatus[d] = "pending" /\ callRun[d] = callRun[c] =>
            reqStatus'[d] # "pending"
    <3>1. \A d \in Call : reqStatus[d] = "pending" /\ callRun[d] = callRun[c] => callTask[d] = t
      BY <2>2 DEF Inv, QuestionInv, RowLinks, CallsInTheirRuns
    <3>. QED
      BY <2>1, <3>1 DEF TerminalizedRequests, Inv, TypeOK
  <2> DEFINE R == {r \in {callRun[c]} : runStatus[r] = "paused"}
  <2>4. R \in SUBSET Run /\ \A r \in R : r = callRun[c]
    BY <2>2
  <2>5. CloseRuns(R, "failed") /\ UNCHANGED callLinks
    BY <2>1
  <2> HIDE DEF R
  <2>. QED
    BY <2>3, <2>4, <2>5, RunsClosed
<1>6. ASSUME NEW c \in Call, NEW at \in CallerTime, NEW a \in ClientAnswer,
             NEW r \in Run, NEW o \in Owner, AnswerUserInput(t, c, a, r, o, at)
      PROVE  Undisturbed
  <2>1. CASE LastQuestion(t, c)
    <3>1. \A d \in Call : callTask[d] = t => reqStatus'[d] # "pending"
      BY <1>6, <2>1 DEF AnswerUserInput, LastQuestion, PendingRequests, Inv, TypeOK
    <3>. QED
      BY <1>6, <2>1, <3>1, RunMade DEF AnswerUserInput
  <2>2. CASE ~LastQuestion(t, c)
    BY <1>6, <2>2, RunsUntouched DEF AnswerUserInput
  <2>. QED
    BY <2>1, <2>2
<1>. QED
  BY <1>1, <1>2, <1>3, <1>4, <1>5, <1>6

LEMMA NextUndisturbing ==
    ASSUME Inv, CallsInTheirRuns, RunningIsNewest, [Next]_vars
    PROVE  Undisturbed
<1>1. CASE Tick \/ UNCHANGED vars
  BY <1>1, RunsUntouched DEF Tick
<1>. QED
  BY <1>1, SessionNextUndisturbing, WorkerNextUndisturbing, ApiNextUndisturbing DEF Next

-----------------------------------------------------------------------------
(* The calls of an execution, and the questions it asks. *)

(* An execution works on calls of its own run. *)
OwnCalls ==
    \A r \in Run : Live(r) =>
        /\ \A c \in exec[r].left \cup exec[r].asked : callRun[c] = r /\ callTask[c] = runTask[r]
        /\ exec[r].stage \in {"started", "invoking", "reporting"} =>
              callRun[exec[r].current] = r /\ callTask[exec[r].current] = runTask[r]

(* What a step other than those of an execution does to it. *)
Resting(r) ==
    \/ /\ exec'[r].stage = exec[r].stage /\ exec'[r].seen = exec[r].seen
       /\ exec'[r].left = exec[r].left /\ exec'[r].asked = exec[r].asked
       /\ exec'[r].current = exec[r].current
    \/ exec'[r] = [Idle EXCEPT !.stage = "abandoned"]
    \/ /\ \E t \in Task : \/ StartTask(t, r)
                          \/ \E c \in Call, a \in ClientAnswer : Answer(t, c, a, r)
       /\ runStatus[r] = "absent"
       /\ exec'[r] = [Idle EXCEPT !.stage = "loading"]

LEMMA ExecutionsRest ==
    ASSUME ProcessInv, [ProcessNext]_allVars, NEW r \in Run
    PROVE  Proceed(r) \/ Resting(r)
<1> USE DEF ProcessInv, ProcessTypes
<1>1. CASE \E q \in Run : Proceed(q)
  BY <1>1, ProceedMoves DEF Moves, Resting
<1>2. CASE \E q \in Run : LoseOwnership(q)
  BY <1>2 DEF LoseOwnership, Resting
<1>3. CASE \E t \in Task, q \in Run : StartTask(t, q)
  <2>1. PICK t \in Task, q \in Run : StartTask(t, q)
    BY <1>3
  <2>2. runStatus[q] = "absent"
    BY <2>1 DEF StartTask, StartTaskRun, InsertRunningRun
  <2>3. /\ \A p \in Run \ {q} : exec'[p] = exec[p]
        /\ exec'[q] \in {[Idle EXCEPT !.stage = "loading"], [Idle EXCEPT !.stage = "abandoned"]}
    BY <2>1 DEF StartTask, Leave, DispatchedStage
  <2>. QED
    BY <2>1, <2>2, <2>3 DEF Resting
<1>4. CASE \E t \in Task, c \in Call, a \in ClientAnswer, q \in Run : Answer(t, c, a, q)
  <2>1. PICK t \in Task, c \in Call, a \in ClientAnswer, q \in Run : Answer(t, c, a, q)
    BY <1>4
  <2>2. UNCHANGED exec \/ runStatus[q] = "absent"
    BY <2>1 DEF Answer, AnswerUserInput, InsertRunningRun
  <2>3. /\ \A p \in Run \ {q} : exec'[p] = exec[p]
        /\ \/ UNCHANGED exec
           \/ exec'[q] \in {[Idle EXCEPT !.stage = "loading"], [Idle EXCEPT !.stage = "abandoned"]}
    BY <2>1 DEF Answer, Leave, DispatchedStage
  <2>. QED
    BY <2>1, <2>2, <2>3 DEF Resting
<1>5. CASE \E t \in Task : AbortExecution(t)
  <2>1. PICK t \in Task : Abort(AbortedBy(t), "cancelled")
    BY <1>5 DEF AbortExecution
  <2>. QED
    BY <2>1 DEF Abort, Resting
<1>6. CASE Shutdown
  BY <1>6 DEF Shutdown, Abort, Resting
<1>7. CASE ProcessEnds
  BY <1>7 DEF ProcessEnds, Resting
<1>8. CASE \/ \E q \in Run : Renew(q)
           \/ \E o \in Owner : Boot(o)
           \/ ScanEnds \/ Scan \/ TimePasses \/ UNCHANGED allVars
           \/ \E s \in Session : OpenSession(s) \/ PrepareSessionDeletion(s)
           \/ \E t \in Task, s \in Session, k \in ClientRequest : RequestTask(t, s, k)
           \/ \E t \in Task : RepeatRequest(t) \/ StartTaskFails(t) \/ RequestCancel(t)
  <2>1. UNCHANGED exec
    BY <1>8
    DEF Renew, Boot, ScanEnds, Scan, TimePasses, OpenSession, PrepareSessionDeletion,
        RequestTask, RepeatRequest, StartTaskFails, RequestCancel
  <2>. QED
    BY <2>1 DEF Resting
<1>. QED
  BY <1>1, <1>2, <1>3, <1>4, <1>5, <1>6, <1>7, <1>8 DEF ProcessNext, Execution, Flow

(* The stages in which an execution has a call in hand. *)
HoldsCall == {"started", "invoking", "reporting"}

(* What an execution has in hand it had before, or has just saved. *)
Hands(r) ==
    \/ \E stage \in Stage \ HoldsCall : Enter(r, stage) \/ Leave(r, stage)
    \/ SkipTool(r) \/ InvokeTool(r) \/ ToolReturns(r)
    \/ Load(r) \/ SaveBatch(r) \/ (\E c \in Call : StartTool(r, c)) \/ ToolAsks(r) \/ Report(r)

LEMMA ProceedHands ==
    ASSUME NEW r \in Run, Proceed(r)
    PROVE  Hands(r)
<1>1. CASE \/ Register(r) \/ CallModel(r) \/ Correct(r) \/ GiveUp(r) \/ FinalAnswer(r)
           \/ SaveRefused(r) \/ StartRefused(r)
           \/ ReportOfUnknown(r) \/ ReportRefused(r) \/ ReportMalformed(r)
           \/ Ask(r) \/ AskRefused(r) \/ NextTurn(r) \/ Stops(r) \/ Fail(r)
           \/ Cancel(r) \/ StoreFails(r)
  <2>1. \E stage \in Stage \ HoldsCall : Enter(r, stage) \/ Leave(r, stage)
    BY <1>1
    DEF HoldsCall, Register, CallModel, Correct, GiveUp, AfterLoopFailure, FinalAnswer,
        LastCommand, SaveRefused, StartRefused, ReportOfUnknown, ReportRefused,
        ReportMalformed, Ask, AfterQuestion, AskRefused, NextTurn, Stops, Fail, Cancel,
        StoreFails, Refused
  <2>. QED
    BY <2>1 DEF Hands
<1>2. CASE \/ SkipTool(r) \/ InvokeTool(r) \/ ToolReturns(r) \/ Load(r) \/ SaveBatch(r)
           \/ (\E c \in Call : StartTool(r, c)) \/ ToolAsks(r) \/ Report(r)
  BY <1>2 DEF Hands
<1>. QED
  BY <1>1, <1>2 DEF Proceed

LEMMA OwnCallsStep ==
    ASSUME ProcessInv, OwnCalls, Undisturbed, [ProcessNext]_allVars
    PROVE  OwnCalls'
<1> USE DEF ProcessInv, ProcessTypes
<1>1. RowsStay
  BY ProcessStepIsCommand, NextKeepsRows
<1>2. SUFFICES ASSUME NEW r \in Run, Live(r)'
               PROVE  /\ \A c \in exec'[r].left \cup exec'[r].asked :
                            callRun'[c] = r /\ callTask'[c] = runTask'[r]
                      /\ exec'[r].stage \in {"started", "invoking", "reporting"} =>
                            /\ callRun'[exec'[r].current] = r
                            /\ callTask'[exec'[r].current] = runTask'[r]
  BY DEF OwnCalls
<1>3. ASSUME NEW c \in Call, callRun[c] = r, callTask[c] = runTask[r], Live(r)
      PROVE  callRun'[c] = r /\ callTask'[c] = runTask'[r]
  BY <1>1, <1>3 DEF Undisturbed, LinksStay, RowsStay, SenderInv
<1>4. CASE Resting(r)
  BY <1>2, <1>3, <1>4 DEF Resting, OwnCalls, Live, Idle, SenderInv
<1>5. CASE Proceed(r)
  <2>1. Live(r)
    BY <1>5, ProceedMoves DEF Moves
  <2>2. /\ exec[r].left \subseteq Call /\ exec[r].asked \subseteq Call
        /\ exec[r].stage \in {"started", "invoking", "reporting"} => exec[r].current \in Call
    BY DEF SenderInv
  <2>3. CASE \E stage \in Stage \ HoldsCall : Enter(r, stage) \/ Leave(r, stage)
    <3>1. exec'[r].left \subseteq exec[r].left /\ exec'[r].asked \subseteq exec[r].asked
      BY <2>3 DEF Enter, Leave, Idle
    <3>2. exec'[r].stage \notin HoldsCall
      BY <2>3 DEF Enter, Leave, Idle
    <3>. QED
      BY <1>3, <2>1, <2>2, <3>1, <3>2 DEF OwnCalls, HoldsCall
  <2>8. CASE SkipTool(r) \/ InvokeTool(r) \/ ToolReturns(r)
    <3>1. /\ exec'[r].left = exec[r].left /\ exec'[r].asked = exec[r].asked
          /\ exec[r].stage \in HoldsCall /\ exec'[r].current = exec[r].current
      BY <2>8 DEF SkipTool, InvokeTool, ToolReturns, At, Enter, HoldsCall
    <3>. QED
      BY <1>3, <2>1, <2>2, <3>1 DEF OwnCalls, HoldsCall
  <2>4. CASE Load(r) \/ Report(r)
    <3>1. exec'[r].left \subseteq exec[r].left /\ exec'[r].asked \subseteq exec[r].asked
      BY <2>4 DEF Load, Report, Leave, Idle
    <3>2. exec'[r].stage \notin {"started", "invoking", "reporting"}
      BY <2>4 DEF Load, Report, Leave, Idle, AfterLoopFailure
    <3>. QED
      BY <1>3, <2>1, <2>2, <3>1, <3>2 DEF OwnCalls
  <2>5. CASE SaveBatch(r)
    <3>1. PICK C \in Batches :
            /\ callTask' = [c \in Call |-> IF c \in C THEN TaskOf(r) ELSE callTask[c]]
            /\ callRun' = [c \in Call |-> IF c \in C THEN r ELSE callRun[c]]
            /\ \/ exec' = [exec EXCEPT ![r].stage = "calling", ![r].left = C]
               \/ Leave(r, "abandoned")
      BY <2>5 DEF SaveBatch, SaveToolCalls
    <3>2. C \subseteq Call /\ runTask'[r] = runTask[r]
      BY <1>1, <2>1 DEF Batches, RowsStay, SenderInv
    <3>3. exec'[r].stage = "calling" /\ exec'[r].left = C /\ exec'[r].asked = exec[r].asked
      BY <1>2, <3>1 DEF Leave, Idle, Live
    <3>. QED
      BY <1>3, <2>1, <2>2, <3>1, <3>2, <3>3 DEF OwnCalls, TaskOf
  <2>6. CASE \E c \in Call : StartTool(r, c)
    <3>1. PICK c \in exec[r].left, next \in {"started", "failing"} :
             exec' = [exec EXCEPT ![r].stage = next, ![r].current = c, ![r].left = @ \ {c}]
      BY <2>6 DEF StartTool, AfterLostStart
    <3>2. /\ exec'[r].left = exec[r].left \ {c} /\ exec'[r].asked = exec[r].asked
          /\ exec'[r].current = c
      BY <3>1
    <3>. QED
      BY <1>3, <2>1, <2>2, <3>2 DEF OwnCalls
  <2>7. CASE ToolAsks(r)
    <3>1. /\ exec'[r].left = exec[r].left /\ exec'[r].stage = "calling"
          /\ exec'[r].asked = exec[r].asked \cup {exec[r].current}
          /\ exec[r].stage = "invoking"
      BY <2>7 DEF ToolAsks, At
    <3>. QED
      BY <1>3, <2>1, <2>2, <3>1 DEF OwnCalls
  <2>. QED
    BY <1>5, <2>3, <2>4, <2>5, <2>6, <2>7, <2>8, ProceedHands DEF Hands
<1>. QED
  BY <1>4, <1>5, ExecutionsRest

-----------------------------------------------------------------------------
(* Questions. *)

(* A step other than SaveBatch and Ask makes no call and asks no question. *)
OpensNothing ==
    \A c \in Call : /\ callStatus[c] = "absent" => callStatus'[c] = "absent"
                    /\ reqStatus'[c] = "pending" => reqStatus[c] = "pending"

LEMMA OthersOpenNothing ==
    ASSUME ProcessInv, [ProcessNext]_allVars
    PROVE  OpensNothing \/ \E r \in Run : SaveBatch(r) \/ Ask(r)
<1> USE DEF ProcessInv, Inv
<1>1. ASSUME UNCHANGED <<callStatus, reqStatus>>
      PROVE  OpensNothing
  BY <1>1 DEF OpensNothing
<1>2. ASSUME NEW T, callStatus' = TerminalizedCalls(T, callStatus),
             reqStatus' = TerminalizedRequests(T, reqStatus)
      PROVE  OpensNothing
  BY <1>2 DEF OpensNothing, TerminalizedCalls, TerminalizedRequests
<1>3. ASSUME NEW T \in SUBSET Task, CancelLockedTasks(T)
      PROVE  OpensNothing
  BY <1>2, <1>3 DEF CancelLockedTasks
<1>4. ASSUME NEW r \in Run, Proceed(r)
      PROVE  OpensNothing \/ SaveBatch(r) \/ Ask(r)
  <2>1. CASE FinalAnswer(r) \/ Fail(r)
    <3>1. \/ UNCHANGED <<callStatus, reqStatus>>
          \/ /\ callStatus' = TerminalizedCalls({TaskOf(r)}, callStatus)
             /\ reqStatus' = TerminalizedRequests({TaskOf(r)}, reqStatus)
      BY <2>1 DEF FinalAnswer, CompleteTask, Fail, FailTask
    <3>. QED
      BY <1>1, <1>2, <3>1
  <2>2. CASE Cancel(r)
    <3>1. TaskOf(r) \in Task
      BY <2>2, FencedSender DEF Cancel, At, Live
    <3>. QED
      BY <1>1, <1>3, <2>2, <3>1 DEF Cancel, CancelTask
  <2>3. CASE \E c \in Call : StartTool(r, c)
    <3>1. PICK c \in Call : \/ UNCHANGED <<callStatus, reqStatus>>
                            \/ /\ callStatus[c] = "pending"
                               /\ callStatus' = [callStatus EXCEPT ![c] = "running"]
                               /\ UNCHANGED reqStatus
      BY <2>3 DEF StartTool, StartToolCall
    <3>. QED
      BY <3>1 DEF OpensNothing, TypeOK
  <2>4. CASE Report(r)
    <3>1. exec[r].current \in Call
      BY <2>4 DEF Report, At, SenderInv
    <3>2. PICK status \in CallStatus :
              /\ callStatus[exec[r].current] = "running"
              /\ callStatus' = [callStatus EXCEPT ![exec[r].current] = status]
              /\ UNCHANGED reqStatus
      BY <2>4 DEF Report, CompleteToolCall, SettledStatus
    <3>. QED
      BY <3>1, <3>2 DEF OpensNothing, TypeOK
  <2>5. CASE \/ Load(r) \/ Register(r) \/ CallModel(r) \/ Correct(r) \/ GiveUp(r)
             \/ SaveRefused(r) \/ StartRefused(r) \/ SkipTool(r) \/ InvokeTool(r)
             \/ ToolReturns(r) \/ ToolAsks(r) \/ ReportOfUnknown(r) \/ ReportRefused(r)
             \/ ReportMalformed(r) \/ AskRefused(r) \/ NextTurn(r) \/ Stops(r)
             \/ StoreFails(r)
    <3>1. UNCHANGED vars
      BY <2>5
      DEF Load, Register, CallModel, Correct, GiveUp, SaveRefused, StartRefused, SkipTool,
          InvokeTool, ToolReturns, ToolAsks, ReportOfUnknown, ReportRefused,
          ReportMalformed, AskRefused, NextTurn, Stops, StoreFails, Refused
    <3>. QED
      BY <1>1, <3>1
  <2>. QED
    BY <1>4, <2>1, <2>2, <2>3, <2>4, <2>5 DEF Proceed
<1>5. CASE \E s \in Session : PrepareSessionDeletion(s)
  BY <1>3, <1>5 DEF PrepareSessionDeletion, BeginSessionDeletion
<1>6. CASE \E t \in Task : RequestCancel(t)
  BY <1>3, <1>6 DEF RequestCancel, CancelTask
<1>7. CASE \E t \in Task, c \in Call, a \in ClientAnswer, r \in Run : Answer(t, c, a, r)
  <2>1. PICK c \in Call : /\ callStatus[c] = "waiting_for_user"
                          /\ callStatus' = [callStatus EXCEPT ![c] = "completed"]
                          /\ reqStatus' = [reqStatus EXCEPT ![c] = "answered"]
    <3>1. PICK t \in Task, c \in Call, a \in ClientAnswer, r \in Run, at \in ProcessTime :
              AnswerUserInput(t, c, a, r, owner, at)
      BY <1>7 DEF Answer
    <3>. QED
      BY <3>1 DEF AnswerUserInput
  <2>. QED
    BY <2>1 DEF OpensNothing, TypeOK
<1>8. CASE Scan
  <2>1. CASE \E c \in ExpiredRequests, at \in ProcessTime : ExpireUserInput(callTask[c], c, at)
    <3>1. PICK c \in Call : \E t :
              /\ callStatus[c] = "waiting_for_user"
              /\ callStatus' = TerminalizedCalls({t}, [callStatus EXCEPT ![c] = "failed"])
              /\ reqStatus' = TerminalizedRequests({t}, [reqStatus EXCEPT ![c] = "expired"])
      BY <2>1 DEF ExpiredRequests, ExpireUserInput
    <3>. QED
      BY <3>1 DEF OpensNothing, TypeOK, TerminalizedCalls, TerminalizedRequests
  <2>2. CASE \E t \in ForgottenTasks : ReconcileCreatedTask(t, taskVersion[t])
    BY <1>1, <2>2 DEF ReconcileCreatedTask
  <2>3. CASE \E t \in LapsedTasks, at \in ProcessTime :
                ReconcileRunningTask(t, taskVersion[t], at)
    BY <2>3
    DEF ReconcileRunningTask, TerminalizedCalls, TerminalizedRequests, OpensNothing
  <2>. QED
    BY <1>8, <2>1, <2>2, <2>3 DEF Scan
<1>9. CASE \/ \E r \in Run : Renew(r) \/ LoseOwnership(r)
           \/ \E o \in Owner : Boot(o)
           \/ ProcessEnds \/ Shutdown \/ ScanEnds \/ TimePasses \/ UNCHANGED allVars
           \/ \E s \in Session : OpenSession(s)
           \/ \E t \in Task, s \in Session, k \in ClientRequest : RequestTask(t, s, k)
           \/ \E t \in Task, r \in Run : StartTask(t, r)
           \/ \E t \in Task : RepeatRequest(t) \/ StartTaskFails(t) \/ AbortExecution(t)
  <2>1. UNCHANGED <<callStatus, reqStatus>>
    BY <1>9
    DEF Renew, RenewTaskRunOwnership, LoseOwnership, Boot, ProcessEnds, Shutdown, ScanEnds,
        TimePasses, Tick, OpenSession, CreateSession, RequestTask, CreateTaskWithUserMessage,
        StartTask, StartTaskRun, RepeatRequest, StartTaskFails, AbortExecution
  <2>. QED
    BY <1>1, <2>1
<1>. QED
  BY <1>4, <1>5, <1>6, <1>7, <1>8, <1>9 DEF ProcessNext, Execution, Flow

(* What Ask leaves: the questions are those of its run, which has paused.  *)
LEMMA AskedByNewestRun ==
    ASSUME ProcessInv, OwnCalls, RunningIsNewest, NEW r \in Run, Ask(r),
           NEW c \in Call, reqStatus'[c] = "pending", reqStatus[c] # "pending"
    PROVE  /\ callRun'[c] = r /\ callTask'[c] = runTask[r]
           /\ runStatus'[r] = "paused"
           /\ \A q \in Run \ {r} : runTask'[q] = runTask[r] => runNo'[q] < runNo'[r]
<1> USE DEF ProcessInv, ProcessTypes
<1>1. PICK at \in ProcessTime : \E deadline \in [exec[r].asked -> {None, at + AnswerTtl}] :
          WaitForUserInput(TaskOf(r), r, owner, at, exec[r].asked, deadline)
  BY DEF Ask
<1>2. /\ runStatus[r] = "running" /\ CloseRuns({r}, "paused")
      /\ reqStatus' = [d \in Call |-> IF d \in exec[r].asked THEN "pending" ELSE reqStatus[d]]
      /\ UNCHANGED callLinks
  BY <1>1 DEF WaitForUserInput, OwnsRun
<1>3. c \in exec[r].asked /\ Live(r)
  BY <1>2 DEF Ask, At, Live
<1>4. callRun[c] = r /\ callTask[c] = runTask[r]
  BY <1>3 DEF OwnCalls
<1>5. runStatus'[r] = "paused" /\ UNCHANGED <<runTask, runNo>>
  BY <1>2 DEF CloseRuns
<1>. QED
  BY <1>2, <1>4, <1>5 DEF RunningIsNewest

LEMMA QuestionsStep ==
    ASSUME ProcessInv, OwnCalls, RunningIsNewest, QuestionsOfNewestRun, Undisturbed,
           [ProcessNext]_allVars
    PROVE  QuestionsOfNewestRun'
<1> USE DEF ProcessInv
<1>1. SUFFICES ASSUME NEW c \in Call, reqStatus'[c] = "pending"
               PROVE  /\ runStatus'[callRun'[c]] = "paused"
                      /\ \A q \in Run \ {callRun'[c]} :
                            runTask'[q] = callTask'[c] => runNo'[q] < runNo'[callRun'[c]]
  BY DEF QuestionsOfNewestRun
<1>2. CASE reqStatus[c] = "pending"
  <2>1. /\ callTask[c] # None /\ callRun[c] \in Run /\ runTask[callRun[c]] = callTask[c]
    BY <1>2, NoneAssumption DEF Inv, QuestionInv, RowLinks, TypeOK, CallsInTheirRuns
  <2>2. callTask'[c] = callTask[c] /\ callRun'[c] = callRun[c]
    BY <2>1 DEF Undisturbed, LinksStay
  <2>3. runStatus'[callRun[c]] = "paused"
    BY <1>1, <1>2 DEF QuestionsOfNewestRun, Undisturbed, QuestionsStay
  <2>4. ASSUME NEW q \in Run \ {callRun[c]}, runTask'[q] = callTask[c]
        PROVE  runNo'[q] < runNo'[callRun[c]]
    <3>1. runTask[q] = callTask[c]
      BY <1>1, <1>2, <2>4 DEF Undisturbed, QuestionsStay
    <3>2. runNo'[q] = runNo[q] /\ runNo'[callRun[c]] = runNo[callRun[c]]
      BY <2>1, <3>1 DEF Undisturbed, LinksStay
    <3>. QED
      BY <1>2, <2>4, <3>1, <3>2 DEF QuestionsOfNewestRun
  <2>. QED
    BY <2>2, <2>3, <2>4
<1>3. CASE reqStatus[c] # "pending"
  <2>1. CASE \E r \in Run : Ask(r)
    BY <1>1, <1>3, <2>1, AskedByNewestRun
  <2>2. CASE \E r \in Run : SaveBatch(r)
    BY <1>1, <1>3, <2>2 DEF SaveBatch, SaveToolCalls
  <2>. QED
    BY <1>1, <1>3, <2>1, <2>2, OthersOpenNothing DEF OpensNothing
<1>. QED
  BY <1>2, <1>3

(* The invariant of the process, with what its executions have in hand. *)
AskingInv == ProcessInv /\ RunningIsNewest /\ OwnCalls /\ QuestionsOfNewestRun

LEMMA AskingInvariance == ProcessSpec => []AskingInv
<1>1. ASSUME ProcessInit PROVE AskingInv
  <2>1. RunningIsNewest /\ OwnCalls /\ QuestionsOfNewestRun
    BY <1>1 DEF ProcessInit, Init, Idle, RunningIsNewest, OwnCalls, QuestionsOfNewestRun, Live
  <2>. QED
    BY <1>1, <2>1, ProcessInitInv DEF AskingInv
<1>2. ASSUME AskingInv, [ProcessNext]_allVars PROVE AskingInv'
  <2> USE DEF AskingInv
  <2>1. Undisturbed
    BY <1>2, ProcessStepIsCommand, NextUndisturbing DEF ProcessInv
  <2>. QED
    BY <1>2, <2>1, ProcessNextInv, OwnCallsStep, QuestionsStep DEF Undisturbed
<1>. QED
  BY <1>1, <1>2, PTL DEF ProcessSpec

(* A question is asked by the newest run of its task, which stays paused,  *)
(* so that the run an expiry closes is the one that waits                  *)
(* (waitForUserInput, expireUserInput).                                    *)
THEOREM NewestRunAsks == ProcessSpec => []QuestionsOfNewestRun
<1>1. AskingInv => QuestionsOfNewestRun
  BY DEF AskingInv
<1>. QED
  BY <1>1, AskingInvariance, PTL

-----------------------------------------------------------------------------
(* What the scan closes, and the times of what comes after it. *)

(* Whatever a step opens or extends is younger than the last scan. *)
NoneOlder ==
    /\ \A r \in Run : runStatus'[r] = "running" =>
            \/ runExpiry'[r] > scanAt
            \/ runStatus[r] = "running" /\ runExpiry'[r] = runExpiry[r]
    /\ \A t \in Task : taskStatus'[t] = "created" =>
            \/ createdAt'[t] > scanAt - Grace
            \/ taskStatus[t] = "created" /\ createdAt'[t] = createdAt[t]
    /\ \A c \in Call : reqStatus'[c] = "pending" /\ reqExpiry'[c] # None =>
            \/ reqExpiry'[c] > scanAt
            \/ reqStatus[c] = "pending" /\ reqExpiry'[c] = reqExpiry[c]

LEMMA OpenedLater ==
    ASSUME ProcessInv, [ProcessNext]_allVars
    PROVE  NoneOlder
<1> USE DEF ProcessInv, ProcessTypes, Inv
<1>1. ASSUME UNCHANGED <<runStatus, runExpiry, taskStatus, reqStatus, reqExpiry, createdAt>>
      PROVE  NoneOlder
  BY <1>1 DEF NoneOlder
<1>2. ASSUME NEW R, NEW status \in RunStatus \ {"running"}, CloseRuns(R, status),
             \A t \in Task : taskStatus'[t] = "created" => taskStatus[t] = "created",
             \A c \in Call : reqStatus'[c] = "pending" => reqStatus[c] = "pending",
             UNCHANGED <<reqExpiry, createdAt>>
      PROVE  NoneOlder
  BY <1>2 DEF NoneOlder, CloseRuns
<1>3. ASSUME NEW T \in SUBSET Task, CancelLockedTasks(T), UNCHANGED createdAt
      PROVE  NoneOlder
  BY <1>2, <1>3 DEF CancelLockedTasks, TerminalizedRequests
<1>4. ASSUME NEW t, NEW r \in Run, NEW o, NEW at \in ProcessTime, InsertRunningRun(r, t, o, at),
             \A u \in Task : taskStatus'[u] = "created" => taskStatus[u] = "created",
             \A c \in Call : reqStatus'[c] = "pending" => reqStatus[c] = "pending",
             UNCHANGED <<reqExpiry, createdAt>>
      PROVE  NoneOlder
  <2>1. /\ runStatus' = [runStatus EXCEPT ![r] = "running"]
        /\ runExpiry' = [runExpiry EXCEPT ![r] = at + Lease]
    BY <1>4 DEF InsertRunningRun
  <2>2. at + Lease > scanAt
    BY LeaseAssumption DEF ProcessTime
  <2>3. \A q \in Run : runStatus'[q] = "running" =>
            \/ runExpiry'[q] > scanAt
            \/ runStatus[q] = "running" /\ runExpiry'[q] = runExpiry[q]
    BY <2>1, <2>2 DEF TypeOK
  <2>. QED
    BY <1>4, <2>3 DEF NoneOlder
<1>5. CASE \E r \in Run : Proceed(r)
  <2>1. PICK r \in Run : Proceed(r)
    BY <1>5
  <2>2. UNCHANGED createdAt
    BY <2>1
    DEF Proceed, Load, Register, CallModel, Correct, GiveUp, FinalAnswer, SaveBatch,
        SaveRefused, StartTool, StartRefused, SkipTool, InvokeTool, ToolReturns, ToolAsks,
        Report, ReportOfUnknown, ReportRefused, ReportMalformed, Ask, AskRefused, NextTurn,
        Stops, Fail, Cancel, StoreFails, Refused
  <2>3. CASE FinalAnswer(r) \/ Fail(r)
    <3>1. CASE UNCHANGED vars
      BY <1>1, <2>2, <3>1
    <3>2. CASE \E at \in ProcessTime : CompleteTask(TaskOf(r), r, owner, at)
      BY <1>2, <2>2, <3>2 DEF CompleteTask, MoveTask
    <3>3. CASE \E at \in ProcessTime : FailTask(TaskOf(r), exec[r].seen, r, owner, at)
      BY <1>2, <2>2, <3>3 DEF FailTask, MoveTask, TerminalizedRequests
    <3>. QED
      BY <2>3, <3>1, <3>2, <3>3 DEF FinalAnswer, Fail
  <2>4. CASE Cancel(r)
    <3>1. TaskOf(r) \in Task
      BY <2>4, FencedSender DEF Cancel, At, Live
    <3>. QED
      BY <1>1, <1>3, <2>2, <2>4, <3>1 DEF Cancel, CancelTask
  <2>5. CASE Ask(r)
    <3>1. PICK at \in ProcessTime : \E deadline \in [exec[r].asked -> {None, at + AnswerTtl}] :
              WaitForUserInput(TaskOf(r), r, owner, at, exec[r].asked, deadline)
      BY <2>5 DEF Ask
    <3>2. PICK deadline \in [exec[r].asked -> {None, at + AnswerTtl}] :
              WaitForUserInput(TaskOf(r), r, owner, at, exec[r].asked, deadline)
      BY <3>1
    <3>3. /\ CloseRuns({r}, "paused")
          /\ MoveTask(TaskOf(r), "waiting_for_user")
          /\ reqStatus' = [c \in Call |-> IF c \in exec[r].asked THEN "pending" ELSE reqStatus[c]]
          /\ reqExpiry' = [c \in Call |-> IF c \in exec[r].asked THEN deadline[c] ELSE reqExpiry[c]]
      BY <3>2 DEF WaitForUserInput
    <3>4. at + AnswerTtl > scanAt
      BY AnswerTtlAssumption DEF ProcessTime
    <3>5. \A c \in exec[r].asked : deadline[c] \in {None, at + AnswerTtl}
      OBVIOUS
    <3>. QED
      BY <2>2, <3>3, <3>4, <3>5 DEF NoneOlder, CloseRuns, MoveTask
  <2>6. CASE \/ SaveBatch(r) \/ Report(r) \/ \E c \in Call : StartTool(r, c)
    BY <1>1, <2>2, <2>6
    DEF SaveBatch, SaveToolCalls, Report, CompleteToolCall, StartTool, StartToolCall
  <2>7. CASE \/ Load(r) \/ Register(r) \/ CallModel(r) \/ Correct(r) \/ GiveUp(r)
             \/ SaveRefused(r) \/ StartRefused(r) \/ SkipTool(r) \/ InvokeTool(r)
             \/ ToolReturns(r) \/ ToolAsks(r) \/ ReportOfUnknown(r) \/ ReportRefused(r)
             \/ ReportMalformed(r) \/ AskRefused(r) \/ NextTurn(r) \/ Stops(r)
             \/ StoreFails(r)
    <3>1. UNCHANGED vars
      BY <2>7
      DEF Load, Register, CallModel, Correct, GiveUp, SaveRefused, StartRefused, SkipTool,
          InvokeTool, ToolReturns, ToolAsks, ReportOfUnknown, ReportRefused,
          ReportMalformed, AskRefused, NextTurn, Stops, StoreFails, Refused
    <3>. QED
      BY <1>1, <2>2, <3>1
  <2>. QED
    BY <2>1, <2>3, <2>4, <2>5, <2>6, <2>7 DEF Proceed
<1>6. CASE \E r \in Run : Renew(r)
  <2>1. PICK r \in Run, at \in ProcessTime :
            /\ RenewTaskRunOwnership(TaskOf(r), r, owner, at)
            /\ UNCHANGED counts
    BY <1>6 DEF Renew
  <2>2. at + Lease > scanAt
    BY LeaseAssumption DEF ProcessTime
  <2>. QED
    BY <2>1, <2>2 DEF RenewTaskRunOwnership, NoneOlder, TypeOK
<1>7. CASE \E s \in Session : PrepareSessionDeletion(s)
  BY <1>3, <1>7 DEF PrepareSessionDeletion, BeginSessionDeletion
<1>8. CASE \E t \in Task : RequestCancel(t)
  BY <1>3, <1>8 DEF RequestCancel, CancelTask
<1>9. CASE \E t \in Task, s \in Session, k \in ClientRequest : RequestTask(t, s, k)
  <2>1. PICK t \in Task, at \in ProcessTime :
            /\ taskStatus' = [taskStatus EXCEPT ![t] = "created"]
            /\ createdAt' = [createdAt EXCEPT ![t] = at]
            /\ UNCHANGED <<runVars, reqVars>>
    BY <1>9 DEF RequestTask, CreateTaskWithUserMessage
  <2>2. at > scanAt - Grace
    BY GraceAssumption DEF ProcessTime
  <2>. QED
    BY <2>1, <2>2 DEF NoneOlder, TypeOK
<1>10. CASE \E t \in Task, r \in Run : StartTask(t, r)
  <2>1. PICK t \in Task, r \in Run, at \in ProcessTime :
            StartTaskRun(t, 0, r, owner, at) /\ UNCHANGED counts
    BY <1>10 DEF StartTask
  <2>. QED
    BY <1>4, <2>1 DEF StartTaskRun, MoveTask
<1>11. CASE \E t \in Task, c \in Call, a \in ClientAnswer, r \in Run : Answer(t, c, a, r)
  <2>1. PICK t \in Task, c \in Call, a \in ClientAnswer, r \in Run, at \in ProcessTime :
            AnswerUserInput(t, c, a, r, owner, at) /\ UNCHANGED counts
    BY <1>11 DEF Answer
  <2>2. /\ reqStatus' = [reqStatus EXCEPT ![c] = "answered"]
        /\ UNCHANGED <<reqExpiry, createdAt>>
    BY <2>1 DEF AnswerUserInput
  <2>3. \A d \in Call : reqStatus'[d] = "pending" => reqStatus[d] = "pending"
    BY <2>2 DEF TypeOK
  <2>4. CASE UNCHANGED <<taskVars, runVars>>
    BY <2>2, <2>3, <2>4 DEF NoneOlder
  <2>5. CASE InsertRunningRun(r, t, owner, at) /\ MoveTask(t, "running")
    BY <1>4, <2>2, <2>3, <2>5 DEF MoveTask
  <2>. QED
    BY <2>1, <2>4, <2>5 DEF AnswerUserInput
<1>12. CASE Scan
  <2>1. CASE \E c \in ExpiredRequests, at \in ProcessTime : ExpireUserInput(callTask[c], c, at)
    <3>1. PICK c \in Call, at \in ProcessTime : ExpireUserInput(callTask[c], c, at)
      BY <2>1 DEF ExpiredRequests
    <3>2. \A d \in Call : reqStatus'[d] = "pending" => reqStatus[d] = "pending"
      BY <3>1 DEF ExpireUserInput, TerminalizedRequests, TypeOK
    <3>3. \A t \in Task : taskStatus'[t] = "created" => taskStatus[t] = "created"
      BY <3>1 DEF ExpireUserInput, MoveTask
    <3> DEFINE R == {r \in {callRun[c]} : runStatus[r] = "paused"}
    <3>4. CloseRuns(R, "failed") /\ UNCHANGED reqExpiry
      BY <3>1 DEF ExpireUserInput
    <3> HIDE DEF R
    <3>. QED
      BY <1>2, <1>12, <3>2, <3>3, <3>4 DEF Scan
  <2>2. CASE \E t \in ForgottenTasks : ReconcileCreatedTask(t, taskVersion[t])
    BY <1>12, <2>2 DEF Scan, ReconcileCreatedTask, MoveTask, NoneOlder
  <2>3. CASE \E t \in LapsedTasks, at \in ProcessTime :
                ReconcileRunningTask(t, taskVersion[t], at)
    <3>1. PICK t, at : ReconcileRunningTask(t, taskVersion[t], at)
      BY <2>3
    <3>2. PICK r \in Run : CloseRuns({r}, "interrupted")
      BY <3>1 DEF ReconcileRunningTask
    <3>3. /\ \A d \in Call : reqStatus'[d] = "pending" => reqStatus[d] = "pending"
          /\ \A u \in Task : taskStatus'[u] = "created" => taskStatus[u] = "created"
          /\ UNCHANGED reqExpiry
      BY <3>1 DEF ReconcileRunningTask, TerminalizedRequests, MoveTask
    <3>. QED
      BY <1>2, <1>12, <3>2, <3>3 DEF Scan
  <2>. QED
    BY <1>12, <2>1, <2>2, <2>3 DEF Scan
<1>13. CASE \/ \E r \in Run : LoseOwnership(r)
            \/ \E o \in Owner : Boot(o)
            \/ ProcessEnds \/ Shutdown \/ ScanEnds \/ TimePasses \/ UNCHANGED allVars
            \/ \E s \in Session : OpenSession(s)
            \/ \E t \in Task : RepeatRequest(t) \/ StartTaskFails(t) \/ AbortExecution(t)
  <2>1. UNCHANGED <<runStatus, runExpiry, taskStatus, reqStatus, reqExpiry, createdAt>>
    BY <1>13
    DEF LoseOwnership, Boot, ProcessEnds, Shutdown, ScanEnds, TimePasses, Tick, OpenSession,
        CreateSession, RepeatRequest, StartTaskFails, AbortExecution
  <2>. QED
    BY <1>1, <2>1
<1>. QED
  BY <1>5, <1>6, <1>7, <1>8, <1>9, <1>10, <1>11, <1>12, <1>13
  DEF ProcessNext, Execution, Flow

(* Serving means scanned: what was overdue when the process started is     *)
(* closed before its first request, and nothing it adds later is as old.   *)
THEOREM ScansCloseLapsed == ProcessSpec => []ScanClosesLapsed
<1>1. ProcessInit => ScanClosesLapsed
  BY DEF ProcessInit, ScanClosesLapsed
<1>2. ASSUME ProcessInv, ScanClosesLapsed, [ProcessNext]_allVars PROVE ScanClosesLapsed'
  <2> USE DEF ProcessInv
  <2>1. CASE ScanEnds
    <3>1. \A r \in Run : runStatus[r] = "running" =>
              runTask[r] \in Task /\ taskStatus[runTask[r]] = "running" /\ runExpiry[r] \in Nat
      BY <1>2 DEF Inv, TypeOK, RowLinks, ExecutorInv
    <3>2. \A r \in Run : runStatus[r] = "running" => ~(runExpiry[r] <= scanAt)
      BY <1>2, <2>1, <3>1 DEF ScanEnds, LapsedTasks, ProcessTypes
    <3>3. \A t \in Task : taskStatus[t] = "created" => createdAt[t] > scanAt - Grace
      BY <1>2, <2>1, GraceAssumption DEF ScanEnds, ForgottenTasks, ProcessTypes
    <3>4. \A c \in Call : reqStatus[c] = "pending" /\ reqExpiry[c] # None
                                => ~(reqExpiry[c] <= scanAt) /\ reqExpiry[c] \in Nat
      BY <1>2, <2>1 DEF ScanEnds, ExpiredRequests, Inv, QuestionInv, TypeOK
    <3>. QED
      BY <1>2, <2>1, <3>1, <3>2, <3>3, <3>4 DEF ScanEnds, ScanClosesLapsed, ProcessTypes
  <2>2. CASE up' = "serving" /\ ~ScanEnds
    <3>1. up = "serving" /\ UNCHANGED scanAt
      BY <1>2, <2>2
      DEF ProcessNext, Execution, Flow, ProcessEnds, Shutdown, Boot, Scan, TimePasses
    <3>. QED
      BY <1>2, <3>1, OpenedLater DEF NoneOlder, ScanClosesLapsed
  <2>. QED
    BY <2>1, <2>2 DEF ScanClosesLapsed
<1>. QED
  BY <1>1, <1>2, ProcessInvariance, PTL DEF ProcessSpec

-----------------------------------------------------------------------------
(* Runs that are left running. *)

OpenCalls(t) == {c \in Call : callTask[c] = t /\ callStatus[c] \in ActiveCallStatus}

(* Every open call of the task is one the execution will still settle, or  *)
(* the execution is about to close the task.                               *)
Accounted(r) ==
    \A c \in OpenCalls(runTask[r]) :
        \/ exec[r].stage \in {"failing", "cancelling"}
        \/ exec[r].stage \in {"calling"} \cup HoldsCall /\ c \in exec[r].left \cup exec[r].asked
        \/ exec[r].stage \in HoldsCall /\ c = exec[r].current

(* No command of this execution but one under a lapsed lease is refused. *)
Working(r) ==
    /\ runOwner[r] = owner
    /\ exec[r].stage # "loading" => exec[r].seen = taskVersion[runTask[r]]
    /\ Accounted(r)

(* The model gave the run a call whose arguments do not parse. *)
Misreported(r) == \E c \in Malformed : callTask[c] # None /\ callRun[c] = r

LetGo(r) == At(r, "abandoned") \/ runExpiry[r] <= now \/ Misreported(r)

LoopInv ==
    \A r \in Run : runStatus[r] = "running" => IF Live(r) THEN Working(r) ELSE LetGo(r)

(* A task that waits has no call open but those that ask. *)
OnlyQuestionsWait ==
    \A c \in Call : callStatus[c] \in {"pending", "running"} =>
        taskStatus[callTask[c]] = "running"

LEMMA TimeGoesOn ==
    ASSUME TypeOK, [Next]_vars
    PROVE  now' >= now
<1> USE DEF TypeOK
<1>1. CASE SessionNext
  BY <1>1
  DEF SessionNext, CreateSession, BeginSessionDeletion, CancelLockedTasks,
      FinalizeDeletion, CreateTaskWithUserMessage
<1>2. CASE WorkerNext
  BY <1>2
  DEF WorkerNext, StartTaskRun, RenewTaskRunOwnership, FailTask, CompleteTask,
      ApplyActivePlan, SaveToolCalls, StartToolCall, CompleteToolCall, WaitForUserInput
<1>3. CASE ApiNext
  <2>1. PICK t \in Task :
        \/ CancelTask(t, taskVersion[t])
        \/ ReconcileCreatedTask(t, taskVersion[t])
        \/ \E at \in CallerTime : ReconcileRunningTask(t, taskVersion[t], at)
        \/ \E c \in Call, at \in CallerTime : ExpireUserInput(t, c, at)
        \/ \E c \in Call, at \in CallerTime, a \in ClientAnswer, r \in Run, o \in Owner :
              AnswerUserInput(t, c, a, r, o, at)
    BY <1>3 DEF ApiNext
  <2>2. ASSUME UNCHANGED now PROVE now' >= now
    BY <2>2
  <2>3. CASE CancelTask(t, taskVersion[t]) \/ ReconcileCreatedTask(t, taskVersion[t])
    BY <2>2, <2>3 DEF CancelTask, CancelLockedTasks, ReconcileCreatedTask
  <2>4. CASE \E at \in CallerTime : ReconcileRunningTask(t, taskVersion[t], at)
    BY <2>2, <2>4 DEF ReconcileRunningTask
  <2>5. CASE \E c \in Call, at \in CallerTime : ExpireUserInput(t, c, at)
    BY <2>2, <2>5 DEF ExpireUserInput
  <2>6. CASE \E c \in Call, at \in CallerTime, a \in ClientAnswer, r \in Run, o \in Owner :
              AnswerUserInput(t, c, a, r, o, at)
    BY <2>2, <2>6 DEF AnswerUserInput
  <2>. QED
    BY <2>1, <2>3, <2>4, <2>5, <2>6
<1>4. CASE Tick \/ UNCHANGED vars
  BY <1>4 DEF Tick
<1>. QED
  BY <1>1, <1>2, <1>3, <1>4 DEF Next

(* The version of a task whose run is running tells the number of that run.*)
LEMMA VersionOfRunning ==
    ASSUME Inv, RunningIsNewest, NEW r \in Run, runStatus[r] = "running"
    PROVE  taskVersion[runTask[r]] = 2 * runNo[r] - 1
<1> USE DEF Inv
<1>1. runTask[r] \in Task /\ taskStatus[runTask[r]] = "running"
  BY DEF TypeOK, RowLinks, ExecutorInv
<1>2. PICK q \in Run : runTask[q] = runTask[r] /\ 2 * runNo[q] = taskVersion[runTask[r]] + 1
  BY <1>1 DEF RunNumbers
<1>3. 2 * runNo[r] <= taskVersion[runTask[r]] + 1
  BY <1>1 DEF RunNumbers
<1>4. runNo[q] \in Nat /\ runNo[r] \in Nat /\ taskVersion[runTask[r]] \in Nat
  BY <1>1 DEF TypeOK
<1>5. q # r => runNo[q] < runNo[r]
  BY <1>2 DEF RunningIsNewest
<1>. QED
  BY <1>2, <1>3, <1>4, <1>5

VersionsOfRunning ==
    \A r \in Run : runStatus[r] = "running" => taskVersion[runTask[r]] = 2 * runNo[r] - 1

LEMMA RunningHasVersion == Inv /\ RunningIsNewest => VersionsOfRunning
  BY VersionOfRunning DEF VersionsOfRunning

LEMMA NextRunningHasVersion == Inv' /\ RunningIsNewest' => VersionsOfRunning'
  BY RunningHasVersion, PTL

(* A run comes to run when it is made, and its lease moves when its own    *)
(* execution renews it.                                                    *)
Begins(r) ==
    /\ runStatus[r] = "absent"
    /\ \E t \in Task : \/ StartTask(t, r)
                       \/ \E c \in Call, a \in ClientAnswer : Answer(t, c, a, r)

GoesOn(r) == runStatus[r] = "running" /\ (Renew(r) \/ runExpiry'[r] = runExpiry[r])

RunsBegin == \A r \in Run : runStatus'[r] = "running" => Begins(r) \/ GoesOn(r)

LEMMA RunsBeginOrGoOn ==
    ASSUME ProcessInv, [ProcessNext]_allVars
    PROVE  RunsBegin
<1> USE DEF ProcessInv, ProcessTypes, Inv
<1>1. ASSUME UNCHANGED <<runStatus, runExpiry>>
      PROVE  RunsBegin
  BY <1>1 DEF RunsBegin, GoesOn
<1>2. ASSUME NEW R, NEW status \in RunStatus \ {"running"}, CloseRuns(R, status)
      PROVE  RunsBegin
  BY <1>2 DEF RunsBegin, GoesOn, CloseRuns
<1>3. ASSUME NEW T \in SUBSET Task, CancelLockedTasks(T)
      PROVE  RunsBegin
  BY <1>2, <1>3 DEF CancelLockedTasks
<1>4. ASSUME NEW t, NEW q \in Run, NEW o, NEW at, InsertRunningRun(q, t, o, at), Begins(q)
      PROVE  RunsBegin
  BY <1>4 DEF InsertRunningRun, TypeOK, RunsBegin, GoesOn
<1>5. ASSUME NEW q \in Run, Proceed(q)
      PROVE  RunsBegin
  <2>1. CASE FinalAnswer(q) \/ Fail(q) \/ Ask(q)
    <3>1. UNCHANGED vars \/ \E status \in RunStatus \ {"running"} : CloseRuns({q}, status)
      BY <2>1 DEF FinalAnswer, Fail, Ask, CompleteTask, FailTask, WaitForUserInput
    <3>. QED
      BY <1>1, <1>2, <3>1
  <2>2. CASE Cancel(q)
    <3>1. TaskOf(q) \in Task
      BY <2>2, FencedSender DEF Cancel, At, Live
    <3>. QED
      BY <1>1, <1>3, <2>2, <3>1 DEF Cancel, CancelTask
  <2>3. CASE \/ Load(q) \/ Register(q) \/ CallModel(q) \/ Correct(q) \/ GiveUp(q)
             \/ SaveRefused(q) \/ StartRefused(q) \/ SkipTool(q) \/ InvokeTool(q)
             \/ ToolReturns(q) \/ ToolAsks(q) \/ ReportOfUnknown(q) \/ ReportRefused(q)
             \/ ReportMalformed(q) \/ AskRefused(q) \/ NextTurn(q) \/ Stops(q)
             \/ StoreFails(q)
             \/ SaveBatch(q) \/ Report(q) \/ \E c \in Call : StartTool(q, c)
    <3>1. UNCHANGED <<runStatus, runExpiry>>
      BY <2>3
      DEF Load, Register, CallModel, Correct, GiveUp, SaveRefused, StartRefused, SkipTool,
          InvokeTool, ToolReturns, ToolAsks, ReportOfUnknown, ReportRefused,
          ReportMalformed, AskRefused, NextTurn, Stops, StoreFails, Refused,
          SaveBatch, SaveToolCalls, Report, CompleteToolCall, StartTool, StartToolCall
    <3>. QED
      BY <1>1, <3>1
  <2>. QED
    BY <1>5, <2>1, <2>2, <2>3 DEF Proceed
<1>6. CASE \E q \in Run : Renew(q)
  <2>1. PICK q \in Run, at \in ProcessTime :
            Renew(q) /\ RenewTaskRunOwnership(TaskOf(q), q, owner, at)
    BY <1>6 DEF Renew
  <2>2. UNCHANGED runStatus /\ \A p \in Run \ {q} : runExpiry'[p] = runExpiry[p]
    BY <2>1 DEF RenewTaskRunOwnership, TypeOK
  <2>. QED
    BY <2>1, <2>2 DEF RunsBegin, GoesOn
<1>7. CASE \E s \in Session : PrepareSessionDeletion(s)
  BY <1>3, <1>7 DEF PrepareSessionDeletion, BeginSessionDeletion
<1>8. CASE \E t \in Task : RequestCancel(t)
  BY <1>3, <1>8 DEF RequestCancel, CancelTask
<1>9. CASE \E t \in Task, q \in Run : StartTask(t, q)
  <2>1. PICK t \in Task, q \in Run : StartTask(t, q)
    BY <1>9
  <2>2. PICK at \in ProcessTime : InsertRunningRun(q, t, owner, at)
    BY <2>1 DEF StartTask, StartTaskRun
  <2>3. Begins(q)
    BY <2>1, <2>2 DEF Begins, InsertRunningRun
  <2>. QED
    BY <1>4, <2>2, <2>3
<1>10. CASE \E t \in Task, c \in Call, a \in ClientAnswer, q \in Run : Answer(t, c, a, q)
  <2>1. PICK t \in Task, c \in Call, a \in ClientAnswer, q \in Run : Answer(t, c, a, q)
    BY <1>10
  <2>2. PICK at \in ProcessTime : UNCHANGED runVars \/ InsertRunningRun(q, t, owner, at)
    BY <2>1 DEF Answer, AnswerUserInput
  <2>3. CASE InsertRunningRun(q, t, owner, at)
    <3>1. Begins(q)
      BY <2>1, <2>3 DEF Begins, InsertRunningRun
    <3>. QED
      BY <1>4, <2>3, <3>1
  <2>. QED
    BY <1>1, <2>2, <2>3
<1>11. CASE Scan
  <2>1. \/ UNCHANGED <<runStatus, runExpiry>>
        \/ \E R : CloseRuns(R, "failed") \/ CloseRuns(R, "interrupted")
    BY <1>11 DEF Scan, ExpireUserInput, ReconcileCreatedTask, ReconcileRunningTask
  <2>. QED
    BY <1>1, <1>2, <2>1
<1>12. CASE \/ \E q \in Run : LoseOwnership(q)
            \/ \E o \in Owner : Boot(o)
            \/ ProcessEnds \/ Shutdown \/ ScanEnds \/ TimePasses \/ UNCHANGED allVars
            \/ \E s \in Session : OpenSession(s)
            \/ \E t \in Task, s \in Session, k \in ClientRequest : RequestTask(t, s, k)
            \/ \E t \in Task : RepeatRequest(t) \/ StartTaskFails(t) \/ AbortExecution(t)
  <2>1. UNCHANGED <<runStatus, runExpiry>>
    BY <1>12
    DEF LoseOwnership, Boot, ProcessEnds, Shutdown, ScanEnds, TimePasses, Tick, OpenSession,
        CreateSession, RequestTask, CreateTaskWithUserMessage, RepeatRequest,
        StartTaskFails, AbortExecution
  <2>. QED
    BY <1>1, <2>1
<1>. QED
  BY <1>5, <1>6, <1>7, <1>8, <1>9, <1>10, <1>11, <1>12 DEF ProcessNext, Execution, Flow

(* Only SaveBatch opens calls, for the task of its run. *)
LEMMA OpenedBySaving ==
    ASSUME ProcessInv, Undisturbed, [ProcessNext]_allVars,
           NEW c \in Call, callStatus'[c] \in ActiveCallStatus
    PROVE  \/ callStatus[c] \in ActiveCallStatus /\ callTask'[c] = callTask[c]
           \/ \E r \in Run : SaveBatch(r) /\ callTask'[c] = runTask[r]
<1> USE DEF ProcessInv, Inv
<1>1. CASE callStatus[c] \in ActiveCallStatus
  BY <1>1 DEF Undisturbed, LinksStay, RowLinks
<1>2. CASE callStatus[c] \in SettledCallStatus
  <2>1. CallsStep \/ UNCHANGED vars
    BY ProcessStepIsCommand, NextIsFinal
  <2>. QED
    BY <1>2, <2>1 DEF CallsStep, CallStep, CallMoves
<1>3. CASE callStatus[c] = "absent"
  <2>1. ASSUME NEW r \in Run, Ask(r) PROVE callStatus'[c] = "absent"
    BY <1>3, <2>1 DEF Ask, WaitForUserInput
  <2>2. ASSUME NEW r \in Run, SaveBatch(r) PROVE callTask'[c] = runTask[r]
    BY <1>3, <2>2 DEF SaveBatch, SaveToolCalls, TaskOf
  <2>. QED
    BY <1>3, <2>1, <2>2, OthersOpenNothing DEF OpensNothing
<1>. QED
  BY <1>1, <1>2, <1>3 DEF TypeOK

(* A task whose run begins has no open call. *)
LEMMA BegunRunsWork ==
    ASSUME ProcessInv, OnlyQuestionsWait, RowsStay, NEW r \in Run, Begins(r),
           runStatus'[r] = "running", [ProcessNext]_allVars
    PROVE  IF Live(r)' THEN Working(r)' ELSE LetGo(r)'
<1> USE DEF ProcessInv, ProcessTypes, Inv
<1>1. PICK t \in Task : \/ StartTask(t, r)
                        \/ \E c \in Call, a \in ClientAnswer : Answer(t, c, a, r)
  BY DEF Begins
<1>2. runStatus[r] = "absent"
  BY DEF Begins
<1>3. PICK at \in ProcessTime : InsertRunningRun(r, t, owner, at)
  BY <1>1, <1>2 DEF StartTask, StartTaskRun, Answer, AnswerUserInput
<1>4. /\ runTask'[r] = t /\ runOwner'[r] = owner
      /\ \/ exec'[r] = [Idle EXCEPT !.stage = "loading"]
         \/ exec'[r] = [Idle EXCEPT !.stage = "abandoned"]
  BY <1>1, <1>2, <1>3
  DEF InsertRunningRun, StartTask, Answer, DispatchedStage, Leave, TypeOK
<1>5. UNCHANGED owner
  BY <1>2
  DEF ProcessNext, Execution, Flow, ProcessEnds, Shutdown, Boot, Scan, ScanEnds, TimePasses
<1>6. OpenCalls(t)' = {}
  <2>1. CASE StartTask(t, r)
    <3>1. taskStatus[t] = "created" /\ UNCHANGED callVars
      BY <2>1 DEF StartTask, StartTaskRun
    <3>. QED
      BY <3>1, NoneAssumption DEF RowLinks, OpenCalls
  <2>2. CASE \E c \in Call, a \in ClientAnswer : Answer(t, c, a, r)
    <3>1. PICK c \in Call, a \in ClientAnswer, at1 \in ProcessTime :
              AnswerUserInput(t, c, a, r, owner, at1)
      BY <2>2 DEF Answer
    <3>2. LastQuestion(t, c) /\ taskStatus[t] = "waiting_for_user"
      BY <1>2, <3>1, <1>3 DEF AnswerUserInput, InsertRunningRun, TypeOK
    <3>3. callStatus' = [callStatus EXCEPT ![c] = "completed"] /\ UNCHANGED callTask
      BY <3>1 DEF AnswerUserInput
    <3>4. \A d \in Call : callTask[d] = t /\ callStatus[d] \in ActiveCallStatus => d = c
      BY <3>2 DEF LastQuestion, PendingRequests, OnlyQuestionsWait, QuestionInv
    <3>. QED
      BY <3>3, <3>4 DEF OpenCalls, TypeOK
  <2>. QED
    BY <1>1, <2>1, <2>2
<1>. QED
  BY <1>4, <1>5, <1>6 DEF Working, Accounted, LetGo, Live, At, Idle

(* What keeps a run running keeps the version of its task. *)
LEMMA RunningKeepsVersion ==
    ASSUME ProcessInv, ProcessInv', RunningIsNewest, Undisturbed, RowsStay,
           NEW r \in Run, runStatus[r] = "running", runStatus'[r] = "running"
    PROVE  /\ runTask[r] \in Task /\ taskStatus[runTask[r]] = "running"
           /\ runTask'[r] = runTask[r] /\ runOwner'[r] = runOwner[r]
           /\ taskVersion'[runTask'[r]] = taskVersion[runTask[r]]
<1>1. runTask[r] \in Task /\ taskStatus[runTask[r]] = "running"
  BY DEF ProcessInv, Inv, TypeOK, RowLinks, ExecutorInv
<1>2. runTask'[r] = runTask[r] /\ runOwner'[r] = runOwner[r] /\ runNo'[r] = runNo[r]
  BY <1>1, NoneAssumption DEF RowsStay, Undisturbed, LinksStay
<1>3. taskVersion[runTask[r]] = 2 * runNo[r] - 1
  BY RunningHasVersion DEF ProcessInv, VersionsOfRunning
<1>4. taskVersion'[runTask'[r]] = 2 * runNo'[r] - 1
  BY NextRunningHasVersion DEF ProcessInv, Undisturbed, VersionsOfRunning
<1>. QED
  BY <1>1, <1>2, <1>3, <1>4

(* An execution that some other step leaves as it is. *)
LEMMA RestingGoesOn ==
    ASSUME ProcessInv, ProcessInv', RunningIsNewest, LoopInv, Undisturbed,
           [ProcessNext]_allVars,
           NEW r \in Run, runStatus[r] = "running", runStatus'[r] = "running",
           Resting(r), ~Proceed(r)
    PROVE  IF Live(r)' THEN Working(r)' ELSE LetGo(r)'
<1> USE DEF ProcessInv, ProcessTypes
<1>1. RowsStay /\ now' >= now /\ now \in Nat /\ now' \in Nat
  BY ProcessStepIsCommand, NextKeepsRows, TimeGoesOn DEF Inv, TypeOK
<1>2. /\ runTask[r] \in Task /\ taskStatus[runTask[r]] = "running"
      /\ runTask'[r] = runTask[r] /\ runOwner'[r] = runOwner[r]
      /\ taskVersion'[runTask'[r]] = taskVersion[runTask[r]]
  BY <1>1, RunningKeepsVersion
<1>3. CASE exec'[r] = [Idle EXCEPT !.stage = "abandoned"]
  BY <1>3 DEF LetGo, Live, At, Idle
<1>4. CASE /\ exec'[r].stage = exec[r].stage /\ exec'[r].seen = exec[r].seen
           /\ exec'[r].left = exec[r].left /\ exec'[r].asked = exec[r].asked
           /\ exec'[r].current = exec[r].current
  <2>1. CASE Live(r)
    <3>1. Working(r)
      BY <2>1 DEF LoopInv
    <3>2. owner' = owner
      BY <2>1
      DEF SenderInv, ProcessNext, Execution, Flow, ProcessEnds, Shutdown, Boot, Scan,
          ScanEnds, TimePasses
    <3>3. ASSUME NEW q \in Run, SaveBatch(q)
          PROVE  runTask[q] # runTask[r]
      <4>1. q # r
        BY <3>3 DEF Proceed
      <4>2. runStatus[q] = "running"
        BY <3>3 DEF SaveBatch, SaveToolCalls, OwnsRun
      <4>. QED
        BY <4>1, <4>2 DEF Inv, ExecutorInv
    <3>4. \A c \in Call : callTask'[c] = runTask[r] /\ callStatus'[c] \in ActiveCallStatus =>
              c \in OpenCalls(runTask[r])
      BY <1>2, <3>3, OpenedBySaving DEF OpenCalls
    <3>. QED
      BY <1>2, <1>4, <2>1, <3>1, <3>2, <3>4 DEF Working, Accounted, OpenCalls, Live
  <2>2. CASE ~Live(r)
    <3>1. LetGo(r)
      BY <2>2 DEF LoopInv
    <3>2. runExpiry'[r] = runExpiry[r] /\ runExpiry[r] \in Nat
      BY <2>2, RunsBeginOrGoOn
      DEF RunsBegin, Begins, GoesOn, Renew, Registered, Live, Inv, TypeOK, RowLinks
    <3>3. Misreported(r) => Misreported(r)'
      BY MalformedAssumption DEF Misreported, Undisturbed, LinksStay
    <3>4. runExpiry[r] <= now => runExpiry'[r] <= now'
      BY <1>1, <3>2
    <3>5. LetGo(r)'
      BY <1>4, <3>1, <3>3, <3>4 DEF LetGo, At
    <3>. QED
      BY <1>4, <2>2, <3>5 DEF Live
  <2>. QED
    BY <2>1, <2>2
<1>. QED
  BY <1>3, <1>4 DEF Resting

(* A refusal means that the lease has lapsed. *)
LEMMA RefusedIsLapsed ==
    ASSUME ProcessInv, NEW r \in Run, runStatus[r] = "running", Working(r),
           NEW at \in ProcessTime, ~OwnsRun(TaskOf(r), r, owner, at) \/ ~Fenced(r, at)
    PROVE  runExpiry[r] <= now
<1>1. runTask[r] \in Task /\ taskStatus[runTask[r]] = "running" /\ runExpiry[r] \in Nat
  BY DEF ProcessInv, Inv, TypeOK, RowLinks, ExecutorInv
<1>2. TaskLocked(TaskOf(r))
  BY <1>1 DEF ProcessInv, Inv, SessionInv, ArchivedSessionIsQuiet, TaskLocked, SessionActive,
              TaskOf
<1>3. ~(runExpiry[r] > at)
  BY <1>1, <1>2 DEF Fenced, OwnsRun, Working, TaskOf
<1>. QED
  BY <1>1, <1>3 DEF ProcessTime, ProcessInv, ProcessTypes, Inv, TypeOK

(* How the execution of a run that stays running proceeds. *)
LEMMA ProceedGoesOn ==
    ASSUME ProcessInv, ProcessInv', RunningIsNewest, OwnCalls, LoopInv, Undisturbed,
           [ProcessNext]_allVars,
           NEW r \in Run, runStatus[r] = "running", runStatus'[r] = "running", Proceed(r)
    PROVE  IF Live(r)' THEN Working(r)' ELSE LetGo(r)'
<1> USE DEF ProcessInv, ProcessTypes
<1>1. RowsStay /\ Live(r)
  BY ProcessStepIsCommand, NextKeepsRows, ProceedMoves DEF Moves
<1>2. UNCHANGED owner
  BY <1>1
  DEF SenderInv, ProcessNext, Execution, Flow, ProcessEnds, Shutdown, Boot, Scan, ScanEnds,
      TimePasses
<1>3. /\ runTask[r] \in Task /\ taskStatus[runTask[r]] = "running"
      /\ runTask'[r] = runTask[r] /\ runOwner'[r] = runOwner[r]
      /\ taskVersion'[runTask'[r]] = taskVersion[runTask[r]]
  BY <1>1, RunningKeepsVersion
<1>4. Working(r)
  BY <1>1 DEF LoopInv
<1>5. TaskLocked(TaskOf(r))
  BY <1>3 DEF Inv, SessionInv, ArchivedSessionIsQuiet, TaskLocked, SessionActive, TaskOf
<1>6. ASSUME exec'[r].stage = "abandoned"
      PROVE  LetGo(r)' /\ ~Live(r)'
  BY <1>6 DEF LetGo, At, Live
<1>7. ASSUME exec'[r].stage = "ended", UNCHANGED vars, runExpiry[r] <= now \/ Misreported(r)
      PROVE  LetGo(r)' /\ ~Live(r)'
  BY <1>7 DEF LetGo, Misreported, Live
<1>8. ASSUME Live(r)', exec'[r].seen = taskVersion[runTask[r]],
             \A c \in Call : callTask'[c] = runTask[r] /\ callStatus'[c] \in ActiveCallStatus =>
                 \/ exec'[r].stage \in {"failing", "cancelling"}
                 \/ /\ exec'[r].stage \in {"calling"} \cup HoldsCall
                    /\ c \in exec'[r].left \cup exec'[r].asked
                 \/ exec'[r].stage \in HoldsCall /\ c = exec'[r].current
      PROVE  Working(r)'
  BY <1>2, <1>3, <1>4, <1>8 DEF Working, Accounted, OpenCalls
<1>9. ASSUME NEW stage \in LiveStage, Enter(r, stage), ~At(r, "loading"), UNCHANGED vars,
             \/ stage \in {"failing", "cancelling"}
             \/ exec[r].stage \in {"loaded", "thinking", "modelling"}
             \/ exec[r].stage \in HoldsCall /\ stage \in HoldsCall
             \/ At(r, "calling") /\ exec[r].left = {} /\ exec[r].asked = {}
      PROVE  Live(r)' /\ Working(r)'
  <2>1. /\ exec'[r].stage = stage /\ exec'[r].seen = exec[r].seen
        /\ exec'[r].left = exec[r].left /\ exec'[r].asked = exec[r].asked
        /\ exec'[r].current = exec[r].current
    BY <1>9 DEF Enter
  <2>2. Live(r)' /\ exec'[r].seen = taskVersion[runTask[r]]
    BY <1>4, <1>9, <2>1 DEF Working, At, Live
  <2>3. ASSUME NEW c \in OpenCalls(runTask[r])
        PROVE  \/ exec'[r].stage \in {"failing", "cancelling"}
               \/ /\ exec'[r].stage \in {"calling"} \cup HoldsCall
                  /\ c \in exec'[r].left \cup exec'[r].asked
               \/ exec'[r].stage \in HoldsCall /\ c = exec'[r].current
    <3>1. \/ exec[r].stage \in {"failing", "cancelling"}
          \/ exec[r].stage \in {"calling"} \cup HoldsCall /\ c \in exec[r].left \cup exec[r].asked
          \/ exec[r].stage \in HoldsCall /\ c = exec[r].current
      BY <1>4 DEF Working, Accounted
    <3>. QED
      BY <1>9, <2>1, <3>1 DEF At, HoldsCall
  <2>. QED
    BY <1>8, <1>9, <2>2, <2>3 DEF OpenCalls
<1>10. CASE \/ Register(r) \/ CallModel(r) \/ Correct(r) \/ GiveUp(r) \/ SkipTool(r)
            \/ InvokeTool(r) \/ ToolReturns(r) \/ ReportOfUnknown(r) \/ NextTurn(r)
            \/ Stops(r)
  <2>1. UNCHANGED vars /\ ~At(r, "loading")
    BY <1>10
    DEF Register, CallModel, Correct, GiveUp, SkipTool, InvokeTool, ToolReturns,
        ReportOfUnknown, NextTurn, Stops, At
  <2>2. \/ Leave(r, "abandoned")
        \/ \E stage \in LiveStage : Enter(r, stage) /\
             \/ stage \in {"failing", "cancelling"}
             \/ exec[r].stage \in {"loaded", "thinking", "modelling"}
             \/ exec[r].stage \in HoldsCall /\ stage \in HoldsCall
             \/ At(r, "calling") /\ exec[r].left = {} /\ exec[r].asked = {}
    BY <1>10
    DEF Register, CallModel, Correct, GiveUp, AfterLoopFailure, SkipTool, InvokeTool,
        ToolReturns, AfterTool, ReportOfUnknown, NextTurn, Stops, At, HoldsCall
  <2>3. Leave(r, "abandoned") => exec'[r].stage = "abandoned"
    BY DEF Leave, Idle
  <2>. QED
    BY <1>6, <1>9, <2>1, <2>2, <2>3
<1>11. CASE Load(r)
  <2>1. PICK at \in ProcessTime :
            IF OwnsRun(TaskOf(r), r, owner, at)
            THEN exec' = [exec EXCEPT ![r].stage = "loaded", ![r].seen = taskVersion[TaskOf(r)]]
            ELSE Leave(r, "ended")
    BY <1>11 DEF Load
  <2>2. UNCHANGED vars /\ At(r, "loading")
    BY <1>11 DEF Load
  <2>3. CASE OwnsRun(TaskOf(r), r, owner, at)
    <3>1. exec'[r].stage = "loaded" /\ exec'[r].seen = taskVersion[runTask[r]]
      BY <2>1, <2>3 DEF TaskOf
    <3>2. OpenCalls(runTask[r]) = {}
      BY <1>4, <2>2 DEF Working, Accounted, At, HoldsCall
    <3>. QED
      BY <1>8, <2>2, <3>1, <3>2 DEF OpenCalls, Live
  <2>4. CASE ~OwnsRun(TaskOf(r), r, owner, at)
    <3>1. exec'[r].stage = "ended"
      BY <2>1, <2>4 DEF Leave, Idle
    <3>. QED
      BY <1>4, <1>7, <2>2, <2>4, <3>1, RefusedIsLapsed
  <2>. QED
    BY <2>3, <2>4
<1>12. CASE SaveRefused(r) \/ StartRefused(r) \/ ReportRefused(r) \/ AskRefused(r)
  <2>1. PICK at \in ProcessTime : ~Fenced(r, at) /\ Refused(r)
    BY <1>12 DEF SaveRefused, StartRefused, ReportRefused, AskRefused
  <2>2. exec'[r].stage = "ended" /\ UNCHANGED vars
    BY <2>1 DEF Refused, Leave, Idle
  <2>. QED
    BY <1>4, <1>7, <2>1, <2>2, RefusedIsLapsed
<1>13. CASE ReportMalformed(r)
  <2>1. PICK c \in exec[r].left \cap Malformed : Refused(r)
    BY <1>13 DEF ReportMalformed
  <2>2. callRun[c] = r /\ callTask[c] # None
    BY <1>1, <1>3, NoneAssumption DEF OwnCalls
  <2>3. exec'[r].stage = "ended" /\ UNCHANGED vars
    BY <2>1 DEF Refused, Leave, Idle
  <2>. QED
    BY <1>7, <2>2, <2>3 DEF Misreported
<1>14. CASE StoreFails(r)
  BY <1>6, <1>14 DEF StoreFails, Leave, Idle
<1>15. CASE FinalAnswer(r)
  <2>1. PICK at \in ProcessTime :
            IF Fenced(r, at) /\ NoActiveChildren(TaskOf(r))
            THEN CompleteTask(TaskOf(r), r, owner, at) /\ LastCommand(r)
            ELSE Leave(r, "ended") /\ UNCHANGED vars
    BY <1>15 DEF FinalAnswer
  <2>2. ~CompleteTask(TaskOf(r), r, owner, at)
    BY DEF CompleteTask, CloseRuns
  <2>3. NoActiveChildren(TaskOf(r))
    <3>1. OpenCalls(runTask[r]) = {}
      BY <1>4, <1>15 DEF Working, Accounted, FinalAnswer, At, HoldsCall
    <3>. QED
      BY <3>1 DEF OpenCalls, NoActiveChildren, TaskOf, Inv, QuestionInv
  <2>4. ~Fenced(r, at) /\ exec'[r].stage = "ended" /\ UNCHANGED vars
    BY <2>1, <2>2, <2>3 DEF Leave, Idle
  <2>. QED
    BY <1>4, <1>7, <2>4, RefusedIsLapsed
<1>16. CASE Fail(r)
  <2>1. PICK at \in ProcessTime :
            IF Fenced(r, at) /\ taskVersion[TaskOf(r)] = exec[r].seen
            THEN FailTask(TaskOf(r), exec[r].seen, r, owner, at) /\ LastCommand(r)
            ELSE Leave(r, "ended") /\ UNCHANGED vars
    BY <1>16 DEF Fail
  <2>2. ~FailTask(TaskOf(r), exec[r].seen, r, owner, at)
    BY DEF FailTask, CloseRuns
  <2>3. taskVersion[TaskOf(r)] = exec[r].seen
    BY <1>4, <1>16 DEF Working, Fail, At, TaskOf
  <2>4. ~Fenced(r, at) /\ exec'[r].stage = "ended" /\ UNCHANGED vars
    BY <2>1, <2>2, <2>3 DEF Leave, Idle
  <2>. QED
    BY <1>4, <1>7, <2>4, RefusedIsLapsed
<1>17. CASE Cancel(r)
  <2>1. CloseRuns(OpenRuns(Cancellable({TaskOf(r)})), "cancelled")
    BY <1>5, <1>17 DEF Cancel, CancelTask, CancelLockedTasks
  <2>2. r \in OpenRuns(Cancellable({TaskOf(r)}))
    BY <1>3 DEF OpenRuns, Cancellable, TaskOf
  <2>. QED
    BY <2>1, <2>2 DEF CloseRuns
<1>18. CASE Ask(r)
  BY <1>18 DEF Ask, WaitForUserInput, CloseRuns
<1>19. CASE SaveBatch(r)
  <2>1. PICK C \in Batches :
            /\ callStatus' = [c \in Call |-> IF c \in C THEN "pending" ELSE callStatus[c]]
            /\ callTask' = [c \in Call |-> IF c \in C THEN TaskOf(r) ELSE callTask[c]]
            /\ \/ exec' = [exec EXCEPT ![r].stage = "calling", ![r].left = C]
               \/ Leave(r, "abandoned")
    BY <1>19 DEF SaveBatch, SaveToolCalls
  <2>2. CASE Leave(r, "abandoned")
    BY <1>6, <2>2 DEF Leave, Idle
  <2>3. CASE exec' = [exec EXCEPT ![r].stage = "calling", ![r].left = C]
    <3>1. /\ exec'[r].stage = "calling" /\ exec'[r].left = C /\ exec'[r].seen = exec[r].seen
          /\ exec[r].stage = "modelling"
      BY <1>19, <2>3 DEF SaveBatch, At
    <3>2. OpenCalls(runTask[r]) = {}
      BY <1>4, <3>1 DEF Working, Accounted, HoldsCall
    <3>3. \A c \in Call : callTask'[c] = runTask[r] /\ callStatus'[c] \in ActiveCallStatus =>
              c \in C
      BY <2>1, <3>2 DEF OpenCalls
    <3>. QED
      BY <1>4, <1>8, <3>1, <3>3 DEF Working, Live
  <2>. QED
    BY <2>1, <2>2, <2>3
<1>20. CASE \E c \in Call : StartTool(r, c)
  <2>1. PICK c \in exec[r].left, next \in {"started", "failing"} :
            exec' = [exec EXCEPT ![r].stage = next, ![r].current = c, ![r].left = @ \ {c}]
    BY <1>20 DEF StartTool, AfterLostStart
  <2>2. /\ exec'[r].stage = next /\ exec'[r].current = c /\ exec'[r].left = exec[r].left \ {c}
        /\ exec'[r].seen = exec[r].seen /\ exec'[r].asked = exec[r].asked
        /\ exec[r].stage = "calling"
    BY <1>20, <2>1 DEF StartTool, At
  <2>3. \A d \in Call : /\ callTask'[d] = callTask[d]
                        /\ callStatus'[d] \in ActiveCallStatus => callStatus[d] \in ActiveCallStatus
    BY <1>20 DEF StartTool, StartToolCall, Inv, TypeOK
  <2>4. \A d \in OpenCalls(runTask[r]) : d \in exec[r].left \cup exec[r].asked
    BY <1>4, <2>2 DEF Working, Accounted, HoldsCall
  <2>. QED
    BY <1>4, <1>8, <2>2, <2>3, <2>4 DEF Working, OpenCalls, HoldsCall, Live
<1>21. CASE ToolAsks(r)
  <2>1. /\ exec'[r].stage = "calling" /\ exec'[r].left = exec[r].left
        /\ exec'[r].asked = exec[r].asked \cup {exec[r].current}
        /\ exec'[r].seen = exec[r].seen /\ exec[r].stage = "invoking" /\ UNCHANGED vars
    BY <1>21 DEF ToolAsks, At
  <2>2. \A d \in OpenCalls(runTask[r]) :
            d \in exec[r].left \cup exec[r].asked \/ d = exec[r].current
    BY <1>4, <2>1 DEF Working, Accounted, HoldsCall
  <2>. QED
    BY <1>4, <1>8, <2>1, <2>2 DEF Working, OpenCalls, Live
<1>22. CASE Report(r)
  <2>1. PICK outcome \in Outcome :
            /\ callStatus' = [callStatus EXCEPT
                    ![exec[r].current] = SettledStatus(exec[r].current, outcome)]
            /\ UNCHANGED callTask
    BY <1>22 DEF Report, Outcomes, Outcome, CompleteToolCall
  <2>2. exec[r].current \in Call /\ exec[r].stage = "reporting"
    BY <1>22 DEF Report, At, SenderInv
  <2>3. callStatus'[exec[r].current] \in SettledCallStatus
    BY <2>1, <2>2 DEF SettledStatus, Inv, TypeOK
  <2>4. \A d \in OpenCalls(runTask[r]) :
            d \in exec[r].left \cup exec[r].asked \/ d = exec[r].current
    BY <1>4, <2>2 DEF Working, Accounted, HoldsCall
  <2>5. \A d \in Call : callTask'[d] = runTask[r] /\ callStatus'[d] \in ActiveCallStatus =>
            d \in exec[r].left \cup exec[r].asked
    BY <2>1, <2>3, <2>4 DEF OpenCalls, Inv, TypeOK
  <2>6. CASE Leave(r, "abandoned")
    BY <1>6, <2>6 DEF Leave, Idle
  <2>7. CASE ~Leave(r, "abandoned")
    <3>1. \E stage \in {"failing", "calling"} :
              exec' = [exec EXCEPT ![r].current = None, ![r].stage = stage]
      BY <1>22, <2>7 DEF Report, AfterLoopFailure
    <3>2. /\ exec'[r].stage \in {"failing", "calling"}
          /\ exec'[r].left = exec[r].left /\ exec'[r].asked = exec[r].asked
          /\ exec'[r].seen = exec[r].seen
      BY <3>1
    <3>. QED
      BY <1>4, <1>8, <2>2, <2>5, <3>2 DEF Working, Live
  <2>. QED
    BY <2>6, <2>7
<1>. QED
  BY <1>10, <1>11, <1>12, <1>13, <1>14, <1>15, <1>16, <1>17, <1>18, <1>19, <1>20, <1>21,
     <1>22
  DEF Proceed

(* A task comes to wait when all its open calls ask. *)
LEMMA WaitingStep ==
    ASSUME ProcessInv, ProcessInv', LoopInv, OnlyQuestionsWait, Undisturbed,
           [ProcessNext]_allVars
    PROVE  OnlyQuestionsWait'
<1> USE DEF ProcessInv
<1>1. SUFFICES ASSUME NEW c \in Call, callStatus'[c] \in {"pending", "running"}
               PROVE  taskStatus'[callTask'[c]] = "running"
  BY DEF OnlyQuestionsWait
<1>2. CASE \E r \in Run : SaveBatch(r) /\ callTask'[c] = runTask[r]
  BY <1>2 DEF SaveBatch, SaveToolCalls, OwnsRun, TaskOf
<1>3. CASE callStatus[c] \in ActiveCallStatus /\ callTask'[c] = callTask[c]
  <2>1. CallsStep \/ UNCHANGED vars
    BY ProcessStepIsCommand, NextIsFinal
  <2>2. callStatus[c] \in {"pending", "running"}
    BY <1>1, <1>3, <2>1 DEF CallsStep, CallStep, CallMoves
  <2>3. callTask[c] \in Task /\ taskStatus[callTask[c]] = "running"
    BY <2>2 DEF OnlyQuestionsWait, Inv, TypeOK, RowLinks
  <2>4. taskStatus'[callTask[c]] \in {"running", "waiting_for_user"}
    BY <1>1, <1>3 DEF Inv, ChildInv
  <2>5. ASSUME NEW r \in Run, Ask(r)
        PROVE  taskStatus'[callTask[c]] # "waiting_for_user"
    <3>1. PICK at \in ProcessTime : \E deadline \in [exec[r].asked -> {None, at + AnswerTtl}] :
              WaitForUserInput(TaskOf(r), r, owner, at, exec[r].asked, deadline)
      BY <2>5 DEF Ask
    <3>2. /\ runStatus[r] = "running" /\ MoveTask(runTask[r], "waiting_for_user")
          /\ callStatus' = [d \in Call |-> IF d \in exec[r].asked THEN "waiting_for_user"
                                           ELSE callStatus[d]]
      BY <3>1 DEF WaitForUserInput, OwnsRun, TaskOf
    <3>3. At(r, "calling") /\ exec[r].left = {}
      BY <2>5 DEF Ask
    <3>4. \A d \in OpenCalls(runTask[r]) : d \in exec[r].asked
      BY <3>2, <3>3 DEF LoopInv, Live, At, Working, Accounted, HoldsCall
    <3>5. callTask[c] # runTask[r]
      BY <1>1, <1>3, <3>2, <3>4 DEF OpenCalls
    <3>. QED
      BY <2>3, <3>2, <3>5 DEF MoveTask
  <2>. QED
    BY <1>3, <2>3, <2>4, <2>5, OnlyAskPauses DEF NoPause
<1>. QED
  BY <1>1, <1>2, <1>3, OpenedBySaving

LEMMA LoopStep ==
    ASSUME AskingInv, AskingInv', LoopInv, OnlyQuestionsWait, [ProcessNext]_allVars
    PROVE  LoopInv' /\ OnlyQuestionsWait'
<1> USE DEF AskingInv
<1>1. Undisturbed /\ RowsStay
  BY ProcessStepIsCommand, NextUndisturbing, NextKeepsRows DEF ProcessInv
<1>2. ASSUME NEW r \in Run, runStatus'[r] = "running"
      PROVE  IF Live(r)' THEN Working(r)' ELSE LetGo(r)'
  <2>1. CASE Begins(r)
    BY <1>1, <1>2, <2>1, BegunRunsWork
  <2>2. CASE runStatus[r] = "running" /\ Proceed(r)
    BY <1>1, <1>2, <2>2, ProceedGoesOn
  <2>3. CASE runStatus[r] = "running" /\ ~Proceed(r)
    <3>1. Resting(r)
      BY <2>3, ExecutionsRest
    <3>. QED
      BY <1>1, <1>2, <2>3, <3>1, RestingGoesOn
  <2>. QED
    BY <1>2, <2>1, <2>2, <2>3, RunsBeginOrGoOn DEF RunsBegin, GoesOn
<1>3. LoopInv'
  BY <1>2 DEF LoopInv
<1>. QED
  BY <1>1, <1>3, WaitingStep

LEMMA LoopInvariance == ProcessSpec => []LoopInv
<1>1. ASSUME ProcessInit PROVE LoopInv /\ OnlyQuestionsWait
  BY <1>1 DEF ProcessInit, Init, LoopInv, OnlyQuestionsWait
<1>2. AskingInv /\ AskingInv' /\ LoopInv /\ OnlyQuestionsWait /\ [ProcessNext]_allVars
          => LoopInv' /\ OnlyQuestionsWait'
  BY LoopStep
<1>. QED
  BY <1>1, <1>2, AskingInvariance, PTL DEF ProcessSpec

NotStrandedUnlessMisreported ==
    \A r \in Run : /\ runStatus[r] = "running" /\ runExpiry[r] > now
                   /\ \A c \in Malformed : callRun[c] # r
                   => Live(r) \/ At(r, "abandoned")

(* A run the store holds is worked on, or its execution was cut off,       *)
(* unless the model gave the run a call whose arguments do not parse: the  *)
(* report of such a call is refused, and the refusal ends the loop.        *)
THEOREM StrandedOnlyIfMisreported == ProcessSpec => []NotStrandedUnlessMisreported
<1>1. ASSUME LoopInv, TypeOK, RowLinks PROVE NotStrandedUnlessMisreported
  <2>1. \A r \in Run : runStatus[r] = "running" => runExpiry[r] \in Nat
    BY <1>1 DEF TypeOK, RowLinks
  <2>. QED
    BY <1>1, <2>1 DEF LoopInv, LetGo, Misreported, NotStrandedUnlessMisreported, TypeOK
<1>. QED
  BY <1>1, ProcessInvariance, LoopInvariance, PTL DEF ProcessInv, Inv

(* With arguments that parse, no loop ends and leaves its task running:    *)
(* every way out closes the run, finds its lease lapsed, or is a cut.      *)
THEOREM TasksAreNotStranded ==
    ASSUME Malformed = {}
    PROVE  ProcessSpec => []TaskNotStranded
<1>1. NotStrandedUnlessMisreported => TaskNotStranded
  BY DEF NotStrandedUnlessMisreported, TaskNotStranded
<1>. QED
  BY <1>1, StrandedOnlyIfMisreported, PTL
==============================================================================
