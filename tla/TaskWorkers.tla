----------------------------- MODULE TaskWorkers -----------------------------
(***************************************************************************)
(* The process of the runtime on top of TaskStore: the flows the API calls *)
(* start, the executions of TaskExecutor with the loop of AgentLoop and    *)
(* executeDurableAgentLoop, shutdown, crash, restart and the scan of       *)
(* InterruptedTaskScanner.  Every change of a row is a command of          *)
(* TaskStore, made with the clock of the process.                          *)
(*                                                                         *)
(* A step of an execution ends where the code awaits: a command and the    *)
(* reply to it are one step, after which the reply may have been lost.     *)
(* Between two steps anything else may happen, in the store as in the      *)
(* process.  One process runs at a time.  A transaction that was under way *)
(* when the process died is rolled back or had been committed.             *)
(***************************************************************************)
EXTENDS TaskStore

CONSTANTS
    Malformed,      \* calls the model gives arguments for that do not parse
    MaxIterations,  \* model calls allowed for one task
    Grace           \* createdTaskGraceMs

ASSUME MalformedAssumption == Malformed \subseteq Call
ASSUME MaxIterationsAssumption == MaxIterations \in Nat \ {0}
ASSUME GraceAssumption == Grace \in Nat \ {0}

VARIABLES
    up,             \* what the process is doing
    owner,          \* its workerId
    scanAt,         \* when its scan read the clock, the first thing it did
    exec,           \* the execution of each run
    starting,       \* created tasks a flow is about to start
    abortDue,       \* tasks fenced by a flow that has not aborted them yet
    invoked,        \* history: how often the tool of a call was invoked
    modelCalls,     \* rows: the model calls of a task
    createdAt       \* column: when a task was created

process == <<up, owner, scanAt>>
flows == <<starting, abortDue>>
counts == <<invoked, modelCalls, createdAt>>
allVars == <<vars, process, exec, flows, counts>>

-----------------------------------------------------------------------------
(* Executions. *)

InLoop == {"thinking", "modelling", "calling", "started", "invoking",
           "reporting", "failing", "cancelling"}
LiveStage == {"loading", "loaded"} \cup InLoop

(* An execution that was refused by the store or that came to its end is   *)
(* "ended"; one that never learned what became of its last command, or     *)
(* that was told to let go, is "abandoned".                                *)
Stage == {"none", "ended", "abandoned"} \cup LiveStage

Idle == [stage |-> "none", signal |-> "none", seen |-> 0,
         left |-> {}, current |-> None, asked |-> {}]

Live(r) == exec[r].stage \in LiveStage
Registered(r) == exec[r].stage \in InLoop
At(r, stage) == exec[r].stage = stage
Aborted(r) == exec[r].signal # "none"
TaskOf(r) == runTask[r]

Enter(r, stage) == exec' = [exec EXCEPT ![r].stage = stage]
Leave(r, stage) == exec' = [exec EXCEPT ![r] = [Idle EXCEPT !.stage = stage]]

(* The last command of an execution: it is over whether its reply comes or *)
(* is lost.                                                                *)
LastCommand(r) == Leave(r, "ended") \/ Leave(r, "abandoned")

(* A reading of the process's clock that a command may still be made with. *)
ProcessTime == scanAt .. now

Fenced(r, at) == TaskLocked(TaskOf(r)) /\ OwnsRun(TaskOf(r), r, owner, at)

Refused(r) ==
    /\ Leave(r, "ended")
    /\ UNCHANGED <<vars, counts>>

-----------------------------------------------------------------------------
(* TaskExecutor.execute: load the run, register the execution, run it. *)

DispatchedStage == IF up = "serving" THEN "loading" ELSE "abandoned"

Load(r) ==
    /\ At(r, "loading")
    /\ \E at \in ProcessTime :
          IF OwnsRun(TaskOf(r), r, owner, at)
          THEN exec' = [exec EXCEPT ![r].stage = "loaded",
                                    ![r].seen = taskVersion[TaskOf(r)]]
          ELSE Leave(r, "ended")
    /\ UNCHANGED <<vars, counts>>

Register(r) ==
    /\ At(r, "loaded")
    /\ IF up = "serving" THEN Enter(r, "thinking") ELSE Leave(r, "abandoned")
    /\ UNCHANGED <<vars, counts>>

-----------------------------------------------------------------------------
(* AgentLoop.run: a turn of the model. *)

LastTurnOver(r) == modelCalls[TaskOf(r)] >= MaxIterations

CallModel_RetriesUncounted(r) ==
    /\ At(r, "thinking")
    /\ ~Aborted(r)
    /\ ~LastTurnOver(r)
    /\ \E at \in ProcessTime : Fenced(r, at)
    /\ Enter(r, "modelling")
    /\ UNCHANGED <<vars, counts>>

CallModel(r) ==
    /\ At(r, "thinking")
    /\ ~Aborted(r)
    /\ ~LastTurnOver(r)
    /\ \E at \in ProcessTime : Fenced(r, at)
    /\ Enter(r, "modelling")
    /\ modelCalls' = [modelCalls EXCEPT ![TaskOf(r)] = @ + 1]
    /\ UNCHANGED <<vars, invoked, createdAt>>

(* A batch that breaks a rule is discarded and the model is told. *)
Correct(r) ==
    /\ At(r, "modelling")
    /\ Enter(r, "thinking")
    /\ UNCHANGED <<vars, counts>>

AfterLoopFailure_None == "ended"

AfterLoopFailure == "failing"

(* Iterations, tool calls or time used up; a context that cannot be built; *)
(* an error, a refusal or a useless output of the model.  The iterations   *)
(* are counted before the signal is looked at.                             *)
GiveUp(r) ==
    /\ \/ At(r, "thinking") /\ (Aborted(r) => LastTurnOver(r))
       \/ At(r, "modelling")
       \/ At(r, "calling") /\ exec[r].left # {}
    /\ Enter(r, AfterLoopFailure)
    /\ UNCHANGED <<vars, counts>>

FinalAnswer(r) ==
    /\ At(r, "modelling")
    /\ \E at \in ProcessTime :
          IF Fenced(r, at) /\ NoActiveChildren(TaskOf(r))
          THEN CompleteTask(TaskOf(r), r, owner, at) /\ LastCommand(r)
          ELSE Leave(r, "ended") /\ UNCHANGED vars
    /\ UNCHANGED counts

Batches == {C \in SUBSET Call : C # {} /\ \A c \in C : callStatus[c] = "absent"}

SaveBatch(r) ==
    /\ At(r, "modelling")
    /\ \E at \in ProcessTime, out \in Output, C \in Batches :
          /\ SaveToolCalls(TaskOf(r), r, owner, at, out, C)
          /\ \/ exec' = [exec EXCEPT ![r].stage = "calling", ![r].left = C]
             \/ Leave(r, "abandoned")
    /\ UNCHANGED counts

SaveRefused(r) ==
    /\ At(r, "modelling")
    /\ \E at \in ProcessTime : ~Fenced(r, at)
    /\ Refused(r)

-----------------------------------------------------------------------------
(* The calls of the batch, one after the other. *)

(* ToolExecutor makes every error of startToolCall fatal. *)
AfterLostStart == "failing"

StartTool(r, c) ==
    /\ At(r, "calling")
    /\ ~Aborted(r)
    /\ c \in exec[r].left \ Malformed
    /\ \E next \in {"started", AfterLostStart} :
          /\ \/ \E at \in ProcessTime : StartToolCall(TaskOf(r), r, owner, at, c)
             \/ next = AfterLostStart /\ UNCHANGED vars
          /\ exec' = [exec EXCEPT ![r].stage = next, ![r].current = c, ![r].left = @ \ {c}]
    /\ UNCHANGED counts

StartRefused(r) ==
    /\ At(r, "calling")
    /\ ~Aborted(r)
    /\ exec[r].left \ Malformed # {}
    /\ \E at \in ProcessTime : ~Fenced(r, at)
    /\ Refused(r)

(* No such tool, or arguments beyond its limits: it is not invoked. *)
SkipTool(r) ==
    /\ At(r, "started")
    /\ Enter(r, "reporting")
    /\ UNCHANGED <<vars, counts>>

InvokeTool(r) ==
    /\ At(r, "started")
    /\ Enter(r, "invoking")
    /\ invoked' = [invoked EXCEPT ![exec[r].current] = @ + 1]
    /\ UNCHANGED <<vars, modelCalls, createdAt>>

AfterTool_Retried == {"reporting", "started"}

AfterTool == {"reporting"}

(* It returned, or it threw something else than an abort. *)
ToolReturns(r) ==
    /\ At(r, "invoking")
    /\ \E next \in AfterTool : Enter(r, next)
    /\ UNCHANGED <<vars, counts>>

ToolAsks(r) ==
    /\ At(r, "invoking")
    /\ exec' = [exec EXCEPT ![r].stage = "calling", ![r].current = None,
                            ![r].asked = @ \cup {exec[r].current}]
    /\ UNCHANGED <<vars, counts>>

(* A tool that was not invoked cannot have had an unknown effect. *)
Outcomes(c) == IF invoked[c] = 0 THEN {"failed"} ELSE Outcome

Report(r) ==
    /\ At(r, "reporting")
    /\ LET c == exec[r].current
       IN \E at \in ProcessTime, outcome \in Outcomes(c) :
            /\ CompleteToolCall(TaskOf(r), r, owner, at, c, outcome)
            /\ \/ exec' = [exec EXCEPT ![r].current = None, ![r].stage =
                              IF callStatus'[c] = "outcome_unknown"
                              THEN AfterLoopFailure ELSE "calling"]
               \/ Leave(r, "abandoned")
    /\ UNCHANGED counts

(* A cancellation that found the call running already settled it.  The     *)
(* store returns the row without looking at the fence.                     *)
ReportOfUnknown(r) ==
    /\ At(r, "reporting")
    /\ SessionActive(taskSession[TaskOf(r)])
    /\ callStatus[exec[r].current] = "outcome_unknown"
    /\ Enter(r, AfterLoopFailure)
    /\ UNCHANGED <<vars, counts>>

ReportRefused(r) ==
    /\ At(r, "reporting")
    /\ \E at \in ProcessTime : ~Fenced(r, at)
    /\ \/ ~SessionActive(taskSession[TaskOf(r)])
       \/ callStatus[exec[r].current] # "outcome_unknown"
    /\ Refused(r)

(* A call whose arguments do not parse is reported without being started,  *)
(* and completeToolCall refuses a call that is pending.                    *)
ReportMalformed(r) ==
    /\ At(r, "calling")
    /\ exec[r].left \cap Malformed # {}
    /\ Refused(r)

AfterQuestion_GoOn == "thinking"

AfterQuestion == "ended"

Ask(r) ==
    /\ At(r, "calling")
    /\ exec[r].left = {}
    /\ \E at \in ProcessTime : \E deadline \in [exec[r].asked -> {None, at + AnswerTtl}] :
          WaitForUserInput(TaskOf(r), r, owner, at, exec[r].asked, deadline)
    /\ Leave(r, AfterQuestion) \/ Leave(r, "abandoned")
    /\ UNCHANGED counts

AskRefused(r) ==
    /\ At(r, "calling")
    /\ exec[r].left = {}
    /\ exec[r].asked # {}
    /\ \E at \in ProcessTime : ~Fenced(r, at)
    /\ Refused(r)

NextTurn(r) ==
    /\ At(r, "calling")
    /\ exec[r].left = {}
    /\ exec[r].asked = {}
    /\ Enter(r, "thinking")
    /\ UNCHANGED <<vars, counts>>

-----------------------------------------------------------------------------
(* How an execution stops. *)

(* The signal is looked at before a turn and before a tool; the model and  *)
(* the tools stop by it, or by an abort of their own.                      *)
Stops(r) ==
    /\ \/ exec[r].stage \in {"modelling", "invoking"}
       \/ At(r, "thinking") /\ ~LastTurnOver(r)
       \/ At(r, "calling") /\ exec[r].left # {} /\ Aborted(r)
    /\ IF exec[r].signal \in {"shutdown", "lost"}
       THEN Leave(r, "abandoned")
       ELSE Enter(r, "cancelling")
    /\ UNCHANGED <<vars, counts>>

Fail(r) ==
    /\ At(r, "failing")
    /\ \E at \in ProcessTime :
          IF Fenced(r, at) /\ taskVersion[TaskOf(r)] = exec[r].seen
          THEN FailTask(TaskOf(r), exec[r].seen, r, owner, at) /\ LastCommand(r)
          ELSE Leave(r, "ended") /\ UNCHANGED vars
    /\ UNCHANGED counts

(* completeCancellation reads the task again; a task that is over is left  *)
(* as it is.                                                               *)
Cancel(r) ==
    /\ At(r, "cancelling")
    /\ IF TaskLocked(TaskOf(r))
       THEN CancelTask(TaskOf(r), taskVersion[TaskOf(r)]) /\ LastCommand(r)
       ELSE Leave(r, "ended") /\ UNCHANGED vars
    /\ UNCHANGED counts

(* The store cannot be reached where the code does not expect it. *)
StoreFails(r) ==
    /\ \/ exec[r].stage \in {"loading", "loaded", "modelling", "reporting",
                             "failing", "cancelling"}
       \/ At(r, "calling") /\ exec[r].left = {} /\ exec[r].asked # {}
    /\ Leave(r, "abandoned")
    /\ UNCHANGED <<vars, counts>>

Proceed(r) ==
    \/ Load(r) \/ Register(r)
    \/ CallModel(r) \/ Correct(r) \/ GiveUp(r) \/ FinalAnswer(r)
    \/ SaveBatch(r) \/ SaveRefused(r)
    \/ \E c \in Call : StartTool(r, c)
    \/ StartRefused(r) \/ SkipTool(r) \/ InvokeTool(r) \/ ToolReturns(r) \/ ToolAsks(r)
    \/ Report(r) \/ ReportOfUnknown(r) \/ ReportRefused(r) \/ ReportMalformed(r)
    \/ Ask(r) \/ AskRefused(r) \/ NextTurn(r)
    \/ Stops(r) \/ Fail(r) \/ Cancel(r) \/ StoreFails(r)

(* ExecutionOwnershipService, whose timing is module ExecutionOwnership.   *)
(* A worker may give its lease up while the row still grants it.           *)
Renew(r) ==
    /\ Registered(r)
    /\ ~Aborted(r)
    /\ \E at \in ProcessTime : RenewTaskRunOwnership(TaskOf(r), r, owner, at)
    /\ UNCHANGED <<exec, counts>>

LoseOwnership(r) ==
    /\ Registered(r)
    /\ ~Aborted(r)
    /\ exec' = [exec EXCEPT ![r].signal = "lost"]
    /\ UNCHANGED <<vars, counts>>

-----------------------------------------------------------------------------
(* The flows.  The client gives the version it saw; with another than the  *)
(* one of the row it is refused, or the flow takes the row's.              *)

OpenForRequests == up \in {"serving", "stopping"}

OpenSession(s) ==
    /\ CreateSession(s)
    /\ UNCHANGED <<flows, exec, counts>>

RequestTask(t, s, k) ==
    /\ CreateTaskWithUserMessage(t, s, k)
    /\ createdAt' \in {[createdAt EXCEPT ![t] = at] : at \in ProcessTime}
    /\ starting' \in {starting, starting \cup {t}}
    /\ UNCHANGED <<abortDue, exec, invoked, modelCalls>>

(* The client sends its request again. *)
RepeatRequest(t) ==
    /\ TaskLocked(t)
    /\ taskStatus[t] = "created"
    /\ starting' = starting \cup {t}
    /\ UNCHANGED <<vars, abortDue, exec, counts>>

StartTask(t, r) ==
    /\ t \in starting
    /\ \E at \in ProcessTime : StartTaskRun(t, 0, r, owner, at)
    /\ starting' = starting \ {t}
    /\ Leave(r, DispatchedStage) \/ Leave(r, "abandoned")
    /\ UNCHANGED <<abortDue, counts>>

StartTaskFails(t) ==
    /\ t \in starting
    /\ starting' = starting \ {t}
    /\ UNCHANGED <<vars, abortDue, exec, counts>>

RequestCancel_AbortFirst(t) ==
    /\ taskStatus[t] \in ActiveTaskStatus
    /\ abortDue' = abortDue \cup {t}
    /\ UNCHANGED <<vars, starting, exec, counts>>

RequestCancel(t) ==
    /\ CancelTask(t, taskVersion[t])
    /\ abortDue' \in {abortDue, abortDue \cup {t}}
    /\ UNCHANGED <<starting, exec, counts>>

(* TaskManager.prepareSessionDeletion *)
PrepareSessionDeletion(s) ==
    /\ BeginSessionDeletion(s)
    /\ abortDue' \in {abortDue, abortDue \cup {t \in Task : taskSession[t] = s}}
    /\ UNCHANGED <<starting, exec, counts>>

AbortedBy(t) == {r \in Run : Registered(r) /\ TaskOf(r) = t}

(* The first reason a controller is given stays. *)
Abort(R, reason) ==
    exec' = [r \in Run |-> IF r \in R /\ ~Aborted(r)
                           THEN [exec[r] EXCEPT !.signal = reason] ELSE exec[r]]

AbortExecution(t) ==
    /\ t \in abortDue
    /\ abortDue' = abortDue \ {t}
    /\ Abort(AbortedBy(t), "cancelled")
    /\ UNCHANGED <<vars, starting, counts>>

Answer(t, c, a, r) ==
    /\ \E at \in ProcessTime : AnswerUserInput(t, c, a, r, owner, at)
    /\ IF runStatus'[r] = runStatus[r]
       THEN UNCHANGED exec
       ELSE Leave(r, DispatchedStage) \/ Leave(r, "abandoned")
    /\ UNCHANGED <<flows, counts>>

Flow ==
    /\ OpenForRequests
    /\ UNCHANGED process
    /\ \/ \E s \in Session : OpenSession(s) \/ PrepareSessionDeletion(s)
       \/ \E t \in Task :
             \/ \E s \in Session, k \in ClientRequest : RequestTask(t, s, k)
             \/ RepeatRequest(t)
             \/ \E r \in Run : StartTask(t, r)
             \/ StartTaskFails(t)
             \/ RequestCancel(t)
             \/ AbortExecution(t)
             \/ \E c \in Call, a \in ClientAnswer, r \in Run : Answer(t, c, a, r)

-----------------------------------------------------------------------------
(* The process. *)

(* It is killed, or it ends after a shutdown. *)
ProcessEnds ==
    /\ up # "down"
    /\ up' = "down"
    /\ exec' = [r \in Run |-> IF Live(r) THEN [Idle EXCEPT !.stage = "abandoned"]
                              ELSE exec[r]]
    /\ starting' = {}
    /\ abortDue' = {}
    /\ UNCHANGED <<vars, owner, scanAt, counts>>

Shutdown ==
    /\ up = "serving"
    /\ up' = "stopping"
    /\ Abort({r \in Run : Registered(r)}, "shutdown")
    /\ UNCHANGED <<vars, owner, scanAt, flows, counts>>

Boot(o) ==
    /\ up = "down"
    /\ up' = "scanning"
    /\ owner' = o
    /\ scanAt' = now
    /\ UNCHANGED <<vars, exec, flows, counts>>

ExpiredRequests == {c \in Call : /\ reqStatus[c] = "pending"
                                 /\ reqExpiry[c] # None
                                 /\ reqExpiry[c] <= scanAt
                                 /\ taskStatus[callTask[c]] = "waiting_for_user"}

ForgottenTasks == {t \in Task : /\ taskStatus[t] = "created"
                                /\ createdAt[t] <= scanAt - Grace}

LapsedTasks_Strictly ==
    {t \in Task : /\ taskStatus[t] = "running"
                  /\ \E r \in Run : /\ runTask[r] = t
                                    /\ runStatus[r] = "running"
                                    /\ runExpiry[r] < scanAt}

LapsedTasks ==
    {t \in Task : /\ taskStatus[t] = "running"
                  /\ \E r \in Run : /\ runTask[r] = t
                                    /\ runStatus[r] = "running"
                                    /\ runExpiry[r] <= scanAt}

(* The questions first: each batch is listed again until none is left. *)
Scan ==
    /\ up = "scanning"
    /\ \/ \E c \in ExpiredRequests, at \in ProcessTime : ExpireUserInput(callTask[c], c, at)
       \/ /\ ExpiredRequests = {}
          /\ \/ \E t \in ForgottenTasks : ReconcileCreatedTask(t, taskVersion[t])
             \/ \E t \in LapsedTasks, at \in ProcessTime :
                   ReconcileRunningTask(t, taskVersion[t], at)
    /\ UNCHANGED <<process, exec, flows, counts>>

ScanEnds ==
    /\ up = "scanning"
    /\ ExpiredRequests = {}
    /\ ForgottenTasks = {}
    /\ LapsedTasks = {}
    /\ up' = "serving"
    /\ UNCHANGED <<vars, owner, scanAt, exec, flows, counts>>

TimePasses ==
    /\ Tick
    /\ UNCHANGED <<process, exec, flows, counts>>

-----------------------------------------------------------------------------

ProcessTypeOK ==
    /\ TypeOK
    /\ up \in {"down", "scanning", "serving", "stopping"}
    /\ owner \in Owner \cup {None}
    /\ scanAt \in Nat
    /\ exec \in [Run -> [stage : Stage,
                         signal : {"none", "cancelled", "shutdown", "lost"},
                         seen : Nat, left : SUBSET Call,
                         current : Call \cup {None}, asked : SUBSET Call]]
    /\ starting \subseteq Task
    /\ abortDue \subseteq Task
    /\ invoked \in [Call -> Nat]
    /\ modelCalls \in [Task -> Nat]
    /\ createdAt \in [Task -> Nat]

ProcessInit ==
    /\ Init
    /\ up = "down"
    /\ owner = None
    /\ scanAt = 0
    /\ exec = [r \in Run |-> Idle]
    /\ starting = {}
    /\ abortDue = {}
    /\ invoked = [c \in Call |-> 0]
    /\ modelCalls = [t \in Task |-> 0]
    /\ createdAt = [t \in Task |-> 0]

Execution == /\ \E r \in Run : Proceed(r) \/ Renew(r) \/ LoseOwnership(r)
             /\ UNCHANGED <<process, flows>>

ProcessNext ==
    \/ Execution
    \/ Flow
    \/ ProcessEnds \/ Shutdown \/ \E o \in Owner : Boot(o)
    \/ Scan \/ ScanEnds
    \/ TimePasses

ProcessSpec == ProcessInit /\ [][ProcessNext]_allVars

(* An execution goes on: what it awaits comes or fails.  The model and the *)
(* tools answer, or give up at their time limits; nothing is asked of the  *)
(* users, of time, of the timer or of the process.                         *)
FairSpec ==
    /\ ProcessSpec
    /\ \A r \in Run : WF_allVars(Proceed(r) /\ UNCHANGED <<process, flows>>)

-----------------------------------------------------------------------------

(* The tool of a call is invoked at most once, through lost replies,       *)
(* crashes, restarts and resumptions of its task                           *)
(* (docs/02-execution-recovery-and-hitl.md, section 6).                    *)
InvokedAtMostOnce == \A c \in Call : invoked[c] <= 1

(* A tool that was invoked is on record as started, and one with side      *)
(* effects never as cancelled, whatever interrupts the execution and       *)
(* whichever command closes its task.                                      *)
SideEffectsRecordedFirst ==
    \A c \in Call : invoked[c] > 0 =>
        /\ callStarted[c]
        /\ c \in SideEffecting => callStatus[c] \notin {"pending", "cancelled"}

(* A run the store holds for this process has somebody who works on it,    *)
(* unless its execution was cut off by an error of the store, a shutdown   *)
(* or a crash: the loop never ends with its task left running.             *)
TaskNotStranded ==
    \A r \in Run : runStatus[r] = "running" /\ runExpiry[r] > now
                      => Live(r) \/ At(r, "abandoned")

(* No two executions work on one task, and what executes a task that is    *)
(* not over is its running run: a resumed task is never worked on by the   *)
(* run that paused it.                                                     *)
OneExecutionPerTask ==
    \A r \in Run : Registered(r) /\ taskStatus[TaskOf(r)] \in ActiveTaskStatus
                      => runStatus[r] = "running"

(* A question is open in the run that saved its call, and that run is      *)
(* paused and the newest of its task: the run expireUserInput closes is    *)
(* the one that waits (user-input.commands.ts:427).                        *)
QuestionsOfNewestRun ==
    \A c \in Call : reqStatus[c] = "pending" =>
        /\ runStatus[callRun[c]] = "paused"
        /\ \A r \in Run \ {callRun[c]} :
                runTask[r] = callTask[c] => runNo[r] < runNo[callRun[c]]

(* An execution is told of a cancellation only when the store has ended    *)
(* its task, so that it never cancels one itself by mistake.               *)
AbortFollowsFence ==
    \A r \in Run : exec[r].signal = "cancelled"
                      => taskStatus[TaskOf(r)] \in TerminalTaskStatus

(* Once the process serves, nothing is left that was overdue when it       *)
(* started, and nothing of what it adds can be older.                      *)
ScanClosesLapsed ==
    up = "serving" =>
        /\ \A r \in Run : runStatus[r] = "running" => runExpiry[r] > scanAt
        /\ \A t \in Task : taskStatus[t] = "created" => createdAt[t] > scanAt - Grace
        /\ \A c \in Call : reqStatus[c] = "pending" /\ reqExpiry[c] # None
                                => reqExpiry[c] > scanAt

(* Every execution comes to an end, by itself if nobody stops it. *)
ExecutionsEnd == \A r \in Run : Live(r) ~> ~Live(r)
==============================================================================
