--------------------------- MODULE TaskStoreProofs ---------------------------
(* Theorems about TaskStore, for every value of its constants: what each   *)
(* command keeps, what these lemmas add up to, which is the invariant of   *)
(* the store and the properties it was strengthened from, and at the end   *)
(* that the store keeps the promise of TaskLifecycle.                      *)
EXTENDS TaskStoreLifecycle, FiniteSetTheorems, TLAPS

(* The tuples of variables and the sets of states are abbreviations.       *)
USE DEF taskVars, runVars, callLinks, callVars, reqVars, vars
USE DEF ActiveTaskStatus, TerminalTaskStatus, TaskStatus, RunStatus,
        ActiveCallStatus, SettledCallStatus, CallStatus, RequestStatus

(* The greatest element of a set of numbers is its Max. *)
LEMMA MaxIsGreatest ==
    ASSUME NEW S \in SUBSET Int, NEW m \in S, \A y \in S : y <= m
    PROVE  Max(S) = m
<1>1. \A y \in S : m >= y
  OBVIOUS
<1>2. \E x \in S : \A y \in S : x >= y
  BY <1>1
<1>3. Max(S) \in S /\ \A y \in S : Max(S) >= y
  BY <1>2 DEF Max
<1>4. m \in Int /\ Max(S) \in Int
  BY <1>3
<1>5. m >= Max(S) /\ Max(S) >= m
  BY <1>1, <1>3
<1>. QED
  BY <1>4, <1>5

(* Every time a command computes from the clock of its caller is a time. *)
LEMMA TimesAreTimes ==
    ASSUME now \in Nat, NEW at \in CallerTime
    PROVE  /\ at \in Nat
           /\ at + Lease \in Nat /\ at + Lease # None
           /\ at + AnswerTtl \in Nat /\ at + AnswerTtl # None
BY LeaseAssumption, AnswerTtlAssumption, NoneAssumption DEF CallerTime

-----------------------------------------------------------------------------
(* The rows by themselves: their types, their links, their numbers.        *)

(* A row that does not exist has no links, and a task has rows below it    *)
(* only once it has left "created".                                        *)
RowLinks ==
    /\ \A t \in Task : taskStatus[t] = "absent" <=> taskSession[t] = None
    /\ \A r \in Run : runStatus[r] = "absent" <=> runTask[r] = None
    /\ \A r \in Run : runTask[r] # None =>
            taskStatus[runTask[r]] \notin {"absent", "created"}
    /\ \A r \in Run : runStatus[r] = "running" <=> runExpiry[r] # None
    /\ \A c \in Call : callStatus[c] = "absent" <=> callTask[c] = None
    /\ \A c \in Call : callTask[c] # None =>
            taskStatus[callTask[c]] \notin {"absent", "created"}

(* The number of the newest run of a live task can be read off its version.*)
RunNumbers ==
    \A t \in Task :
        /\ taskStatus[t] \in {"absent", "created"} => taskVersion[t] = 0
        /\ taskStatus[t] = "running" =>
              \E r \in Run : runTask[r] = t /\ 2 * runNo[r] = taskVersion[t] + 1
        /\ taskStatus[t] = "waiting_for_user" =>
              \E r \in Run : runTask[r] = t /\ 2 * runNo[r] = taskVersion[t]
        /\ taskStatus[t] \in {"running", "waiting_for_user"} =>
              \A r \in Run : runTask[r] = t => 2 * runNo[r] <= taskVersion[t] + 1

-----------------------------------------------------------------------------
(* Tasks, runs, calls and questions together.                              *)
(* OneExecutorWhileRunning, said of the rows one by one. *)
ExecutorInv ==
    /\ \A t \in Task : taskStatus[t] = "running" =>
            \E r \in Run : runTask[r] = t /\ runStatus[r] = "running"
    /\ \A r \in Run : runStatus[r] = "running" => taskStatus[runTask[r]] = "running"
    /\ \A r, q \in Run :
            /\ runStatus[r] = "running" /\ runStatus[q] = "running"
            /\ runTask[r] = runTask[q]
            => r = q

(* WaitsWhileQuestionsOpen, said of the rows one by one. *)
QuestionInv ==
    /\ \A t \in Task : taskStatus[t] = "waiting_for_user" =>
            \E c \in Call : callTask[c] = t /\ reqStatus[c] = "pending"
    /\ \A c \in Call : reqStatus[c] = "pending" =>
            taskStatus[callTask[c]] = "waiting_for_user"
    /\ \A c \in Call : reqStatus[c] = "pending" <=> callStatus[c] = "waiting_for_user"

(* TerminalTaskIsClosed, with the calls of live tasks. *)
ChildInv ==
    \A c \in Call : callStatus[c] \in ActiveCallStatus =>
        taskStatus[callTask[c]] \in {"running", "waiting_for_user"}

(* What the status of a call says of its start and of its tool message. *)
CallInv ==
    \A c \in Call :
        /\ callStatus[c] \in {"absent", "pending"} =>
                ~callStarted[c] /\ callResult[c] = None
        /\ callStatus[c] \in {"running", "waiting_for_user"} =>
                callStarted[c] /\ callResult[c] = None
        /\ callStatus[c] = "completed" => callResult[c] = "completed"
        /\ callStatus[c] \in {"failed", "cancelled"} /\ callStarted[c]
           /\ c \in SideEffecting =>
                callStatus[c] = "failed" /\ callResult[c] = "failed"

(* A session works on one task at a time. *)
SessionInv ==
    /\ ArchivedSessionIsQuiet
    /\ \A t, u \in Task :
         /\ taskStatus[t] \in ActiveTaskStatus
         /\ taskStatus[u] \in ActiveTaskStatus
         /\ taskSession[t] = taskSession[u]
         => t = u

(* The inductive invariant. *)
Inv ==
    /\ TypeOK
    /\ RowLinks
    /\ RunNumbers
    /\ ExecutorInv
    /\ QuestionInv
    /\ ChildInv
    /\ CallInv
    /\ SessionInv
    /\ PlanOfActiveTask
    /\ SettledCallsHaveResults

-----------------------------------------------------------------------------
(* The numbers of runs. *)

LEMMA FirstRunNo ==
    ASSUME TypeOK, RowLinks, NEW t \in Task, taskStatus[t] = "created"
    PROVE  NextRunNo(t) = 1
<1> DEFINE S == {0} \cup {runNo[r] : r \in {x \in Run : runTask[x] = t}}
<1>1. t # None
  BY NoneAssumption
<1>2. {x \in Run : runTask[x] = t} = {}
  BY <1>1 DEF RowLinks
<1>3. S \in SUBSET Int /\ 0 \in S /\ \A y \in S : y <= 0
  BY <1>2
<1>4. Max(S) = 0
  BY <1>3, MaxIsGreatest
<1>. QED
  BY <1>4 DEF NextRunNo

LEMMA ResumedRunNo ==
    ASSUME TypeOK, RunNumbers, NEW t \in Task, taskStatus[t] = "waiting_for_user"
    PROVE  /\ NextRunNo(t) \in Nat
           /\ 2 * NextRunNo(t) = taskVersion[t] + 2
<1> DEFINE S == {0} \cup {runNo[r] : r \in {x \in Run : runTask[x] = t}}
<1>1. PICK r \in Run : runTask[r] = t /\ 2 * runNo[r] = taskVersion[t]
  BY DEF RunNumbers
<1>2. runNo \in [Run -> Nat] /\ taskVersion[t] \in Nat
  BY DEF TypeOK
<1>3. \A x \in Run : runTask[x] = t => runNo[x] <= runNo[r]
  BY <1>1, <1>2 DEF RunNumbers
<1>4. S \in SUBSET Int /\ runNo[r] \in S /\ \A y \in S : y <= runNo[r]
  BY <1>1, <1>2, <1>3
<1>5. Max(S) = runNo[r]
  BY <1>4, MaxIsGreatest
<1>. QED
  BY <1>1, <1>2, <1>5 DEF NextRunNo

-----------------------------------------------------------------------------
(* Every command preserves the invariant. *)

LEMMA CreateSessionStep ==
    ASSUME Inv, NEW s \in Session, CreateSession(s)
    PROVE  Inv'
<1> USE DEF Inv
<1>1. TypeOK'
  BY DEF TypeOK, CreateSession
<1>2. SessionInv'
  BY DEF SessionInv, ArchivedSessionIsQuiet, CreateSession
<1>3. /\ RowLinks' /\ RunNumbers' /\ ExecutorInv' /\ QuestionInv'
      /\ ChildInv' /\ CallInv' /\ PlanOfActiveTask' /\ SettledCallsHaveResults'
  BY DEF RowLinks, RunNumbers, ExecutorInv, QuestionInv, ChildInv, CallInv,
         PlanOfActiveTask, SettledCallsHaveResults, CreateSession
<1>. QED
  BY <1>1, <1>2, <1>3

LEMMA BeginSessionDeletionStep ==
    ASSUME Inv, NEW s \in Session, BeginSessionDeletion(s)
    PROVE  Inv'
<1> USE DEF Inv
<1>1. TypeOK'
  BY DEF TypeOK, BeginSessionDeletion, CancelLockedTasks, Cancellable,
         OpenRuns, CloseRuns, ClearPlans, TerminalizedCalls,
         TerminalizedRequests
<1>2. RowLinks'
  BY DEF RowLinks, TypeOK, BeginSessionDeletion, CancelLockedTasks,
         Cancellable, OpenRuns, CloseRuns, TerminalizedCalls
<1>3. RunNumbers'
  BY DEF RunNumbers, BeginSessionDeletion, CancelLockedTasks, Cancellable,
         OpenRuns, CloseRuns
<1>4. ExecutorInv'
  BY DEF ExecutorInv, TypeOK, RowLinks, BeginSessionDeletion,
         CancelLockedTasks, Cancellable, OpenRuns, CloseRuns
<1>5. QuestionInv'
  BY DEF QuestionInv, TypeOK, RowLinks, BeginSessionDeletion,
         CancelLockedTasks, Cancellable, TerminalizedCalls,
         TerminalizedRequests
<1>6. ChildInv'
  BY DEF ChildInv, TypeOK, RowLinks, BeginSessionDeletion, CancelLockedTasks,
         Cancellable, TerminalizedCalls
<1>7. CallInv'
  BY DEF CallInv, BeginSessionDeletion, CancelLockedTasks, Cancellable,
         TerminalizedCalls
<1>8. SessionInv'
  BY DEF SessionInv, ArchivedSessionIsQuiet, BeginSessionDeletion,
         CancelLockedTasks, Cancellable
<1>9. PlanOfActiveTask'
  BY DEF PlanOfActiveTask, TypeOK, BeginSessionDeletion, CancelLockedTasks,
         Cancellable, ClearPlans
<1>10. SettledCallsHaveResults'
  BY DEF SettledCallsHaveResults, TypeOK, RowLinks, BeginSessionDeletion,
         CancelLockedTasks, Cancellable, TerminalizedCalls
<1>. QED
  BY <1>1, <1>2, <1>3, <1>4, <1>5, <1>6, <1>7, <1>8, <1>9, <1>10

LEMMA FinalizeDeletionStep ==
    ASSUME Inv, NEW s \in Session, FinalizeDeletion(s)
    PROVE  Inv'
<1> USE DEF Inv
<1>1. TypeOK'
  BY DEF TypeOK, FinalizeDeletion
<1>2. SessionInv'
  BY DEF SessionInv, ArchivedSessionIsQuiet, FinalizeDeletion
<1>3. /\ RowLinks' /\ RunNumbers' /\ ExecutorInv' /\ QuestionInv'
      /\ ChildInv' /\ CallInv' /\ PlanOfActiveTask' /\ SettledCallsHaveResults'
  BY DEF RowLinks, RunNumbers, ExecutorInv, QuestionInv, ChildInv, CallInv,
         PlanOfActiveTask, SettledCallsHaveResults, FinalizeDeletion
<1>. QED
  BY <1>1, <1>2, <1>3

LEMMA CreateTaskWithUserMessageStep ==
    ASSUME Inv, NEW s \in Session, NEW t \in Task,
           NEW k \in ClientRequest \cup {None},
           CreateTaskWithUserMessage(t, s, k)
    PROVE  Inv'
<1> USE DEF Inv
<1>1. TypeOK'
  BY DEF TypeOK, CreateTaskWithUserMessage
<1>2. RowLinks'
  BY NoneAssumption DEF RowLinks, TypeOK, CreateTaskWithUserMessage
<1>3. RunNumbers'
  BY DEF RunNumbers, CreateTaskWithUserMessage
<1>4. ExecutorInv'
  BY DEF ExecutorInv, CreateTaskWithUserMessage
<1>5. QuestionInv'
  BY DEF QuestionInv, CreateTaskWithUserMessage
<1>6. ChildInv'
  BY DEF ChildInv, CreateTaskWithUserMessage
<1>7. SessionInv'
  BY DEF SessionInv, TypeOK, ArchivedSessionIsQuiet,
         CreateTaskWithUserMessage, SessionActive
<1>8. PlanOfActiveTask'
  BY DEF PlanOfActiveTask, CreateTaskWithUserMessage
<1>9. SettledCallsHaveResults'
  BY DEF SettledCallsHaveResults, CreateTaskWithUserMessage
<1>10. /\ CallInv'
  BY DEF CallInv, CreateTaskWithUserMessage
<1>. QED
  BY <1>1, <1>2, <1>3, <1>4, <1>5, <1>6, <1>7, <1>8, <1>9, <1>10

LEMMA StartTaskRunStep ==
    ASSUME Inv, NEW t \in Task, NEW r \in Run, NEW o \in Owner,
           NEW at \in CallerTime, StartTaskRun(t, taskVersion[t], r, o, at)
    PROVE  Inv'
<1> USE DEF Inv
<1>1. at + Lease \in Nat /\ at + Lease # None
  BY TimesAreTimes DEF TypeOK
<1>2. NextRunNo(t) = 1
  BY FirstRunNo DEF StartTaskRun
<1>3. TypeOK'
  BY <1>1, <1>2 DEF TypeOK, StartTaskRun, InsertRunningRun, MoveTask
<1>4. RowLinks'
  BY <1>1, NoneAssumption
  DEF RowLinks, TypeOK, StartTaskRun, InsertRunningRun, MoveTask
<1>5. RunNumbers'
  BY <1>2, NoneAssumption
  DEF RunNumbers, TypeOK, RowLinks, StartTaskRun, InsertRunningRun, MoveTask
<1>6. ExecutorInv'
  BY DEF ExecutorInv, TypeOK, StartTaskRun, InsertRunningRun, MoveTask
<1>7. QuestionInv'
  BY DEF QuestionInv, StartTaskRun, MoveTask
<1>8. ChildInv'
  BY DEF ChildInv, StartTaskRun, MoveTask
<1>9. SessionInv'
  BY DEF SessionInv, ArchivedSessionIsQuiet, StartTaskRun, MoveTask
<1>10. PlanOfActiveTask'
  BY DEF PlanOfActiveTask, StartTaskRun, MoveTask
<1>11. SettledCallsHaveResults'
  BY DEF SettledCallsHaveResults, StartTaskRun, MoveTask
<1>12. /\ CallInv'
  BY DEF CallInv, StartTaskRun
<1>. QED
  BY <1>3, <1>4, <1>5, <1>6, <1>7, <1>8, <1>9, <1>10, <1>11, <1>12

LEMMA RenewTaskRunOwnershipStep ==
    ASSUME Inv, NEW t \in Task, NEW r \in Run, NEW o \in Owner,
           NEW at \in CallerTime, RenewTaskRunOwnership(t, r, o, at)
    PROVE  Inv'
<1> USE DEF Inv
<1>1. at + Lease \in Nat /\ at + Lease # None
  BY TimesAreTimes DEF TypeOK
<1>2. TypeOK'
  BY <1>1 DEF TypeOK, RenewTaskRunOwnership
<1>3. RowLinks'
  BY <1>1 DEF RowLinks, RenewTaskRunOwnership
<1>4. /\ RunNumbers' /\ ExecutorInv' /\ QuestionInv' /\ ChildInv'
      /\ CallInv' /\ SessionInv' /\ PlanOfActiveTask' /\ SettledCallsHaveResults'
  BY DEF RunNumbers, ExecutorInv, QuestionInv, ChildInv, CallInv, SessionInv,
         PlanOfActiveTask, SettledCallsHaveResults, ArchivedSessionIsQuiet,
         RenewTaskRunOwnership
<1>. QED
  BY <1>2, <1>3, <1>4

LEMMA FailTaskStep ==
    ASSUME Inv, NEW t \in Task, NEW r \in Run, NEW o \in Owner,
           NEW at \in CallerTime, FailTask(t, taskVersion[t], r, o, at)
    PROVE  Inv'
<1> USE DEF Inv
<1>1. TypeOK'
  BY DEF TypeOK, FailTask, CloseRuns, MoveTask, ClearPlans, TerminalizedCalls,
         TerminalizedRequests
<1>2. RowLinks'
  BY DEF RowLinks, FailTask, OwnsRun, CloseRuns, MoveTask, TerminalizedCalls
<1>3. RunNumbers'
  BY DEF RunNumbers, TypeOK, FailTask, CloseRuns, MoveTask
<1>4. ExecutorInv'
  BY DEF ExecutorInv, TypeOK, FailTask, OwnsRun, CloseRuns, MoveTask
<1>5. QuestionInv'
  BY DEF QuestionInv, FailTask, OwnsRun, MoveTask, TerminalizedCalls,
         TerminalizedRequests
<1>6. ChildInv'
  BY DEF ChildInv, FailTask, MoveTask, TerminalizedCalls
<1>7. CallInv'
  BY DEF CallInv, FailTask, TerminalizedCalls
<1>8. SessionInv'
  BY DEF SessionInv, ArchivedSessionIsQuiet, FailTask, MoveTask
<1>9. PlanOfActiveTask'
  BY DEF PlanOfActiveTask, FailTask, MoveTask, ClearPlans
<1>10. SettledCallsHaveResults'
  BY DEF SettledCallsHaveResults, TypeOK, FailTask, MoveTask,
         TerminalizedCalls
<1>. QED
  BY <1>1, <1>2, <1>3, <1>4, <1>5, <1>6, <1>7, <1>8, <1>9, <1>10

LEMMA CompleteTaskStep ==
    ASSUME Inv, NEW t \in Task, NEW r \in Run, NEW o \in Owner,
           NEW at \in CallerTime, CompleteTask(t, r, o, at)
    PROVE  Inv'
<1> USE DEF Inv
<1>1. TypeOK'
  BY DEF TypeOK, CompleteTask, CloseRuns, MoveTask, ClearPlans
<1>2. RowLinks'
  BY DEF RowLinks, CompleteTask, OwnsRun, CloseRuns, MoveTask
<1>3. RunNumbers'
  BY DEF RunNumbers, TypeOK, CompleteTask, CloseRuns, MoveTask
<1>4. ExecutorInv'
  BY DEF ExecutorInv, TypeOK, CompleteTask, OwnsRun, CloseRuns, MoveTask
<1>5. QuestionInv'
  BY DEF QuestionInv, CompleteTask, NoActiveChildren, MoveTask
<1>6. ChildInv'
  BY DEF ChildInv, CompleteTask, NoActiveChildren, MoveTask
<1>7. SessionInv'
  BY DEF SessionInv, ArchivedSessionIsQuiet, CompleteTask, MoveTask
<1>8. PlanOfActiveTask'
  BY DEF PlanOfActiveTask, CompleteTask, MoveTask, ClearPlans
<1>9. SettledCallsHaveResults'
  BY DEF SettledCallsHaveResults, CompleteTask, OwnsRun, MoveTask
<1>10. /\ CallInv'
  BY DEF CallInv, CompleteTask
<1>. QED
  BY <1>1, <1>2, <1>3, <1>4, <1>5, <1>6, <1>7, <1>8, <1>9, <1>10

LEMMA ApplyActivePlanStep ==
    ASSUME Inv, NEW t \in Task, NEW r \in Run, NEW o \in Owner,
           NEW at \in CallerTime, ApplyActivePlan(t, r, o, at)
    PROVE  Inv'
<1> USE DEF Inv
<1>1. TypeOK'
  BY DEF TypeOK, ApplyActivePlan
<1>2. PlanOfActiveTask'
  BY DEF PlanOfActiveTask, ApplyActivePlan, OwnsRun
<1>3. /\ RowLinks' /\ RunNumbers' /\ ExecutorInv' /\ QuestionInv'
      /\ ChildInv' /\ CallInv' /\ SessionInv' /\ SettledCallsHaveResults'
  BY DEF RowLinks, RunNumbers, ExecutorInv, QuestionInv, ChildInv, CallInv,
         SessionInv, SettledCallsHaveResults, ArchivedSessionIsQuiet,
         ApplyActivePlan
<1>. QED
  BY <1>1, <1>2, <1>3

LEMMA SaveToolCallsStep ==
    ASSUME Inv, NEW t \in Task, NEW r \in Run, NEW o \in Owner,
           NEW at \in CallerTime, NEW out \in Output, NEW C \in SUBSET Call,
           SaveToolCalls(t, r, o, at, out, C)
    PROVE  Inv'
<1> USE DEF Inv
<1>1. TypeOK'
  BY DEF TypeOK, SaveToolCalls
<1>2. RowLinks'
  BY DEF RowLinks, SaveToolCalls, OwnsRun
<1>3. QuestionInv'
  BY DEF QuestionInv, SaveToolCalls
<1>4. ChildInv'
  BY DEF ChildInv, SaveToolCalls, OwnsRun
<1>5. CallInv'
  BY DEF CallInv, SaveToolCalls
<1>6. SettledCallsHaveResults'
  BY DEF SettledCallsHaveResults, SaveToolCalls
<1>7. /\ RunNumbers' /\ ExecutorInv' /\ SessionInv' /\ PlanOfActiveTask'
  BY DEF RunNumbers, ExecutorInv, SessionInv, PlanOfActiveTask,
         ArchivedSessionIsQuiet, SaveToolCalls
<1>. QED
  BY <1>1, <1>2, <1>3, <1>4, <1>5, <1>6, <1>7

LEMMA StartToolCallStep ==
    ASSUME Inv, NEW t \in Task, NEW r \in Run, NEW o \in Owner,
           NEW at \in CallerTime, NEW c \in Call,
           StartToolCall(t, r, o, at, c)
    PROVE  Inv'
<1> USE DEF Inv
<1>1. TypeOK'
  BY DEF TypeOK, StartToolCall
<1>2. RowLinks'
  BY DEF RowLinks, StartToolCall
<1>3. QuestionInv'
  BY DEF QuestionInv, StartToolCall
<1>4. ChildInv'
  BY DEF ChildInv, StartToolCall
<1>5. CallInv'
  BY DEF CallInv, TypeOK, StartToolCall
<1>6. SettledCallsHaveResults'
  BY DEF SettledCallsHaveResults, StartToolCall
<1>7. /\ RunNumbers' /\ ExecutorInv' /\ SessionInv' /\ PlanOfActiveTask'
  BY DEF RunNumbers, ExecutorInv, SessionInv, PlanOfActiveTask,
         ArchivedSessionIsQuiet, StartToolCall
<1>. QED
  BY <1>1, <1>2, <1>3, <1>4, <1>5, <1>6, <1>7

LEMMA CompleteToolCallStep ==
    ASSUME Inv, NEW t \in Task, NEW r \in Run, NEW o \in Owner,
           NEW at \in CallerTime, NEW c \in Call, NEW outcome \in Outcome,
           CompleteToolCall(t, r, o, at, c, outcome)
    PROVE  Inv'
<1> USE DEF Inv
<1>1. TypeOK'
  BY DEF TypeOK, CompleteToolCall, SettledStatus, ResultMessage, Outcome
<1>2. RowLinks'
  BY DEF RowLinks, CompleteToolCall, SettledStatus, Outcome
<1>3. QuestionInv'
  BY DEF QuestionInv, CompleteToolCall, SettledStatus, Outcome
<1>4. ChildInv'
  BY DEF ChildInv, CompleteToolCall, SettledStatus, Outcome
<1>5. CallInv'
  BY DEF CallInv, TypeOK, CompleteToolCall, SettledStatus, ResultMessage,
         Outcome
<1>6. SettledCallsHaveResults'
  BY NoneAssumption
  DEF SettledCallsHaveResults, TypeOK, CompleteToolCall, SettledStatus,
      ResultMessage, Outcome
<1>7. /\ RunNumbers' /\ ExecutorInv' /\ SessionInv' /\ PlanOfActiveTask'
  BY DEF RunNumbers, ExecutorInv, SessionInv, PlanOfActiveTask,
         ArchivedSessionIsQuiet, CompleteToolCall
<1>. QED
  BY <1>1, <1>2, <1>3, <1>4, <1>5, <1>6, <1>7

LEMMA WaitForUserInputStep ==
    ASSUME Inv, NEW t \in Task, NEW r \in Run, NEW o \in Owner,
           NEW at \in CallerTime, NEW C \in SUBSET Call,
           NEW deadline \in [C -> {None, at + AnswerTtl}],
           WaitForUserInput(t, r, o, at, C, deadline)
    PROVE  Inv'
<1> USE DEF Inv
<1>1. at + AnswerTtl \in Nat
  BY TimesAreTimes DEF TypeOK
<1>2. TypeOK'
  BY <1>1 DEF TypeOK, WaitForUserInput, CloseRuns, MoveTask
<1>3. RowLinks'
  BY DEF RowLinks, WaitForUserInput, OwnsRun, CloseRuns, MoveTask
<1>4. RunNumbers'
  BY DEF RunNumbers, TypeOK, WaitForUserInput, OwnsRun, CloseRuns, MoveTask
<1>5. ExecutorInv'
  BY DEF ExecutorInv, TypeOK, WaitForUserInput, OwnsRun, CloseRuns, MoveTask
<1>6. QuestionInv'
  BY DEF QuestionInv, TypeOK, WaitForUserInput, MoveTask
<1>7. ChildInv'
  BY DEF ChildInv, WaitForUserInput, MoveTask
<1>8. CallInv'
  BY DEF CallInv, WaitForUserInput
<1>9. SessionInv'
  BY DEF SessionInv, ArchivedSessionIsQuiet, WaitForUserInput, OwnsRun,
         MoveTask
<1>10. PlanOfActiveTask'
  BY DEF PlanOfActiveTask, WaitForUserInput, MoveTask
<1>11. SettledCallsHaveResults'
  BY DEF SettledCallsHaveResults, WaitForUserInput, OwnsRun, MoveTask
<1>. QED
  BY <1>2, <1>3, <1>4, <1>5, <1>6, <1>7, <1>8, <1>9, <1>10, <1>11

LEMMA CancelTaskStep ==
    ASSUME Inv, NEW t \in Task, CancelTask(t, taskVersion[t])
    PROVE  Inv'
<1> USE DEF Inv
<1>1. TypeOK'
  BY DEF TypeOK, CancelTask, CancelLockedTasks, Cancellable, OpenRuns,
         CloseRuns, ClearPlans, TerminalizedCalls, TerminalizedRequests
<1>2. RowLinks'
  BY DEF RowLinks, TypeOK, CancelTask, CancelLockedTasks, Cancellable,
         OpenRuns, CloseRuns, TerminalizedCalls
<1>3. RunNumbers'
  BY DEF RunNumbers, CancelTask, CancelLockedTasks, Cancellable, OpenRuns,
         CloseRuns
<1>4. ExecutorInv'
  BY DEF ExecutorInv, TypeOK, RowLinks, CancelTask, CancelLockedTasks,
         Cancellable, OpenRuns, CloseRuns
<1>5. QuestionInv'
  BY DEF QuestionInv, TypeOK, RowLinks, CancelTask, CancelLockedTasks,
         Cancellable, TerminalizedCalls, TerminalizedRequests
<1>6. ChildInv'
  BY DEF ChildInv, TypeOK, RowLinks, CancelTask, CancelLockedTasks,
         Cancellable, TerminalizedCalls
<1>7. CallInv'
  BY DEF CallInv, CancelTask, CancelLockedTasks, Cancellable,
         TerminalizedCalls
<1>8. SessionInv'
  BY DEF SessionInv, ArchivedSessionIsQuiet, CancelTask, CancelLockedTasks,
         Cancellable
<1>9. PlanOfActiveTask'
  BY DEF PlanOfActiveTask, TypeOK, CancelTask, CancelLockedTasks, Cancellable,
         ClearPlans
<1>10. SettledCallsHaveResults'
  BY DEF SettledCallsHaveResults, TypeOK, RowLinks, CancelTask,
         CancelLockedTasks, Cancellable, TerminalizedCalls
<1>. QED
  BY <1>1, <1>2, <1>3, <1>4, <1>5, <1>6, <1>7, <1>8, <1>9, <1>10

LEMMA ReconcileCreatedTaskStep ==
    ASSUME Inv, NEW t \in Task, ReconcileCreatedTask(t, taskVersion[t])
    PROVE  Inv'
<1> USE DEF Inv
<1>1. TypeOK'
  BY DEF TypeOK, ReconcileCreatedTask, MoveTask, ClearPlans
<1>2. RowLinks'
  BY DEF RowLinks, ReconcileCreatedTask, MoveTask
<1>3. RunNumbers'
  BY DEF RunNumbers, TypeOK, ReconcileCreatedTask, MoveTask
<1>4. ExecutorInv'
  BY DEF ExecutorInv, ReconcileCreatedTask, MoveTask
<1>5. QuestionInv'
  BY DEF QuestionInv, ReconcileCreatedTask, MoveTask
<1>6. ChildInv'
  BY DEF ChildInv, ReconcileCreatedTask, MoveTask
<1>7. SessionInv'
  BY DEF SessionInv, ArchivedSessionIsQuiet, ReconcileCreatedTask, MoveTask
<1>8. PlanOfActiveTask'
  BY DEF PlanOfActiveTask, ReconcileCreatedTask, MoveTask, ClearPlans
<1>9. SettledCallsHaveResults'
  BY DEF SettledCallsHaveResults, ReconcileCreatedTask, MoveTask
<1>10. /\ CallInv'
  BY DEF CallInv, ReconcileCreatedTask
<1>. QED
  BY <1>1, <1>2, <1>3, <1>4, <1>5, <1>6, <1>7, <1>8, <1>9, <1>10

LEMMA ReconcileRunningTaskStep ==
    ASSUME Inv, NEW t \in Task, NEW at \in CallerTime,
           ReconcileRunningTask(t, taskVersion[t], at)
    PROVE  Inv'
<1> USE DEF Inv
<1>1. TypeOK'
  BY DEF TypeOK, ReconcileRunningTask, CloseRuns, MoveTask, ClearPlans,
         TerminalizedCalls, TerminalizedRequests
<1>2. RowLinks'
  BY DEF RowLinks, ReconcileRunningTask, CloseRuns, MoveTask,
         TerminalizedCalls
<1>3. RunNumbers'
  BY DEF RunNumbers, TypeOK, ReconcileRunningTask, CloseRuns, MoveTask
<1>4. ExecutorInv'
  BY DEF ExecutorInv, TypeOK, ReconcileRunningTask, CloseRuns, MoveTask
<1>5. QuestionInv'
  BY DEF QuestionInv, ReconcileRunningTask, MoveTask, TerminalizedCalls,
         TerminalizedRequests
<1>6. ChildInv'
  BY DEF ChildInv, ReconcileRunningTask, MoveTask, TerminalizedCalls
<1>7. CallInv'
  BY DEF CallInv, ReconcileRunningTask, TerminalizedCalls
<1>8. SessionInv'
  BY DEF SessionInv, ArchivedSessionIsQuiet, ReconcileRunningTask, MoveTask
<1>9. PlanOfActiveTask'
  BY DEF PlanOfActiveTask, ReconcileRunningTask, MoveTask, ClearPlans
<1>10. SettledCallsHaveResults'
  BY DEF SettledCallsHaveResults, TypeOK, ReconcileRunningTask, MoveTask,
         TerminalizedCalls
<1>. QED
  BY <1>1, <1>2, <1>3, <1>4, <1>5, <1>6, <1>7, <1>8, <1>9, <1>10

LEMMA ExpireUserInputStep ==
    ASSUME Inv, NEW t \in Task, NEW c \in Call, NEW at \in CallerTime,
           ExpireUserInput(t, c, at)
    PROVE  Inv'
<1> USE DEF Inv
<1>1. TypeOK'
  BY DEF TypeOK, ExpireUserInput, CloseRuns, MoveTask, ClearPlans,
         TerminalizedCalls, TerminalizedRequests
<1>2. RowLinks'
  BY DEF RowLinks, ExpireUserInput, CloseRuns, MoveTask, TerminalizedCalls
<1>3. RunNumbers'
  BY DEF RunNumbers, TypeOK, ExpireUserInput, CloseRuns, MoveTask
<1>4. ExecutorInv'
  BY DEF ExecutorInv, ExpireUserInput, CloseRuns, MoveTask
<1>5. QuestionInv'
  BY DEF QuestionInv, TypeOK, ExpireUserInput, MoveTask, TerminalizedCalls,
         TerminalizedRequests
<1>6. ChildInv'
  BY DEF ChildInv, ExpireUserInput, MoveTask, TerminalizedCalls
<1>7. CallInv'
  BY DEF CallInv, TypeOK, ExpireUserInput, TerminalizedCalls
<1>8. SessionInv'
  BY DEF SessionInv, ArchivedSessionIsQuiet, ExpireUserInput, MoveTask
<1>9. PlanOfActiveTask'
  BY DEF PlanOfActiveTask, ExpireUserInput, MoveTask, ClearPlans
<1>10. SettledCallsHaveResults'
  BY DEF SettledCallsHaveResults, TypeOK, ExpireUserInput, MoveTask,
         TerminalizedCalls
<1>. QED
  BY <1>1, <1>2, <1>3, <1>4, <1>5, <1>6, <1>7, <1>8, <1>9, <1>10

LEMMA AnswerOneQuestionStep ==
    ASSUME Inv, NEW t \in Task, NEW c \in Call, NEW a \in ClientAnswer,
           NEW r \in Run, NEW o \in Owner, NEW at \in CallerTime,
           AnswerUserInput(t, c, a, r, o, at), ~LastQuestion(t, c)
    PROVE  Inv'
<1> USE DEF Inv
<1>1. TypeOK'
  BY DEF TypeOK, AnswerUserInput
<1>2. RowLinks'
  BY DEF RowLinks, AnswerUserInput
<1>3. QuestionInv'
  BY DEF QuestionInv, TypeOK, AnswerUserInput, LastQuestion, PendingRequests
<1>4. ChildInv'
  BY DEF ChildInv, AnswerUserInput
<1>5. CallInv'
  BY DEF CallInv, TypeOK, AnswerUserInput
<1>6. SettledCallsHaveResults'
  BY NoneAssumption
  DEF SettledCallsHaveResults, TypeOK, AnswerUserInput
<1>7. /\ RunNumbers' /\ ExecutorInv' /\ SessionInv' /\ PlanOfActiveTask'
  BY DEF RunNumbers, ExecutorInv, SessionInv, PlanOfActiveTask,
         ArchivedSessionIsQuiet, AnswerUserInput
<1>. QED
  BY <1>1, <1>2, <1>3, <1>4, <1>5, <1>6, <1>7

LEMMA AnswerLastQuestionStep ==
    ASSUME Inv, NEW t \in Task, NEW c \in Call, NEW a \in ClientAnswer,
           NEW r \in Run, NEW o \in Owner, NEW at \in CallerTime,
           AnswerUserInput(t, c, a, r, o, at), LastQuestion(t, c)
    PROVE  Inv'
<1> USE DEF Inv
<1>1. at + Lease \in Nat /\ at + Lease # None
  BY TimesAreTimes DEF TypeOK
<1>2. NextRunNo(t) \in Nat /\ 2 * NextRunNo(t) = taskVersion[t] + 2
  BY ResumedRunNo DEF AnswerUserInput
<1>3. TypeOK'
  <2>1. /\ runNo' \in [Run -> Nat]
        /\ runExpiry' \in [Run -> Nat \cup {None}]
    BY <1>1, <1>2 DEF AnswerUserInput, InsertRunningRun, TypeOK
  <2>2. /\ runTask' \in [Run -> Task \cup {None}]
        /\ runStatus' \in [Run -> RunStatus]
        /\ runOwner' \in [Run -> Owner \cup {None}]
    BY DEF AnswerUserInput, InsertRunningRun, TypeOK
  <2>3. /\ taskStatus' \in [Task -> TaskStatus]
        /\ taskVersion' \in [Task -> Nat]
    BY DEF AnswerUserInput, MoveTask, TypeOK
  <2>. QED
    BY <2>1, <2>2, <2>3 DEF AnswerUserInput, MoveTask, TypeOK
<1>4. RowLinks'
  BY <1>1
  DEF RowLinks, TypeOK, AnswerUserInput, InsertRunningRun, MoveTask
<1>5. RunNumbers'
  BY <1>2, NoneAssumption
  DEF RunNumbers, TypeOK, RowLinks, AnswerUserInput, InsertRunningRun,
      MoveTask
<1>6. ExecutorInv'
  <2>1. /\ runTask' = [runTask EXCEPT ![r] = t]
        /\ runStatus' = [runStatus EXCEPT ![r] = "running"]
        /\ taskStatus' = [taskStatus EXCEPT ![t] = "running"]
        /\ runStatus[r] = "absent" /\ taskStatus[t] = "waiting_for_user"
    BY DEF AnswerUserInput, InsertRunningRun, MoveTask
  <2>2. \A q \in Run : runTask[q] = t => runStatus[q] # "running"
    BY <2>1 DEF ExecutorInv
  <2>. QED
    BY <2>1, <2>2, NoneAssumption DEF ExecutorInv, RowLinks, TypeOK
<1>7. QuestionInv'
  BY DEF QuestionInv, TypeOK, RowLinks, AnswerUserInput, LastQuestion,
         PendingRequests, MoveTask
<1>8. ChildInv'
  BY DEF ChildInv, TypeOK, RowLinks, AnswerUserInput, MoveTask
<1>9. CallInv'
  BY DEF CallInv, TypeOK, AnswerUserInput
<1>10. SessionInv'
  BY DEF SessionInv, TypeOK, ArchivedSessionIsQuiet, AnswerUserInput, MoveTask
<1>11. PlanOfActiveTask'
  BY DEF PlanOfActiveTask, TypeOK, AnswerUserInput, MoveTask
<1>12. SettledCallsHaveResults'
  BY NoneAssumption
  DEF SettledCallsHaveResults, TypeOK, RowLinks, AnswerUserInput, MoveTask
<1>. QED
  BY <1>3, <1>4, <1>5, <1>6, <1>7, <1>8, <1>9, <1>10, <1>11, <1>12

LEMMA TickStep ==
    ASSUME Inv, Tick
    PROVE  Inv'
<1> USE DEF Inv
<1>1. TypeOK'
  BY DEF TypeOK, Tick
<1>2. /\ RowLinks' /\ RunNumbers' /\ ExecutorInv' /\ QuestionInv'
      /\ ChildInv' /\ CallInv' /\ SessionInv' /\ PlanOfActiveTask' /\ SettledCallsHaveResults'
  BY DEF RowLinks, RunNumbers, ExecutorInv, QuestionInv, ChildInv, CallInv,
         SessionInv, PlanOfActiveTask, SettledCallsHaveResults,
         ArchivedSessionIsQuiet, Tick
<1>. QED
  BY <1>1, <1>2

-----------------------------------------------------------------------------
(* The inductive invariant. *)

LEMMA InitInv ==
    ASSUME Init
    PROVE  Inv
<1> USE DEF Init
<1>1. TypeOK
  BY NoneAssumption DEF TypeOK
<1>2. RowLinks
  BY NoneAssumption DEF RowLinks
<1>3. /\ RunNumbers /\ ExecutorInv /\ QuestionInv /\ ChildInv /\ CallInv
      /\ PlanOfActiveTask /\ SettledCallsHaveResults
  BY DEF RunNumbers, ExecutorInv, QuestionInv, ChildInv, CallInv,
         PlanOfActiveTask, SettledCallsHaveResults
<1>4. SessionInv
  BY DEF SessionInv, ArchivedSessionIsQuiet
<1>. QED
  BY <1>1, <1>2, <1>3, <1>4 DEF Inv

LEMMA AnswerUserInputStep ==
    ASSUME Inv, NEW t \in Task, NEW c \in Call, NEW a \in ClientAnswer,
           NEW r \in Run, NEW o \in Owner, NEW at \in CallerTime,
           AnswerUserInput(t, c, a, r, o, at)
    PROVE  Inv'
<1>1. CASE LastQuestion(t, c)
  BY <1>1, AnswerLastQuestionStep
<1>2. CASE ~LastQuestion(t, c)
  BY <1>2, AnswerOneQuestionStep
<1>. QED
  BY <1>1, <1>2

LEMMA SessionNextStep ==
    ASSUME Inv, SessionNext
    PROVE  Inv'
<1>1. PICK s \in Session :
        \/ CreateSession(s)
        \/ BeginSessionDeletion(s)
        \/ FinalizeDeletion(s)
        \/ \E t \in Task, k \in ClientRequest \cup {None} :
                CreateTaskWithUserMessage(t, s, k)
  BY DEF SessionNext
<1>2. CASE CreateSession(s)
  BY <1>2, CreateSessionStep
<1>3. CASE BeginSessionDeletion(s)
  BY <1>3, BeginSessionDeletionStep
<1>4. CASE FinalizeDeletion(s)
  BY <1>4, FinalizeDeletionStep
<1>5. CASE \E t \in Task, k \in ClientRequest \cup {None} :
                CreateTaskWithUserMessage(t, s, k)
  BY <1>5, CreateTaskWithUserMessageStep
<1>. QED
  BY <1>1, <1>2, <1>3, <1>4, <1>5

LEMMA WorkerNextStep ==
    ASSUME Inv, WorkerNext
    PROVE  Inv'
<1>1. PICK t \in Task, r \in Run, o \in Owner, at \in CallerTime :
        \/ StartTaskRun(t, taskVersion[t], r, o, at)
        \/ RenewTaskRunOwnership(t, r, o, at)
        \/ FailTask(t, taskVersion[t], r, o, at)
        \/ CompleteTask(t, r, o, at)
        \/ ApplyActivePlan(t, r, o, at)
        \/ \E out \in Output, C \in SUBSET Call : SaveToolCalls(t, r, o, at, out, C)
        \/ \E c \in Call :
              \/ StartToolCall(t, r, o, at, c)
              \/ \E outcome \in Outcome : CompleteToolCall(t, r, o, at, c, outcome)
        \/ \E C \in SUBSET Call : \E deadline \in [C -> {None, at + AnswerTtl}] :
                WaitForUserInput(t, r, o, at, C, deadline)
  BY DEF WorkerNext
<1>2. CASE StartTaskRun(t, taskVersion[t], r, o, at)
  BY <1>2, StartTaskRunStep
<1>3. CASE RenewTaskRunOwnership(t, r, o, at)
  BY <1>3, RenewTaskRunOwnershipStep
<1>4. CASE FailTask(t, taskVersion[t], r, o, at)
  BY <1>4, FailTaskStep
<1>5. CASE CompleteTask(t, r, o, at)
  BY <1>5, CompleteTaskStep
<1>6. CASE ApplyActivePlan(t, r, o, at)
  BY <1>6, ApplyActivePlanStep
<1>7. CASE \E out \in Output, C \in SUBSET Call : SaveToolCalls(t, r, o, at, out, C)
  BY <1>7, SaveToolCallsStep
<1>8. CASE \E c \in Call : StartToolCall(t, r, o, at, c)
  BY <1>8, StartToolCallStep
<1>9. CASE \E c \in Call, outcome \in Outcome : CompleteToolCall(t, r, o, at, c, outcome)
  BY <1>9, CompleteToolCallStep
<1>10. CASE \E C \in SUBSET Call : \E deadline \in [C -> {None, at + AnswerTtl}] :
                WaitForUserInput(t, r, o, at, C, deadline)
  BY <1>10, WaitForUserInputStep
<1>. QED
  BY <1>1, <1>2, <1>3, <1>4, <1>5, <1>6, <1>7, <1>8, <1>9, <1>10

LEMMA ApiNextStep ==
    ASSUME Inv, ApiNext
    PROVE  Inv'
<1>1. PICK t \in Task :
        \/ CancelTask(t, taskVersion[t])
        \/ ReconcileCreatedTask(t, taskVersion[t])
        \/ \E at \in CallerTime : ReconcileRunningTask(t, taskVersion[t], at)
        \/ \E c \in Call, at \in CallerTime :
              \/ ExpireUserInput(t, c, at)
              \/ \E a \in ClientAnswer, r \in Run, o \in Owner :
                    AnswerUserInput(t, c, a, r, o, at)
  BY DEF ApiNext
<1>2. CASE CancelTask(t, taskVersion[t])
  BY <1>2, CancelTaskStep
<1>3. CASE ReconcileCreatedTask(t, taskVersion[t])
  BY <1>3, ReconcileCreatedTaskStep
<1>4. CASE \E at \in CallerTime : ReconcileRunningTask(t, taskVersion[t], at)
  BY <1>4, ReconcileRunningTaskStep
<1>5. CASE \E c \in Call, at \in CallerTime : ExpireUserInput(t, c, at)
  BY <1>5, ExpireUserInputStep
<1>6. CASE \E c \in Call, at \in CallerTime, a \in ClientAnswer, r \in Run, o \in Owner :
              AnswerUserInput(t, c, a, r, o, at)
  BY <1>6, AnswerUserInputStep
<1>. QED
  BY <1>1, <1>2, <1>3, <1>4, <1>5, <1>6

LEMMA NextInv ==
    ASSUME Inv, [Next]_vars
    PROVE  Inv'
<1>1. CASE Next
  BY <1>1, TickStep, SessionNextStep, WorkerNextStep, ApiNextStep DEF Next
<1>2. CASE UNCHANGED vars
  BY <1>2 DEF Inv, TypeOK, RowLinks, RunNumbers, ExecutorInv, QuestionInv,
      ChildInv, CallInv, SessionInv, ArchivedSessionIsQuiet,
      PlanOfActiveTask, SettledCallsHaveResults
<1>. QED
  BY <1>1, <1>2

(* The conjunction that every command preserves holds throughout: what the *)
(* rows say of one another never depends on how many there are.            *)
THEOREM Invariance == Spec => []Inv
  BY InitInv, NextInv, PTL DEF Spec

-----------------------------------------------------------------------------
(* The properties of TaskStore. *)

(* Every column keeps to its type. *)
THEOREM TypeCorrect == Spec => []TypeOK
<1>1. Inv => TypeOK
  BY DEF Inv
<1>. QED
  BY <1>1, Invariance, PTL

(* A task is running exactly when exactly one of its runs is. *)
THEOREM OneExecutor == Spec => []OneExecutorWhileRunning
<1>1. ASSUME Inv PROVE OneExecutorWhileRunning
  <2> SUFFICES ASSUME NEW t \in Task
               PROVE  IF taskStatus[t] = "running"
                      THEN \E r \in Run : RunningRuns(t) = {r}
                      ELSE RunningRuns(t) = {}
    BY DEF OneExecutorWhileRunning
  <2>1. CASE taskStatus[t] = "running"
    <3>1. PICK r \in Run : runTask[r] = t /\ runStatus[r] = "running"
      BY <1>1, <2>1 DEF Inv, ExecutorInv
    <3>2. \A q \in Run : runTask[q] = t /\ runStatus[q] = "running" <=> q = r
      BY <1>1, <3>1 DEF Inv, ExecutorInv
    <3>3. RunningRuns(t) = {r}
      BY <3>2 DEF RunningRuns
    <3>. QED
      BY <2>1, <3>3
  <2>2. CASE taskStatus[t] # "running"
    <3>1. RunningRuns(t) = {}
      BY <1>1, <2>2 DEF Inv, ExecutorInv, RunningRuns
    <3>. QED
      BY <2>2, <3>1
  <2>. QED
    BY <2>1, <2>2
<1>. QED
  BY <1>1, Invariance, PTL

(* A task waits exactly while a question of it is open. *)
THEOREM TasksWaitForQuestions == Spec => []WaitsWhileQuestionsOpen
<1>1. ASSUME Inv PROVE WaitsWhileQuestionsOpen
  <2>1. ASSUME NEW t \in Task
        PROVE  taskStatus[t] = "waiting_for_user" <=> PendingRequests(t) # {}
    BY <1>1 DEF Inv, QuestionInv, PendingRequests
  <2>2. \A c \in Call : reqStatus[c] = "pending" <=> callStatus[c] = "waiting_for_user"
    BY <1>1 DEF Inv, QuestionInv
  <2>. QED
    BY <2>1, <2>2 DEF WaitsWhileQuestionsOpen
<1>. QED
  BY <1>1, Invariance, PTL

(* A task that is over has no call and no question left open. *)
THEOREM TerminalTasksAreClosed == Spec => []TerminalTaskIsClosed
<1>1. ASSUME Inv PROVE TerminalTaskIsClosed
  BY <1>1 DEF Inv, ChildInv, QuestionInv, TerminalTaskIsClosed, NoActiveChildren
<1>. QED
  BY <1>1, Invariance, PTL

(* No started side effect is recorded as if it had not happened. *)
THEOREM SideEffectsAreAccounted == Spec => []StartedSideEffectsAccounted
<1>1. ASSUME Inv PROVE StartedSideEffectsAccounted
  <2> SUFFICES ASSUME NEW c \in SideEffecting, callStarted[c]
               PROVE  \/ callStatus[c] \in ActiveCallStatus
                      \/ callStatus[c] = "outcome_unknown"
                      \/ callResult[c] = callStatus[c]
    BY DEF StartedSideEffectsAccounted
  <2>1. c \in Call
    BY SideEffectingAssumption
  <2>2. callStatus[c] \in CallStatus
    BY <1>1, <2>1 DEF Inv, TypeOK
  <2>. QED
    BY <1>1, <2>1, <2>2 DEF Inv, CallInv
<1>. QED
  BY <1>1, Invariance, PTL

(* The history given to the model never holds a call without a result. *)
THEOREM HistoryIsComplete == Spec => []SettledCallsHaveResults
<1>1. Inv => SettledCallsHaveResults
  BY DEF Inv
<1>. QED
  BY <1>1, Invariance, PTL

(* Nothing is left to run in a session whose deletion has begun. *)
THEOREM ArchivedSessionsAreQuiet == Spec => []ArchivedSessionIsQuiet
<1>1. Inv => ArchivedSessionIsQuiet
  BY DEF Inv, SessionInv
<1>. QED
  BY <1>1, Invariance, PTL

(* A session shows a plan only of the task it is working on. *)
THEOREM PlansOfActiveTasks == Spec => []PlanOfActiveTask
<1>1. Inv => PlanOfActiveTask
  BY DEF Inv
<1>. QED
  BY <1>1, Invariance, PTL

-----------------------------------------------------------------------------
(* What no step does. *)

(* A call belongs to the task of the run it was requested in. *)
CallsInTheirRuns ==
    \A c \in Call : callTask[c] # None =>
        callRun[c] \in Run /\ runTask[callRun[c]] = callTask[c]

TaskFinal ==
    \A t \in Task : taskStatus[t] \in TerminalTaskStatus => TerminalTaskStays(t)

CallsStep == \A c \in Call : CallStep(c)

LEMMA SessionNextIsFinal ==
    ASSUME Inv, CallsInTheirRuns, SessionNext
    PROVE  TaskFinal /\ CallsStep /\ CallsInTheirRuns'
<1> USE DEF Inv
<1>1. PICK s \in Session :
        \/ CreateSession(s)
        \/ BeginSessionDeletion(s)
        \/ FinalizeDeletion(s)
        \/ \E t \in Task, k \in ClientRequest \cup {None} : CreateTaskWithUserMessage(t, s, k)
  BY DEF SessionNext
<1>2. CASE CreateSession(s)
  <2>1. TaskFinal
    BY <1>2, NoneAssumption
    DEF TaskFinal, TerminalTaskStays, TypeOK, RowLinks,
        CreateSession
  <2>2. CallsStep
    BY <1>2, NoneAssumption
    DEF CallsStep, CallStep, CallMoves, TypeOK, CallInv,
        CreateSession
  <2>3. CallsInTheirRuns'
    BY <1>2, NoneAssumption
    DEF CallsInTheirRuns, TypeOK, RowLinks, CreateSession
  <2>. QED
    BY <2>1, <2>2, <2>3
<1>3. CASE BeginSessionDeletion(s)
  <2>1. TaskFinal
    BY <1>3, NoneAssumption
    DEF TaskFinal, TerminalTaskStays, TypeOK, RowLinks,
        BeginSessionDeletion, CancelLockedTasks, Cancellable,
        OpenRuns, CloseRuns, TerminalizedCalls,
        TerminalizedRequests
  <2>2. CallsStep
    BY <1>3, NoneAssumption
    DEF CallsStep, CallStep, CallMoves, TypeOK, CallInv,
        BeginSessionDeletion, CancelLockedTasks, Cancellable,
        TerminalizedCalls
  <2>3. CallsInTheirRuns'
    BY <1>3, NoneAssumption
    DEF CallsInTheirRuns, TypeOK, RowLinks, BeginSessionDeletion,
        CancelLockedTasks, CloseRuns
  <2>. QED
    BY <2>1, <2>2, <2>3
<1>4. CASE FinalizeDeletion(s)
  <2>1. TaskFinal
    BY <1>4, NoneAssumption
    DEF TaskFinal, TerminalTaskStays, TypeOK, RowLinks,
        FinalizeDeletion
  <2>2. CallsStep
    BY <1>4, NoneAssumption
    DEF CallsStep, CallStep, CallMoves, TypeOK, CallInv,
        FinalizeDeletion
  <2>3. CallsInTheirRuns'
    BY <1>4, NoneAssumption
    DEF CallsInTheirRuns, TypeOK, RowLinks, FinalizeDeletion
  <2>. QED
    BY <2>1, <2>2, <2>3
<1>5. CASE \E t \in Task, k \in ClientRequest \cup {None} : CreateTaskWithUserMessage(t, s, k)
  <2>1. TaskFinal
    BY <1>5, NoneAssumption
    DEF TaskFinal, TerminalTaskStays, TypeOK, RowLinks,
        CreateTaskWithUserMessage
  <2>2. CallsStep
    BY <1>5, NoneAssumption
    DEF CallsStep, CallStep, CallMoves, TypeOK, CallInv,
        CreateTaskWithUserMessage
  <2>3. CallsInTheirRuns'
    BY <1>5, NoneAssumption
    DEF CallsInTheirRuns, TypeOK, RowLinks,
        CreateTaskWithUserMessage
  <2>. QED
    BY <2>1, <2>2, <2>3
<1>. QED
  BY <1>1, <1>2, <1>3, <1>4, <1>5

LEMMA WorkerNextIsFinal ==
    ASSUME Inv, CallsInTheirRuns, WorkerNext
    PROVE  TaskFinal /\ CallsStep /\ CallsInTheirRuns'
<1> USE DEF Inv
<1>1. PICK t \in Task, r \in Run, o \in Owner, at \in CallerTime :
        \/ StartTaskRun(t, taskVersion[t], r, o, at)
        \/ RenewTaskRunOwnership(t, r, o, at)
        \/ FailTask(t, taskVersion[t], r, o, at)
        \/ CompleteTask(t, r, o, at)
        \/ ApplyActivePlan(t, r, o, at)
        \/ \E out \in Output, C \in SUBSET Call : SaveToolCalls(t, r, o, at, out, C)
        \/ \E c \in Call : StartToolCall(t, r, o, at, c)
        \/ \E c \in Call, outcome \in Outcome : CompleteToolCall(t, r, o, at, c, outcome)
        \/ \E C \in SUBSET Call : \E deadline \in [C -> {None, at + AnswerTtl}] :
                WaitForUserInput(t, r, o, at, C, deadline)
  BY DEF WorkerNext
<1>2. CASE StartTaskRun(t, taskVersion[t], r, o, at)
  <2>1. TaskFinal
    BY <1>2, NoneAssumption
    DEF TaskFinal, TerminalTaskStays, TypeOK, RowLinks,
        StartTaskRun, InsertRunningRun, MoveTask
  <2>2. CallsStep
    BY <1>2, NoneAssumption
    DEF CallsStep, CallStep, CallMoves, TypeOK, CallInv,
        StartTaskRun
  <2>3. CallsInTheirRuns'
    BY <1>2, NoneAssumption
    DEF CallsInTheirRuns, TypeOK, RowLinks, StartTaskRun,
        InsertRunningRun
  <2>. QED
    BY <2>1, <2>2, <2>3
<1>3. CASE RenewTaskRunOwnership(t, r, o, at)
  <2>1. TaskFinal
    BY <1>3, NoneAssumption
    DEF TaskFinal, TerminalTaskStays, TypeOK, RowLinks,
        ExecutorInv, RenewTaskRunOwnership
  <2>2. CallsStep
    BY <1>3, NoneAssumption
    DEF CallsStep, CallStep, CallMoves, TypeOK, CallInv,
        RenewTaskRunOwnership
  <2>3. CallsInTheirRuns'
    BY <1>3, NoneAssumption
    DEF CallsInTheirRuns, TypeOK, RowLinks, RenewTaskRunOwnership
  <2>. QED
    BY <2>1, <2>2, <2>3
<1>4. CASE FailTask(t, taskVersion[t], r, o, at)
  <2>1. TaskFinal
    BY <1>4, NoneAssumption
    DEF TaskFinal, TerminalTaskStays, TypeOK, RowLinks, FailTask,
        OwnsRun, CloseRuns, MoveTask, TerminalizedCalls,
        TerminalizedRequests
  <2>2. CallsStep
    BY <1>4, NoneAssumption
    DEF CallsStep, CallStep, CallMoves, TypeOK, CallInv, FailTask,
        TerminalizedCalls
  <2>3. CallsInTheirRuns'
    BY <1>4, NoneAssumption
    DEF CallsInTheirRuns, TypeOK, RowLinks, FailTask, OwnsRun,
        CloseRuns
  <2>. QED
    BY <2>1, <2>2, <2>3
<1>5. CASE CompleteTask(t, r, o, at)
  <2>1. TaskFinal
    BY <1>5, NoneAssumption
    DEF TaskFinal, TerminalTaskStays, TypeOK, RowLinks,
        CompleteTask, OwnsRun, CloseRuns, MoveTask
  <2>2. CallsStep
    BY <1>5, NoneAssumption
    DEF CallsStep, CallStep, CallMoves, TypeOK, CallInv,
        CompleteTask
  <2>3. CallsInTheirRuns'
    BY <1>5, NoneAssumption
    DEF CallsInTheirRuns, TypeOK, RowLinks, CompleteTask, OwnsRun,
        CloseRuns
  <2>. QED
    BY <2>1, <2>2, <2>3
<1>6. CASE ApplyActivePlan(t, r, o, at)
  <2>1. TaskFinal
    BY <1>6, NoneAssumption
    DEF TaskFinal, TerminalTaskStays, TypeOK, RowLinks,
        ApplyActivePlan
  <2>2. CallsStep
    BY <1>6, NoneAssumption
    DEF CallsStep, CallStep, CallMoves, TypeOK, CallInv,
        ApplyActivePlan
  <2>3. CallsInTheirRuns'
    BY <1>6, NoneAssumption
    DEF CallsInTheirRuns, TypeOK, RowLinks, ApplyActivePlan
  <2>. QED
    BY <2>1, <2>2, <2>3
<1>7. CASE \E out \in Output, C \in SUBSET Call : SaveToolCalls(t, r, o, at, out, C)
  <2>1. TaskFinal
    BY <1>7, NoneAssumption
    DEF TaskFinal, TerminalTaskStays, TypeOK, RowLinks,
        SaveToolCalls, OwnsRun
  <2>2. CallsStep
    BY <1>7, NoneAssumption
    DEF CallsStep, CallStep, CallMoves, TypeOK, CallInv,
        SaveToolCalls
  <2>3. CallsInTheirRuns'
    BY <1>7, NoneAssumption
    DEF CallsInTheirRuns, TypeOK, RowLinks, SaveToolCalls, OwnsRun
  <2>. QED
    BY <2>1, <2>2, <2>3
<1>8. CASE \E c \in Call : StartToolCall(t, r, o, at, c)
  <2>1. TaskFinal
    BY <1>8, NoneAssumption
    DEF TaskFinal, TerminalTaskStays, TypeOK, RowLinks,
        StartToolCall, OwnsRun
  <2>2. CallsStep
    BY <1>8, NoneAssumption
    DEF CallsStep, CallStep, CallMoves, TypeOK, CallInv,
        StartToolCall
  <2>3. CallsInTheirRuns'
    BY <1>8, NoneAssumption
    DEF CallsInTheirRuns, TypeOK, RowLinks, StartToolCall, OwnsRun
  <2>. QED
    BY <2>1, <2>2, <2>3
<1>9. CASE \E c \in Call, outcome \in Outcome : CompleteToolCall(t, r, o, at, c, outcome)
  <2>1. TaskFinal
    BY <1>9, NoneAssumption
    DEF TaskFinal, TerminalTaskStays, TypeOK, RowLinks,
        CompleteToolCall, OwnsRun, SettledStatus
  <2>2. CallsStep
    BY <1>9, NoneAssumption
    DEF CallsStep, CallStep, CallMoves, TypeOK, CallInv,
        CompleteToolCall, SettledStatus
  <2>3. CallsInTheirRuns'
    BY <1>9, NoneAssumption
    DEF CallsInTheirRuns, TypeOK, RowLinks, CompleteToolCall,
        OwnsRun
  <2>. QED
    BY <2>1, <2>2, <2>3
<1>10. CASE \E C \in SUBSET Call : \E deadline \in [C -> {None, at + AnswerTtl}] :
                WaitForUserInput(t, r, o, at, C, deadline)
  <2>1. TaskFinal
    BY <1>10, NoneAssumption
    DEF TaskFinal, TerminalTaskStays, TypeOK, RowLinks,
        WaitForUserInput, OwnsRun, CloseRuns, MoveTask
  <2>2. CallsStep
    BY <1>10, NoneAssumption
    DEF CallsStep, CallStep, CallMoves, TypeOK, CallInv,
        WaitForUserInput
  <2>3. CallsInTheirRuns'
    BY <1>10, NoneAssumption
    DEF CallsInTheirRuns, TypeOK, RowLinks, WaitForUserInput,
        OwnsRun, CloseRuns
  <2>. QED
    BY <2>1, <2>2, <2>3
<1>. QED
  BY <1>1, <1>2, <1>3, <1>4, <1>5, <1>6, <1>7, <1>8, <1>9, <1>10

LEMMA ApiNextIsFinal ==
    ASSUME Inv, CallsInTheirRuns, ApiNext
    PROVE  TaskFinal /\ CallsStep /\ CallsInTheirRuns'
<1> USE DEF Inv
<1>1. PICK t \in Task :
        \/ CancelTask(t, taskVersion[t])
        \/ ReconcileCreatedTask(t, taskVersion[t])
        \/ \E at \in CallerTime : ReconcileRunningTask(t, taskVersion[t], at)
        \/ \E c \in Call, at \in CallerTime : ExpireUserInput(t, c, at)
        \/ \E c \in Call, at \in CallerTime, a \in ClientAnswer, r \in Run, o \in Owner :
              AnswerUserInput(t, c, a, r, o, at)
  BY DEF ApiNext
<1>2. CASE CancelTask(t, taskVersion[t])
  <2>1. TaskFinal
    BY <1>2, NoneAssumption
    DEF TaskFinal, TerminalTaskStays, TypeOK, RowLinks, CancelTask,
        CancelLockedTasks, Cancellable, OpenRuns, CloseRuns,
        TerminalizedCalls, TerminalizedRequests
  <2>2. CallsStep
    BY <1>2, NoneAssumption
    DEF CallsStep, CallStep, CallMoves, TypeOK, CallInv,
        CancelTask, CancelLockedTasks, Cancellable,
        TerminalizedCalls
  <2>3. CallsInTheirRuns'
    BY <1>2, NoneAssumption
    DEF CallsInTheirRuns, TypeOK, RowLinks, CancelTask,
        CancelLockedTasks, CloseRuns
  <2>. QED
    BY <2>1, <2>2, <2>3
<1>3. CASE ReconcileCreatedTask(t, taskVersion[t])
  <2>1. TaskFinal
    BY <1>3, NoneAssumption
    DEF TaskFinal, TerminalTaskStays, TypeOK, RowLinks,
        ReconcileCreatedTask, MoveTask
  <2>2. CallsStep
    BY <1>3, NoneAssumption
    DEF CallsStep, CallStep, CallMoves, TypeOK, CallInv,
        ReconcileCreatedTask
  <2>3. CallsInTheirRuns'
    BY <1>3, NoneAssumption
    DEF CallsInTheirRuns, TypeOK, RowLinks, ReconcileCreatedTask
  <2>. QED
    BY <2>1, <2>2, <2>3
<1>4. CASE \E at \in CallerTime : ReconcileRunningTask(t, taskVersion[t], at)
  <2>1. TaskFinal
    BY <1>4, NoneAssumption
    DEF TaskFinal, TerminalTaskStays, TypeOK, RowLinks,
        ReconcileRunningTask, CloseRuns, MoveTask,
        TerminalizedCalls, TerminalizedRequests
  <2>2. CallsStep
    BY <1>4, NoneAssumption
    DEF CallsStep, CallStep, CallMoves, TypeOK, CallInv,
        ReconcileRunningTask, TerminalizedCalls
  <2>3. CallsInTheirRuns'
    BY <1>4, NoneAssumption
    DEF CallsInTheirRuns, TypeOK, RowLinks, ReconcileRunningTask,
        CloseRuns
  <2>. QED
    BY <2>1, <2>2, <2>3
<1>5. CASE \E c \in Call, at \in CallerTime : ExpireUserInput(t, c, at)
  <2>1. TaskFinal
    BY <1>5, NoneAssumption
    DEF TaskFinal, TerminalTaskStays, TypeOK, RowLinks,
        CallsInTheirRuns, ExpireUserInput, CloseRuns, MoveTask,
        TerminalizedCalls, TerminalizedRequests
  <2>2. CallsStep
    BY <1>5, NoneAssumption
    DEF CallsStep, CallStep, CallMoves, TypeOK, CallInv,
        ExpireUserInput, TerminalizedCalls
  <2>3. CallsInTheirRuns'
    BY <1>5, NoneAssumption
    DEF CallsInTheirRuns, TypeOK, RowLinks, ExpireUserInput,
        CloseRuns
  <2>. QED
    BY <2>1, <2>2, <2>3
<1>6. CASE \E c \in Call, at \in CallerTime, a \in ClientAnswer, r \in Run, o \in Owner :
              AnswerUserInput(t, c, a, r, o, at)
  <2>1. TaskFinal
    BY <1>6, NoneAssumption
    DEF TaskFinal, TerminalTaskStays, TypeOK, RowLinks,
        AnswerUserInput, InsertRunningRun, MoveTask
  <2>2. CallsStep
    BY <1>6, NoneAssumption
    DEF CallsStep, CallStep, CallMoves, TypeOK, CallInv,
        AnswerUserInput
  <2>3. CallsInTheirRuns'
    BY <1>6, NoneAssumption
    DEF CallsInTheirRuns, TypeOK, RowLinks, AnswerUserInput,
        InsertRunningRun
  <2>. QED
    BY <2>1, <2>2, <2>3
<1>. QED
  BY <1>1, <1>2, <1>3, <1>4, <1>5, <1>6

LEMMA NextIsFinal ==
    ASSUME Inv, CallsInTheirRuns, [Next]_vars
    PROVE  CallsInTheirRuns' /\ [TaskFinal /\ CallsStep]_vars
<1>1. CASE Tick
  BY <1>1 DEF Tick, TaskFinal, TerminalTaskStays, CallsStep, CallStep,
      CallsInTheirRuns
<1>2. CASE UNCHANGED vars
  BY <1>2 DEF CallsInTheirRuns
<1>. QED
  BY <1>1, <1>2, SessionNextIsFinal, WorkerNextIsFinal, ApiNextIsFinal DEF Next

LEMMA CallsStayInTheirRuns == Spec => []CallsInTheirRuns
<1>1. Init => CallsInTheirRuns
  BY DEF Init, CallsInTheirRuns
<1>2. Inv /\ CallsInTheirRuns /\ [Next]_vars => CallsInTheirRuns'
  BY NextIsFinal
<1>. QED
  BY <1>1, <1>2, Invariance, PTL DEF Spec

(* A task that is over keeps its status, its runs, its calls and its       *)
(* questions, whatever command comes late.                                 *)
THEOREM TerminalTasksAreFinal == Spec => TerminalIsFinal
<1>1. Inv /\ CallsInTheirRuns /\ [Next]_vars => [TaskFinal]_vars
  BY NextIsFinal
<1>. QED
  BY <1>1, Invariance, CallsStayInTheirRuns, PTL DEF Spec, TerminalIsFinal, TaskFinal

(* Every move of a call is one of CallMoves, and its result is written at  *)
(* most once, by the step that settles it.                                 *)
THEOREM CallsSettleOnce == Spec => CallSettlesOnce
<1>1. Inv /\ CallsInTheirRuns /\ [Next]_vars => [CallsStep]_vars
  BY NextIsFinal
<1>. QED
  BY <1>1, Invariance, CallsStayInTheirRuns, PTL DEF Spec, CallSettlesOnce, CallsStep

-----------------------------------------------------------------------------
(* The numbers of the runs of a task. *)

RunsOf(t) == {r \in Run : runTask[r] = t}

(* RunsNumberedByVersion for one task, whose runs are finitely many. *)
Numbered(t) ==
    LET k == Cardinality(RunsOf(t))
    IN /\ IsFiniteSet(RunsOf(t))
       /\ {runNo[r] : r \in RunsOf(t)} = 1 .. k
       /\ \A r \in RunningRuns(t) : runNo[r] = k
       /\ taskStatus[t] \in {"absent", "created"} => taskVersion[t] = 2 * k
       /\ taskStatus[t] = "running" => taskVersion[t] = 2 * k - 1
       /\ taskStatus[t] = "waiting_for_user" => taskVersion[t] = 2 * k
       /\ taskStatus[t] \in TerminalTaskStatus => taskVersion[t] \in {2 * k, 2 * k + 1}

AllNumbered == \A t \in Task : Numbered(t)

(* What a command that starts no run does to the status and version of t. *)
VersionMoves(t) ==
    \/ taskStatus'[t] = taskStatus[t] /\ taskVersion'[t] = taskVersion[t]
    \/ /\ taskStatus[t] = "absent" /\ taskStatus'[t] = "created"
       /\ taskVersion'[t] = taskVersion[t]
    \/ /\ taskStatus[t] = "running"
       /\ taskStatus'[t] \in {"waiting_for_user"} \cup TerminalTaskStatus
       /\ taskVersion'[t] = taskVersion[t] + 1
    \/ /\ taskStatus[t] \in {"created", "waiting_for_user"}
       /\ taskStatus'[t] \in TerminalTaskStatus
       /\ taskVersion'[t] = taskVersion[t] + 1

(* A command that starts no run leaves the numbers of a task in order. *)
LEMMA NumberedWithoutStart ==
    ASSUME NEW t \in Task, Numbered(t), VersionMoves(t),
           UNCHANGED <<runTask, runNo>>,
           \A r \in Run : runTask[r] = t /\ runStatus'[r] = "running" =>
                runStatus[r] = "running"
    PROVE  Numbered(t)'
<1> DEFINE k == Cardinality(RunsOf(t))
<1>1. RunsOf(t)' = RunsOf(t) /\ RunningRuns(t)' \subseteq RunningRuns(t)
  BY DEF RunsOf, RunningRuns
<1>2. k \in Nat /\ k' = k
  BY <1>1, FS_CardinalityType DEF Numbered
<1>3. /\ IsFiniteSet(RunsOf(t))'
      /\ {runNo[r] : r \in RunsOf(t)}' = 1 .. k
      /\ \A r \in RunningRuns(t)' : runNo'[r] = k
  BY <1>1 DEF Numbered
<1>4. /\ taskStatus'[t] \in {"absent", "created"} => taskVersion'[t] = 2 * k
      /\ taskStatus'[t] = "running" => taskVersion'[t] = 2 * k - 1
      /\ taskStatus'[t] = "waiting_for_user" => taskVersion'[t] = 2 * k
      /\ taskStatus'[t] \in TerminalTaskStatus => taskVersion'[t] \in {2 * k, 2 * k + 1}
  BY <1>2 DEF Numbered, VersionMoves
<1>. QED
  BY <1>2, <1>3, <1>4 DEF Numbered

LEMMA NextRunNoIsCount ==
    ASSUME NEW t \in Task, Numbered(t)
    PROVE  NextRunNo(t) = Cardinality(RunsOf(t)) + 1
<1> DEFINE k == Cardinality(RunsOf(t))
<1>1. k \in Nat
  BY FS_CardinalityType DEF Numbered
<1>2. {runNo[r] : r \in {x \in Run : runTask[x] = t}} = 1 .. k
  BY DEF Numbered, RunsOf
<1>3. Max({0} \cup 1 .. k) = k
  <2>1. ({0} \cup 1 .. k) \in SUBSET Int /\ k \in {0} \cup 1 .. k
        /\ \A y \in {0} \cup 1 .. k : y <= k
    BY <1>1
  <2>. QED
    BY <2>1, MaxIsGreatest
<1>. QED
  BY <1>2, <1>3 DEF NextRunNo

(* The run a command starts gets the next number of its task. *)
LEMMA NumberedWithStart ==
    ASSUME Inv, NEW t \in Task, AllNumbered, NEW r \in Run, NEW o, NEW at,
           taskStatus[t] \in {"created", "waiting_for_user"},
           InsertRunningRun(r, t, o, at), MoveTask(t, "running")
    PROVE  AllNumbered'
<1> DEFINE k == Cardinality(RunsOf(t))
<1>1. Numbered(t) /\ t # None
  BY NoneAssumption DEF AllNumbered
<1>2. k \in Nat /\ NextRunNo(t) = k + 1
  BY <1>1, NextRunNoIsCount, FS_CardinalityType DEF Numbered
<1>3. r \notin RunsOf(t) /\ RunsOf(t)' = RunsOf(t) \cup {r}
  BY <1>1 DEF RunsOf, InsertRunningRun, Inv, RowLinks, TypeOK
<1>4. IsFiniteSet(RunsOf(t))' /\ k' = k + 1
  BY <1>1, <1>3, FS_AddElement DEF Numbered
<1>5. /\ runNo'[r] = k + 1
      /\ \A q \in RunsOf(t) : runNo'[q] = runNo[q]
  BY <1>2, <1>3 DEF InsertRunningRun, Inv, TypeOK, RunsOf
<1>6. {runNo[q] : q \in RunsOf(t)}' = 1 .. k'
  <2>1. {runNo[q] : q \in RunsOf(t)}' = {runNo[q] : q \in RunsOf(t)} \cup {k + 1}
    BY <1>3, <1>5
  <2>2. {runNo[q] : q \in RunsOf(t)} = 1 .. k
    BY <1>1 DEF Numbered
  <2>3. 1 .. (k + 1) = (1 .. k) \cup {k + 1}
    BY <1>2
  <2>. QED
    BY <1>4, <2>1, <2>2, <2>3
<1>7. RunningRuns(t)' = {r}
  <2>1. \A q \in Run : runTask[q] = t => runStatus[q] # "running"
    BY <1>1 DEF Inv, ExecutorInv
  <2>. QED
    BY <2>1 DEF RunningRuns, InsertRunningRun, Inv, TypeOK
<1>8. taskStatus'[t] = "running" /\ taskVersion'[t] = 2 * k' - 1
  <2>1. taskVersion[t] = 2 * k
    BY <1>1 DEF Numbered
  <2>. QED
    BY <1>2, <1>4, <2>1 DEF MoveTask, Inv, TypeOK
<1>9. Numbered(t)'
  <2>1. \A q \in RunningRuns(t)' : runNo'[q] = k'
    BY <1>4, <1>5, <1>7
  <2>. QED
    BY <1>4, <1>6, <1>8, <2>1 DEF Numbered
<1>10. ASSUME NEW u \in Task, u # t
       PROVE  Numbered(u)'
  <2>1. RunsOf(u)' = RunsOf(u) /\ RunningRuns(u)' = RunningRuns(u)
    BY <1>10, NoneAssumption DEF RunsOf, RunningRuns, InsertRunningRun, Inv, RowLinks, TypeOK
  <2>2. {runNo[q] : q \in RunsOf(u)}' = {runNo[q] : q \in RunsOf(u)}
        /\ \A q \in RunningRuns(u) : runNo'[q] = runNo[q]
    BY <1>10, <2>1, NoneAssumption
    DEF RunsOf, RunningRuns, InsertRunningRun, Inv, RowLinks, TypeOK
  <2>3. taskStatus'[u] = taskStatus[u] /\ taskVersion'[u] = taskVersion[u]
    BY <1>10 DEF MoveTask, Inv, TypeOK
  <2>. QED
    BY <2>1, <2>2, <2>3 DEF Numbered, AllNumbered
<1>. QED
  BY <1>9, <1>10 DEF AllNumbered

(* Nothing but startTaskRun and answerUserInput starts a run. *)
StartsNoRun ==
    /\ UNCHANGED <<runTask, runNo>>
    /\ \A r \in Run : runStatus'[r] = "running" => runStatus[r] = "running"
    /\ \A t \in Task : VersionMoves(t)

LEMMA AllNumberedWithoutStart ==
    ASSUME AllNumbered, StartsNoRun
    PROVE  AllNumbered'
  BY NumberedWithoutStart DEF AllNumbered, StartsNoRun

LEMMA SessionNextNumbered ==
    ASSUME Inv, SessionNext
    PROVE  StartsNoRun
<1> USE DEF Inv, TypeOK, StartsNoRun, VersionMoves
<1>1. PICK s \in Session :
        \/ CreateSession(s)
        \/ BeginSessionDeletion(s)
        \/ FinalizeDeletion(s)
        \/ \E t \in Task, k \in ClientRequest \cup {None} :
                CreateTaskWithUserMessage(t, s, k)
  BY DEF SessionNext
<1>2. CASE CreateSession(s) \/ FinalizeDeletion(s)
  BY <1>2 DEF CreateSession, FinalizeDeletion
<1>3. CASE BeginSessionDeletion(s)
  BY <1>3 DEF BeginSessionDeletion, CancelLockedTasks, Cancellable, OpenRuns, CloseRuns
<1>4. CASE \E t \in Task, k \in ClientRequest \cup {None} :
                CreateTaskWithUserMessage(t, s, k)
  BY <1>4 DEF CreateTaskWithUserMessage
<1>. QED
  BY <1>1, <1>2, <1>3, <1>4

LEMMA WorkerNextNumbered ==
    ASSUME Inv, AllNumbered, WorkerNext
    PROVE  AllNumbered'
<1>1. PICK t \in Task, r \in Run, o \in Owner, at \in CallerTime :
        \/ StartTaskRun(t, taskVersion[t], r, o, at)
        \/ RenewTaskRunOwnership(t, r, o, at)
        \/ FailTask(t, taskVersion[t], r, o, at)
        \/ CompleteTask(t, r, o, at)
        \/ ApplyActivePlan(t, r, o, at)
        \/ \E out \in Output, C \in SUBSET Call : SaveToolCalls(t, r, o, at, out, C)
        \/ \E c \in Call : StartToolCall(t, r, o, at, c)
        \/ \E c \in Call, outcome \in Outcome : CompleteToolCall(t, r, o, at, c, outcome)
        \/ \E C \in SUBSET Call : \E deadline \in [C -> {None, at + AnswerTtl}] :
                WaitForUserInput(t, r, o, at, C, deadline)
  BY DEF WorkerNext
<1>2. CASE StartTaskRun(t, taskVersion[t], r, o, at)
  BY <1>2, NumberedWithStart DEF StartTaskRun
<1>3. CASE \/ RenewTaskRunOwnership(t, r, o, at)
           \/ ApplyActivePlan(t, r, o, at)
           \/ \E out \in Output, C \in SUBSET Call : SaveToolCalls(t, r, o, at, out, C)
           \/ \E c \in Call : StartToolCall(t, r, o, at, c)
           \/ \E c \in Call, outcome \in Outcome : CompleteToolCall(t, r, o, at, c, outcome)
  <2>1. StartsNoRun
    BY <1>3 DEF StartsNoRun, VersionMoves, RenewTaskRunOwnership, ApplyActivePlan,
       SaveToolCalls, StartToolCall, CompleteToolCall
  <2>. QED
    BY <2>1, AllNumberedWithoutStart
<1>4. CASE FailTask(t, taskVersion[t], r, o, at) \/ CompleteTask(t, r, o, at)
  <2>1. StartsNoRun
    BY <1>4 DEF StartsNoRun, VersionMoves, FailTask, CompleteTask, OwnsRun,
       CloseRuns, MoveTask, Inv, TypeOK
  <2>. QED
    BY <2>1, AllNumberedWithoutStart
<1>5. CASE \E C \in SUBSET Call : \E deadline \in [C -> {None, at + AnswerTtl}] :
                WaitForUserInput(t, r, o, at, C, deadline)
  <2>1. StartsNoRun
    BY <1>5 DEF StartsNoRun, VersionMoves, WaitForUserInput, OwnsRun, CloseRuns,
       MoveTask, Inv, TypeOK
  <2>. QED
    BY <2>1, AllNumberedWithoutStart
<1>. QED
  BY <1>1, <1>2, <1>3, <1>4, <1>5

LEMMA ApiNextNumbered ==
    ASSUME Inv, AllNumbered, ApiNext
    PROVE  AllNumbered'
<1>1. PICK t \in Task :
        \/ CancelTask(t, taskVersion[t])
        \/ ReconcileCreatedTask(t, taskVersion[t])
        \/ \E at \in CallerTime : ReconcileRunningTask(t, taskVersion[t], at)
        \/ \E c \in Call, at \in CallerTime : ExpireUserInput(t, c, at)
        \/ \E c \in Call, at \in CallerTime, a \in ClientAnswer, r \in Run, o \in Owner :
              AnswerUserInput(t, c, a, r, o, at)
  BY DEF ApiNext
<1>2. CASE CancelTask(t, taskVersion[t])
  <2>1. StartsNoRun
    BY <1>2 DEF StartsNoRun, VersionMoves, CancelTask, CancelLockedTasks, Cancellable,
       OpenRuns, CloseRuns, Inv, TypeOK
  <2>. QED
    BY <2>1, AllNumberedWithoutStart
<1>3. CASE ReconcileCreatedTask(t, taskVersion[t])
  <2>1. StartsNoRun
    BY <1>3 DEF StartsNoRun, VersionMoves, ReconcileCreatedTask, MoveTask, Inv, TypeOK
  <2>. QED
    BY <2>1, AllNumberedWithoutStart
<1>4. ASSUME NEW at \in CallerTime, ReconcileRunningTask(t, taskVersion[t], at)
      PROVE  AllNumbered'
  <2>1. PICK r \in Run : CloseRuns({r}, "interrupted")
    BY <1>4 DEF ReconcileRunningTask
  <2>2. taskStatus[t] = "running" /\ MoveTask(t, "failed")
    BY <1>4 DEF ReconcileRunningTask
  <2>3. StartsNoRun
    BY <2>1, <2>2 DEF StartsNoRun, VersionMoves, CloseRuns, MoveTask, Inv, TypeOK
  <2>. QED
    BY <2>3, AllNumberedWithoutStart
<1>5. CASE \E c \in Call, at \in CallerTime : ExpireUserInput(t, c, at)
  <2>1. StartsNoRun
    BY <1>5 DEF StartsNoRun, VersionMoves, ExpireUserInput, CloseRuns, MoveTask,
       Inv, TypeOK
  <2>. QED
    BY <2>1, AllNumberedWithoutStart
<1>6. ASSUME NEW c \in Call, NEW at \in CallerTime, NEW a \in ClientAnswer,
             NEW r \in Run, NEW o \in Owner, AnswerUserInput(t, c, a, r, o, at)
      PROVE  AllNumbered'
  <2>1. CASE LastQuestion(t, c)
    BY <1>6, <2>1, NumberedWithStart DEF AnswerUserInput
  <2>2. CASE ~LastQuestion(t, c)
    <3>1. StartsNoRun
      BY <1>6, <2>2 DEF StartsNoRun, VersionMoves, AnswerUserInput
    <3>. QED
      BY <3>1, AllNumberedWithoutStart
  <2>. QED
    BY <2>1, <2>2
<1>. QED
  BY <1>1, <1>2, <1>3, <1>4, <1>5, <1>6

LEMMA RunsStayNumbered == Spec => []AllNumbered
<1>1. Init => AllNumbered
  <2> SUFFICES ASSUME Init, NEW t \in Task PROVE Numbered(t)
    BY DEF AllNumbered
  <2>1. RunsOf(t) = {} /\ RunningRuns(t) = {}
    BY NoneAssumption DEF Init, RunsOf, RunningRuns
  <2>2. IsFiniteSet({}) /\ Cardinality({}) = 0
    BY FS_EmptySet
  <2>. QED
    BY <2>1, <2>2 DEF Numbered, Init
<1>2. ASSUME Inv, AllNumbered, [Next]_vars PROVE AllNumbered'
  <2>1. CASE Tick \/ UNCHANGED vars
    <3>1. StartsNoRun
      BY <2>1 DEF Tick, StartsNoRun, VersionMoves
    <3>. QED
      BY <3>1, <1>2, AllNumberedWithoutStart
  <2>2. CASE SessionNext
    BY <2>2, <1>2, SessionNextNumbered, AllNumberedWithoutStart
  <2>. QED
    BY <1>2, <2>1, <2>2, WorkerNextNumbered, ApiNextNumbered DEF Next
<1>. QED
  BY <1>1, <1>2, Invariance, PTL DEF Spec

(* The runs of a task are numbered without gap, only the last can be       *)
(* running, and a caller whose version matches has seen the newest run     *)
(* (startTaskRun and answerUserInput, insertRunningRun).                   *)
THEOREM RunsAreNumbered == Spec => []RunsNumberedByVersion
<1>1. ASSUME Inv, AllNumbered PROVE RunsNumberedByVersion
  <2>1. ASSUME NEW t \in Task
        PROVE  LET runs == {r \in Run : runTask[r] = t}
                   k == Cardinality(runs)
               IN /\ {runNo[r] : r \in runs} = 1 .. k
                  /\ \A r \in RunningRuns(t) : runNo[r] = k
                  /\ taskVersion[t] \in
                       CASE taskStatus[t] \in {"absent", "created"} -> {2 * k}
                         [] taskStatus[t] = "running" -> {2 * k - 1}
                         [] taskStatus[t] = "waiting_for_user" -> {2 * k}
                         [] OTHER -> {2 * k, 2 * k + 1}
    <3>1. Numbered(t) /\ taskStatus[t] \in TaskStatus
      BY <1>1 DEF AllNumbered, Inv, TypeOK
    <3>. QED
      BY <3>1 DEF Numbered, RunsOf
  <2>. QED
    BY <2>1 DEF RunsNumberedByVersion
<1>. QED
  BY <1>1, Invariance, RunsStayNumbered, PTL

-----------------------------------------------------------------------------
(* The promise of TaskLifecycle: every command is a step of it, or changes *)
(* nothing a client is told of.                                            *)

(* What the promise calls granted, asked and retired. *)
GrantedRuns == {r \in Run : runStatus[r] # "absent"}
AskedOf == [t \in Task |-> PendingRequests(t)]
RetiredCalls == {c \in Call : reqStatus[c] \in {"answered", "expired", "cancelled"}}

(* The executor of a task, without the choice. *)
ExecutorIsRunning ==
    /\ \A t \in Task : taskStatus[t] # "running" => executorOf[t] = None
    /\ \A r \in Run : runStatus[r] = "running" =>
            runTask[r] \in Task /\ executorOf[runTask[r]] = r

LEMMA ExecutorOfRunningRun == Inv => ExecutorIsRunning
<1> SUFFICES ASSUME Inv PROVE ExecutorIsRunning
  OBVIOUS
<1> USE DEF Inv
<1>1. ASSUME NEW t \in Task, taskStatus[t] # "running"
      PROVE  executorOf[t] = None
  <2>1. RunningRuns(t) = {}
    BY <1>1 DEF ExecutorInv, RunningRuns
  <2>. QED
    BY <2>1 DEF executorOf
<1>2. ASSUME NEW r \in Run, runStatus[r] = "running"
      PROVE  runTask[r] \in Task /\ executorOf[runTask[r]] = r
  <2>1. runTask[r] \in Task
    BY <1>2 DEF TypeOK, RowLinks
  <2>2. RunningRuns(runTask[r]) = {r}
    BY <1>2 DEF ExecutorInv, RunningRuns
  <2>. QED
    BY <2>1, <2>2 DEF executorOf
<1>. QED
  BY <1>1, <1>2 DEF ExecutorIsRunning

LEMMA ExecutorOfNextRunningRun == Inv' => ExecutorIsRunning'
  BY ExecutorOfRunningRun, PTL

-----------------------------------------------------------------------------
(* Parts of a step of the promise. *)

(* Nobody is told when no session, task, run or question changes status. *)
LEMMA Unnoticed ==
    ASSUME UNCHANGED <<sessionStatus, taskSession, taskStatus, runTask, runStatus>>,
           UNCHANGED <<callTask, reqStatus>>
    PROVE  UNCHANGED Lifecycle!lifecycleVars
<1>1. stageOf' = stageOf
  BY DEF stageOf
<1>2. executorOf' = executorOf
  BY DEF executorOf, RunningRuns
<1>3. GrantedRuns' = GrantedRuns
  BY DEF GrantedRuns
<1>4. AskedOf' = AskedOf /\ RetiredCalls' = RetiredCalls
  BY DEF AskedOf, RetiredCalls, PendingRequests
<1>. QED
  BY <1>1, <1>2, <1>3, <1>4
  DEF Lifecycle!lifecycleVars, GrantedRuns, AskedOf, RetiredCalls

(* The commands that end tasks differ in what they write on runs and calls *)
(* but close the same of them.                                             *)
LEMMA EndAllKept ==
    ASSUME Inv, Inv', NEW T \in SUBSET Task, NEW outcome \in TerminalTaskStatus,
           taskStatus' = [t \in Task |-> IF t \in T THEN outcome ELSE taskStatus[t]],
           UNCHANGED <<taskSession, runTask, callTask>>,
           \A r \in Run : runStatus'[r] = "absent" <=> runStatus[r] = "absent",
           \A r \in Run : runTask[r] \notin T =>
               (runStatus'[r] = "running" <=> runStatus[r] = "running"),
           \A c \in Call :
               IF callTask[c] \in T /\ reqStatus[c] = "pending"
               THEN reqStatus'[c] \in {"expired", "cancelled"}
               ELSE reqStatus'[c] = reqStatus[c]
    PROVE  Lifecycle!EndAll(T, outcome)
<1>1. ExecutorIsRunning /\ ExecutorIsRunning'
  BY ExecutorOfRunningRun, ExecutorOfNextRunningRun
<1>2. ASSUME NEW t \in Task
      PROVE  executorOf'[t] = IF t \in T THEN None ELSE executorOf[t]
  <2>1. CASE t \in T
    <3>1. taskStatus'[t] # "running"
      BY <2>1
    <3>. QED
      BY <1>1, <2>1, <3>1 DEF ExecutorIsRunning
  <2>2. CASE t \notin T
    <3>1. RunningRuns(t)' = RunningRuns(t)
      BY <2>2 DEF RunningRuns
    <3>. QED
      BY <2>2, <3>1 DEF executorOf
  <2>. QED
    BY <2>1, <2>2
<1>3. executorOf' = [t \in Task |-> IF t \in T THEN None ELSE executorOf[t]]
  BY <1>2 DEF executorOf
<1>4. GrantedRuns' = GrantedRuns
  BY DEF GrantedRuns
<1>5. AskedOf' = [t \in Task |-> IF t \in T THEN {} ELSE AskedOf[t]]
  BY DEF AskedOf, PendingRequests
<1>6. RetiredCalls' = RetiredCalls \cup UNION {AskedOf[t] : t \in T}
  <2> DEFINE Withdrawn == {c \in Call : callTask[c] \in T /\ reqStatus[c] = "pending"}
  <2>1. \A t \in T : AskedOf[t] = {c \in Call : callTask[c] = t /\ reqStatus[c] = "pending"}
    BY DEF AskedOf, PendingRequests
  <2>2. UNION {AskedOf[t] : t \in T} = Withdrawn
    <3>1. ASSUME NEW c \in UNION {AskedOf[t] : t \in T} PROVE c \in Withdrawn
      BY <2>1
    <3>2. ASSUME NEW c \in Withdrawn PROVE c \in UNION {AskedOf[t] : t \in T}
      <4>1. callTask[c] \in T /\ c \in AskedOf[callTask[c]]
        BY <2>1
      <4>. QED
        BY <4>1
    <3>. QED
      BY <3>1, <3>2
  <2>3. RetiredCalls' = RetiredCalls \cup Withdrawn
    BY DEF RetiredCalls
  <2>. QED
    BY <2>2, <2>3
<1>. QED
  BY <1>3, <1>4, <1>5, <1>6 DEF Lifecycle!EndAll, GrantedRuns, AskedOf, RetiredCalls

LEMMA EndKept ==
    ASSUME Inv, Inv', NEW t \in Task, NEW outcome \in TerminalTaskStatus,
           taskStatus[t] \in ActiveTaskStatus,
           outcome = "completed" => taskStatus[t] = "running",
           taskStatus' = [taskStatus EXCEPT ![t] = outcome],
           UNCHANGED <<sessionStatus, taskSession, runTask, callTask>>,
           \A r \in Run : runStatus'[r] = "absent" <=> runStatus[r] = "absent",
           \A r \in Run : runTask[r] # t =>
               (runStatus'[r] = "running" <=> runStatus[r] = "running"),
           \A c \in Call :
               IF callTask[c] = t /\ reqStatus[c] = "pending"
               THEN reqStatus'[c] \in {"expired", "cancelled"}
               ELSE reqStatus'[c] = reqStatus[c]
    PROVE  Lifecycle!End(t, outcome)
<1>1. taskStatus' = [u \in Task |-> IF u \in {t} THEN outcome ELSE taskStatus[u]]
  BY DEF Inv, TypeOK
<1>2. Lifecycle!EndAll({t}, outcome)
  BY <1>1, EndAllKept
<1>3. stageOf' = stageOf
  BY DEF stageOf
<1>. QED
  BY <1>2, <1>3 DEF Lifecycle!End, Lifecycle!Live

(* A new run takes a task over that no run executes. *)
LEMMA GrantKept ==
    ASSUME Inv, Inv', NEW t \in Task, NEW r \in Run, NEW o, NEW at,
           InsertRunningRun(r, t, o, at), MoveTask(t, "running")
    PROVE  Lifecycle!Grant(t, r)
<1>1. ExecutorIsRunning /\ ExecutorIsRunning'
  BY ExecutorOfRunningRun, ExecutorOfNextRunningRun
<1>2. runTask'[r] = t /\ runStatus'[r] = "running"
  BY DEF Inv, TypeOK, InsertRunningRun
<1>3. executorOf'[t] = r
  BY <1>1, <1>2 DEF ExecutorIsRunning
<1>4. ASSUME NEW u \in Task, u # t
      PROVE  executorOf'[u] = executorOf[u]
  <2>1. RunningRuns(u)' = RunningRuns(u)
    BY <1>4, NoneAssumption DEF Inv, TypeOK, RowLinks, RunningRuns, InsertRunningRun
  <2>. QED
    BY <2>1 DEF executorOf
<1>5. executorOf' = [executorOf EXCEPT ![t] = r]
  <2>1. /\ executorOf = [u \in Task |-> executorOf[u]]
        /\ executorOf' = [u \in Task |-> executorOf'[u]]
    BY DEF executorOf
  <2>. QED
    BY <1>3, <1>4, <2>1
<1>6. r \notin GrantedRuns /\ GrantedRuns' = GrantedRuns \cup {r}
  BY DEF GrantedRuns, InsertRunningRun, Inv, TypeOK
<1>. QED
  BY <1>5, <1>6 DEF Lifecycle!Grant, MoveTask, GrantedRuns

-----------------------------------------------------------------------------
(* Commands on sessions. *)

LEMMA CreateSessionKept ==
    ASSUME Inv, NEW s \in Session, CreateSession(s)
    PROVE  Lifecycle!Open(s)
<1>1. stageOf[s] = "new" /\ stageOf' = [stageOf EXCEPT ![s] = "open"]
  BY DEF stageOf, CreateSession, Inv, TypeOK
<1>2. executorOf' = executorOf
  BY DEF executorOf, RunningRuns, CreateSession
<1>3. GrantedRuns' = GrantedRuns
  BY DEF GrantedRuns, CreateSession
<1>4. AskedOf' = AskedOf /\ RetiredCalls' = RetiredCalls
  BY DEF AskedOf, RetiredCalls, PendingRequests, CreateSession
<1>. QED
  BY <1>1, <1>2, <1>3, <1>4
  DEF Lifecycle!Open, CreateSession, GrantedRuns, AskedOf, RetiredCalls

LEMMA BeginSessionDeletionKept ==
    ASSUME Inv, Inv', NEW s \in Session, BeginSessionDeletion(s)
    PROVE  Lifecycle!Close(s) \/ UNCHANGED Lifecycle!lifecycleVars
<1> DEFINE T == {t \in Task : taskSession[t] = s /\ taskStatus[t] \in ActiveTaskStatus}
<1>1. T = Cancellable({t \in Task : taskSession[t] = s})
  BY DEF Cancellable
<1>2. CASE sessionStatus[s] = "active"
  <2>1. stageOf[s] = "open" /\ stageOf' = [stageOf EXCEPT ![s] = "closed"]
    <3>1. sessionStatus' = [sessionStatus EXCEPT ![s] = "archived"]
      BY DEF BeginSessionDeletion
    <3>2. /\ stageOf = [x \in Session |-> stageOf[x]]
          /\ stageOf' = [x \in Session |-> stageOf'[x]]
      BY DEF stageOf
    <3>3. stageOf[s] = "open" /\ stageOf'[s] = "closed"
      BY <1>2, <3>1 DEF stageOf, Inv, TypeOK
    <3>4. \A x \in Session : x # s => stageOf'[x] = stageOf[x]
      BY <3>1 DEF stageOf, Inv, TypeOK
    <3>. QED
      BY <3>2, <3>3, <3>4
  <2>2. Lifecycle!EndAll(T, "cancelled")
    <3>1. CancelLockedTasks({t \in Task : taskSession[t] = s})
      BY DEF BeginSessionDeletion
    <3>2. taskStatus' = [t \in Task |-> IF t \in T THEN "cancelled" ELSE taskStatus[t]]
      BY <1>1, <3>1 DEF CancelLockedTasks
    <3>3. UNCHANGED <<taskSession, runTask, callTask>>
      BY <3>1 DEF CancelLockedTasks, CloseRuns
    <3>4. \A r \in Run : runStatus'[r] = IF r \in OpenRuns(T) THEN "cancelled"
                                         ELSE runStatus[r]
      BY <1>1, <3>1 DEF CancelLockedTasks, CloseRuns
    <3>5. \A c \in Call :
             IF callTask[c] \in T /\ reqStatus[c] = "pending"
             THEN reqStatus'[c] \in {"expired", "cancelled"}
             ELSE reqStatus'[c] = reqStatus[c]
      BY <1>1, <3>1 DEF CancelLockedTasks, TerminalizedRequests
    <3>6. /\ \A r \in Run : runStatus'[r] = "absent" <=> runStatus[r] = "absent"
          /\ \A r \in Run : runTask[r] \notin T =>
                (runStatus'[r] = "running" <=> runStatus[r] = "running")
      BY <3>4 DEF OpenRuns
    <3>7. T \in SUBSET Task
      OBVIOUS
    <3>. HIDE DEF T
    <3>. QED
      BY <3>2, <3>3, <3>5, <3>6, <3>7, EndAllKept
  <2>. QED
    BY <2>1, <2>2 DEF Lifecycle!Close, Lifecycle!Live
<1>3. CASE sessionStatus[s] = "archived"
  <2>1. T = {}
    BY <1>3 DEF Inv, SessionInv, ArchivedSessionIsQuiet
  <2>2. Cancellable({t \in Task : taskSession[t] = s}) = {}
    BY <1>1, <2>1
  <2>3. UNCHANGED <<sessionStatus, taskSession, taskStatus, runTask, runStatus>>
    BY <1>3, <2>2 DEF BeginSessionDeletion, CancelLockedTasks, CloseRuns, OpenRuns,
       Inv, TypeOK
  <2>4. UNCHANGED <<callTask, reqStatus>>
    BY <2>2 DEF BeginSessionDeletion, CancelLockedTasks, TerminalizedRequests, Inv, TypeOK
  <2>. QED
    BY <2>3, <2>4, Unnoticed
<1>. QED
  BY <1>2, <1>3 DEF BeginSessionDeletion

LEMMA FinalizeDeletionKept ==
    ASSUME Inv, NEW s \in Session, FinalizeDeletion(s)
    PROVE  UNCHANGED Lifecycle!lifecycleVars
<1>1. stageOf' = stageOf
  BY DEF stageOf, FinalizeDeletion, Inv, TypeOK
<1>2. executorOf' = executorOf
  BY DEF executorOf, RunningRuns, FinalizeDeletion
<1>3. GrantedRuns' = GrantedRuns
  BY DEF GrantedRuns, FinalizeDeletion
<1>4. AskedOf' = AskedOf /\ RetiredCalls' = RetiredCalls
  BY DEF AskedOf, RetiredCalls, PendingRequests, FinalizeDeletion
<1>. QED
  BY <1>1, <1>2, <1>3, <1>4
  DEF Lifecycle!lifecycleVars, FinalizeDeletion, GrantedRuns, AskedOf, RetiredCalls

LEMMA CreateTaskWithUserMessageKept ==
    ASSUME Inv, NEW t \in Task, NEW s \in Session, NEW k,
           CreateTaskWithUserMessage(t, s, k)
    PROVE  Lifecycle!Submit(t, s)
<1>1. stageOf[s] = "open" /\ stageOf' = stageOf
  BY DEF stageOf, CreateTaskWithUserMessage, SessionActive, Inv, TypeOK
<1>2. executorOf' = executorOf
  BY DEF executorOf, RunningRuns, CreateTaskWithUserMessage
<1>3. GrantedRuns' = GrantedRuns
  BY DEF GrantedRuns, CreateTaskWithUserMessage
<1>4. AskedOf' = AskedOf /\ RetiredCalls' = RetiredCalls
  BY DEF AskedOf, RetiredCalls, PendingRequests, CreateTaskWithUserMessage
<1>. QED
  BY <1>1, <1>2, <1>3, <1>4
  DEF Lifecycle!Submit, Lifecycle!Live, CreateTaskWithUserMessage, GrantedRuns,
      AskedOf, RetiredCalls

-----------------------------------------------------------------------------
(* Commands on tasks. *)

LEMMA StartTaskRunKept ==
    ASSUME Inv, Inv', NEW t \in Task, NEW v, NEW r \in Run, NEW o, NEW at,
           StartTaskRun(t, v, r, o, at)
    PROVE  Lifecycle!Begin(t, r)
<1>1. Lifecycle!Grant(t, r)
  BY GrantKept DEF StartTaskRun
<1>2. stageOf' = stageOf
  BY DEF stageOf, StartTaskRun
<1>3. AskedOf' = AskedOf /\ RetiredCalls' = RetiredCalls
  BY DEF AskedOf, RetiredCalls, PendingRequests, StartTaskRun
<1>. QED
  BY <1>1, <1>2, <1>3
  DEF Lifecycle!Begin, StartTaskRun, MoveTask, AskedOf, RetiredCalls

LEMMA CompleteTaskKept ==
    ASSUME Inv, Inv', NEW t \in Task, NEW r \in Run, NEW o, NEW at,
           CompleteTask(t, r, o, at)
    PROVE  Lifecycle!End(t, "completed")
<1>1. taskStatus[t] = "running" /\ taskStatus' = [taskStatus EXCEPT ![t] = "completed"]
  BY DEF CompleteTask, OwnsRun, MoveTask
<1>2. UNCHANGED <<sessionStatus, taskSession, runTask, callTask>>
  BY DEF CompleteTask, MoveTask, CloseRuns
<1>3. /\ \A q \in Run : runStatus'[q] = "absent" <=> runStatus[q] = "absent"
      /\ \A q \in Run : runTask[q] # t =>
            (runStatus'[q] = "running" <=> runStatus[q] = "running")
  BY DEF CompleteTask, OwnsRun, CloseRuns
<1>4. \A c \in Call : reqStatus'[c] = reqStatus[c] /\ ~(callTask[c] = t /\ reqStatus[c] = "pending")
  BY DEF CompleteTask, NoActiveChildren
<1>. QED
  BY <1>1, <1>2, <1>3, <1>4, EndKept

LEMMA FailTaskKept ==
    ASSUME Inv, Inv', NEW t \in Task, NEW v, NEW r \in Run, NEW o, NEW at,
           FailTask(t, v, r, o, at)
    PROVE  Lifecycle!End(t, "failed")
<1>1. taskStatus[t] = "running" /\ taskStatus' = [taskStatus EXCEPT ![t] = "failed"]
  BY DEF FailTask, OwnsRun, MoveTask
<1>2. UNCHANGED <<sessionStatus, taskSession, runTask, callTask>>
  BY DEF FailTask, MoveTask, CloseRuns
<1>3. /\ \A q \in Run : runStatus'[q] = "absent" <=> runStatus[q] = "absent"
      /\ \A q \in Run : runTask[q] # t =>
            (runStatus'[q] = "running" <=> runStatus[q] = "running")
  BY DEF FailTask, OwnsRun, CloseRuns
<1>4. \A c \in Call : IF callTask[c] = t /\ reqStatus[c] = "pending"
                      THEN reqStatus'[c] \in {"expired", "cancelled"}
                      ELSE reqStatus'[c] = reqStatus[c]
  BY DEF FailTask, TerminalizedRequests
<1>. QED
  BY <1>1, <1>2, <1>3, <1>4, EndKept

LEMMA CancelTaskKept ==
    ASSUME Inv, Inv', NEW t \in Task, NEW v, CancelTask(t, v)
    PROVE  Lifecycle!End(t, "cancelled") \/ UNCHANGED Lifecycle!lifecycleVars
<1>0. UNCHANGED <<sessionStatus, taskSession, runTask, callTask>>
  BY DEF CancelTask, CancelLockedTasks, CloseRuns
<1>1. CASE taskStatus[t] \in ActiveTaskStatus
  <2>1. Cancellable({t}) = {t}
    BY <1>1 DEF Cancellable
  <2>2. taskStatus' = [taskStatus EXCEPT ![t] = "cancelled"]
    BY <2>1 DEF CancelTask, CancelLockedTasks, Inv, TypeOK
  <2>3. /\ \A q \in Run : runStatus'[q] = "absent" <=> runStatus[q] = "absent"
        /\ \A q \in Run : runTask[q] # t =>
              (runStatus'[q] = "running" <=> runStatus[q] = "running")
    BY <2>1 DEF CancelTask, CancelLockedTasks, CloseRuns, OpenRuns
  <2>4. \A c \in Call : IF callTask[c] = t /\ reqStatus[c] = "pending"
                        THEN reqStatus'[c] \in {"expired", "cancelled"}
                        ELSE reqStatus'[c] = reqStatus[c]
    BY <2>1 DEF CancelTask, CancelLockedTasks, TerminalizedRequests
  <2>. QED
    BY <1>0, <1>1, <2>2, <2>3, <2>4, EndKept
<1>2. CASE taskStatus[t] \notin ActiveTaskStatus
  <2>1. Cancellable({t}) = {}
    BY <1>2 DEF Cancellable
  <2>2. taskStatus' = taskStatus /\ runStatus' = runStatus /\ reqStatus' = reqStatus
    <3>1. /\ taskStatus' = [u \in Task |-> taskStatus[u]]
          /\ runStatus' = [q \in Run |-> runStatus[q]]
          /\ reqStatus' = [c \in Call |-> reqStatus[c]]
      BY <2>1 DEF CancelTask, CancelLockedTasks, CloseRuns, OpenRuns,
         TerminalizedRequests
    <3>2. /\ taskStatus = [u \in Task |-> taskStatus[u]]
          /\ runStatus = [q \in Run |-> runStatus[q]]
          /\ reqStatus = [c \in Call |-> reqStatus[c]]
      BY DEF Inv, TypeOK
    <3>. QED
      BY <3>1, <3>2
  <2>. QED
    BY <1>0, <2>2, Unnoticed
<1>. QED
  BY <1>1, <1>2

LEMMA ReconcileCreatedTaskKept ==
    ASSUME Inv, Inv', NEW t \in Task, NEW v, ReconcileCreatedTask(t, v)
    PROVE  Lifecycle!End(t, "failed")
<1>1. taskStatus[t] = "created" /\ taskStatus' = [taskStatus EXCEPT ![t] = "failed"]
  BY DEF ReconcileCreatedTask, MoveTask
<1>2. UNCHANGED <<sessionStatus, taskSession, runTask, callTask, runStatus, reqStatus>>
  BY DEF ReconcileCreatedTask, MoveTask
<1>3. \A c \in Call : ~(callTask[c] = t /\ reqStatus[c] = "pending")
  BY <1>1 DEF Inv, QuestionInv
<1>. QED
  BY <1>1, <1>2, <1>3, EndKept

LEMMA ReconcileRunningTaskKept ==
    ASSUME Inv, Inv', NEW t \in Task, NEW v, NEW at, ReconcileRunningTask(t, v, at)
    PROVE  Lifecycle!End(t, "failed")
<1>1. taskStatus[t] = "running" /\ taskStatus' = [taskStatus EXCEPT ![t] = "failed"]
  BY DEF ReconcileRunningTask, MoveTask
<1>2. UNCHANGED <<sessionStatus, taskSession, runTask, callTask>>
  BY DEF ReconcileRunningTask, MoveTask, CloseRuns
<1>3. /\ \A q \in Run : runStatus'[q] = "absent" <=> runStatus[q] = "absent"
      /\ \A q \in Run : runTask[q] # t =>
            (runStatus'[q] = "running" <=> runStatus[q] = "running")
  BY DEF ReconcileRunningTask, CloseRuns
<1>4. \A c \in Call : IF callTask[c] = t /\ reqStatus[c] = "pending"
                      THEN reqStatus'[c] \in {"expired", "cancelled"}
                      ELSE reqStatus'[c] = reqStatus[c]
  BY DEF ReconcileRunningTask, TerminalizedRequests
<1>. QED
  BY <1>1, <1>2, <1>3, <1>4, EndKept

-----------------------------------------------------------------------------
(* Commands on calls and questions. *)

(* A call that is saved under a task was nobody's question before. *)
LEMMA SaveToolCallsKept ==
    ASSUME Inv, Inv', NEW t \in Task, NEW r \in Run, NEW o, NEW at, NEW out,
           NEW C \in SUBSET Call, SaveToolCalls(t, r, o, at, out, C)
    PROVE  UNCHANGED Lifecycle!lifecycleVars
<1>1. stageOf' = stageOf
  BY DEF stageOf, SaveToolCalls
<1>2. executorOf' = executorOf
  BY DEF executorOf, RunningRuns, SaveToolCalls
<1>3. GrantedRuns' = GrantedRuns
  BY DEF GrantedRuns, SaveToolCalls
<1>4. AskedOf' = AskedOf
  <2>1. \A c \in C : reqStatus[c] # "pending"
    BY DEF Inv, QuestionInv, SaveToolCalls
  <2>2. \A u \in Task : PendingRequests(u)' = PendingRequests(u)
    BY <2>1 DEF PendingRequests, SaveToolCalls
  <2>. QED
    BY <2>2 DEF AskedOf
<1>5. RetiredCalls' = RetiredCalls
  BY DEF RetiredCalls, SaveToolCalls
<1>. QED
  BY <1>1, <1>2, <1>3, <1>4, <1>5
  DEF Lifecycle!lifecycleVars, SaveToolCalls, GrantedRuns, AskedOf, RetiredCalls

LEMMA WaitForUserInputKept ==
    ASSUME Inv, Inv', NEW t \in Task, NEW r \in Run, NEW o, NEW at,
           NEW C \in SUBSET Call, NEW deadline,
           WaitForUserInput(t, r, o, at, C, deadline)
    PROVE  Lifecycle!Ask(t, C)
<1>1. /\ taskStatus[t] = "running" /\ C # {}
      /\ taskStatus' = [taskStatus EXCEPT ![t] = "waiting_for_user"]
      /\ UNCHANGED <<sessionStatus, taskSession, runTask, callTask>>
  BY DEF WaitForUserInput, OwnsRun, MoveTask, CloseRuns
<1>2. ExecutorIsRunning /\ ExecutorIsRunning'
  BY ExecutorOfRunningRun, ExecutorOfNextRunningRun
<1>3. executorOf' = [executorOf EXCEPT ![t] = None]
  <2>1. executorOf'[t] = None
    BY <1>1, <1>2 DEF ExecutorIsRunning, Inv, TypeOK
  <2>2. ASSUME NEW u \in Task, u # t
        PROVE  executorOf'[u] = executorOf[u]
    <3>1. RunningRuns(u)' = RunningRuns(u)
      BY <2>2 DEF RunningRuns, WaitForUserInput, OwnsRun, CloseRuns
    <3>. QED
      BY <3>1 DEF executorOf
  <2>3. /\ executorOf = [u \in Task |-> executorOf[u]]
        /\ executorOf' = [u \in Task |-> executorOf'[u]]
    BY DEF executorOf
  <2>. QED
    BY <2>1, <2>2, <2>3
<1>4. GrantedRuns' = GrantedRuns
  BY DEF GrantedRuns, WaitForUserInput, OwnsRun, CloseRuns
<1>5. /\ \A c \in C : callTask[c] = t /\ reqStatus[c] = "absent"
      /\ reqStatus' = [c \in Call |-> IF c \in C THEN "pending" ELSE reqStatus[c]]
  BY DEF WaitForUserInput
<1>6. PendingRequests(t) = {}
  BY <1>1 DEF Inv, QuestionInv, PendingRequests
<1>7. AskedOf' = [AskedOf EXCEPT ![t] = C]
  <2>1. PendingRequests(t)' = C
    BY <1>1, <1>5, <1>6 DEF PendingRequests
  <2>2. \A u \in Task : u # t => PendingRequests(u)' = PendingRequests(u)
    BY <1>1, <1>5 DEF PendingRequests
  <2>. QED
    BY <2>1, <2>2 DEF AskedOf
<1>8. C \cap ((UNION {AskedOf[u] : u \in Task}) \cup RetiredCalls) = {}
  <2>1. \A u \in Task : C \cap AskedOf[u] = {}
    BY <1>5 DEF AskedOf, PendingRequests
  <2>2. C \cap RetiredCalls = {}
    BY <1>5 DEF RetiredCalls
  <2>. QED
    BY <2>1, <2>2
<1>9. RetiredCalls' = RetiredCalls
  BY <1>5 DEF RetiredCalls
<1>10. stageOf' = stageOf
  BY <1>1 DEF stageOf
<1>. QED
  BY <1>1, <1>3, <1>4, <1>7, <1>8, <1>9, <1>10
  DEF Lifecycle!Ask, Lifecycle!Asked, GrantedRuns, AskedOf, RetiredCalls

LEMMA AnswerUserInputKept ==
    ASSUME Inv, Inv', NEW t \in Task, NEW c \in Call, NEW a, NEW r \in Run,
           NEW o, NEW at, AnswerUserInput(t, c, a, r, o, at)
    PROVE  Lifecycle!Answer(t, c)
<1>1. /\ callTask[c] = t /\ reqStatus[c] = "pending"
      /\ taskStatus[t] = "waiting_for_user"
      /\ reqStatus' = [reqStatus EXCEPT ![c] = "answered"]
      /\ UNCHANGED <<sessionStatus, callTask>>
  BY DEF AnswerUserInput
<1>2. taskSession' = taskSession
  BY DEF AnswerUserInput, MoveTask
<1>3. c \in AskedOf[t]
  BY <1>1 DEF AskedOf, PendingRequests
<1>4. AskedOf' = [AskedOf EXCEPT ![t] = @ \ {c}]
  <2>1. PendingRequests(t)' = PendingRequests(t) \ {c}
    BY <1>1 DEF PendingRequests, Inv, TypeOK
  <2>2. \A u \in Task : u # t => PendingRequests(u)' = PendingRequests(u)
    BY <1>1 DEF PendingRequests, Inv, TypeOK
  <2>. QED
    BY <2>1, <2>2 DEF AskedOf
<1>5. RetiredCalls' = RetiredCalls \cup {c}
  BY <1>1 DEF RetiredCalls, Inv, TypeOK
<1>6. stageOf' = stageOf
  BY <1>1 DEF stageOf
<1>7. CASE ~LastQuestion(t, c)
  <2>1. UNCHANGED <<taskStatus, runTask, runStatus>>
    BY <1>7 DEF AnswerUserInput
  <2>2. AskedOf[t] # {c}
    BY <1>7 DEF LastQuestion, AskedOf
  <2>3. executorOf' = executorOf
    BY <2>1 DEF executorOf, RunningRuns
  <2>4. GrantedRuns' = GrantedRuns
    BY <2>1 DEF GrantedRuns
  <2>. QED
    BY <1>1, <1>2, <1>3, <1>4, <1>5, <1>6, <2>1, <2>2, <2>3, <2>4
    DEF Lifecycle!Answer, GrantedRuns, AskedOf, RetiredCalls
<1>8. CASE LastQuestion(t, c)
  <2>1. Lifecycle!Grant(t, r)
    BY <1>8, GrantKept DEF AnswerUserInput
  <2>2. AskedOf[t] = {c}
    BY <1>8 DEF LastQuestion, AskedOf
  <2>. QED
    BY <1>1, <1>2, <1>3, <1>4, <1>5, <1>6, <2>1, <2>2
    DEF Lifecycle!Answer, AskedOf, RetiredCalls
<1>. QED
  BY <1>7, <1>8

LEMMA ExpireUserInputKept ==
    ASSUME Inv, Inv', NEW t \in Task, NEW c \in Call, NEW at, ExpireUserInput(t, c, at)
    PROVE  Lifecycle!End(t, "failed")
<1>1. /\ taskStatus[t] = "waiting_for_user"
      /\ taskStatus' = [taskStatus EXCEPT ![t] = "failed"]
  BY DEF ExpireUserInput, MoveTask
<1>2. UNCHANGED <<sessionStatus, taskSession, runTask, callTask>>
  BY DEF ExpireUserInput, MoveTask, CloseRuns
<1>3. /\ \A q \in Run : runStatus'[q] = "absent" <=> runStatus[q] = "absent"
      /\ \A q \in Run : runStatus'[q] = "running" <=> runStatus[q] = "running"
  BY DEF ExpireUserInput, CloseRuns
<1>4. \A d \in Call : IF callTask[d] = t /\ reqStatus[d] = "pending"
                      THEN reqStatus'[d] \in {"expired", "cancelled"}
                      ELSE reqStatus'[d] = reqStatus[d]
  BY DEF ExpireUserInput, TerminalizedRequests, Inv, TypeOK
<1>. QED
  BY <1>1, <1>2, <1>3, <1>4, EndKept

-----------------------------------------------------------------------------
(* The whole next-state relation. *)

LEMMA InitKept == Init => Lifecycle!Init
<1> SUFFICES ASSUME Init PROVE Lifecycle!Init
  OBVIOUS
<1> USE DEF Init
<1>1. stageOf = [s \in Session |-> "new"]
  BY DEF stageOf
<1>2. executorOf = [t \in Task |-> None]
  BY DEF executorOf, RunningRuns
<1>3. GrantedRuns = {} /\ RetiredCalls = {}
  BY DEF GrantedRuns, RetiredCalls
<1>4. AskedOf = [t \in Task |-> {}]
  BY DEF AskedOf, PendingRequests
<1>. QED
  BY <1>1, <1>2, <1>3, <1>4 DEF Lifecycle!Init, GrantedRuns, AskedOf, RetiredCalls

LEMMA SessionNextKept ==
    ASSUME Inv, Inv', SessionNext
    PROVE  [Lifecycle!Next]_Lifecycle!lifecycleVars
<1>1. PICK s \in Session :
        \/ CreateSession(s)
        \/ BeginSessionDeletion(s)
        \/ FinalizeDeletion(s)
        \/ \E t \in Task, k \in ClientRequest \cup {None} :
                CreateTaskWithUserMessage(t, s, k)
  BY DEF SessionNext
<1>2. CASE CreateSession(s)
  BY <1>2, CreateSessionKept DEF Lifecycle!Next
<1>3. CASE BeginSessionDeletion(s)
  BY <1>3, BeginSessionDeletionKept DEF Lifecycle!Next
<1>4. CASE FinalizeDeletion(s)
  BY <1>4, FinalizeDeletionKept
<1>5. CASE \E t \in Task, k \in ClientRequest \cup {None} :
                CreateTaskWithUserMessage(t, s, k)
  BY <1>5, CreateTaskWithUserMessageKept DEF Lifecycle!Next
<1>. QED
  BY <1>1, <1>2, <1>3, <1>4, <1>5

LEMMA WorkerNextKept ==
    ASSUME Inv, Inv', WorkerNext
    PROVE  [Lifecycle!Next]_Lifecycle!lifecycleVars
<1>1. PICK t \in Task, r \in Run, o \in Owner, at \in CallerTime :
        \/ StartTaskRun(t, taskVersion[t], r, o, at)
        \/ RenewTaskRunOwnership(t, r, o, at)
        \/ FailTask(t, taskVersion[t], r, o, at)
        \/ CompleteTask(t, r, o, at)
        \/ ApplyActivePlan(t, r, o, at)
        \/ \E out \in Output, C \in SUBSET Call : SaveToolCalls(t, r, o, at, out, C)
        \/ \E c \in Call : StartToolCall(t, r, o, at, c)
        \/ \E c \in Call, outcome \in Outcome : CompleteToolCall(t, r, o, at, c, outcome)
        \/ \E C \in SUBSET Call : \E deadline \in [C -> {None, at + AnswerTtl}] :
                WaitForUserInput(t, r, o, at, C, deadline)
  BY DEF WorkerNext
<1>2. CASE StartTaskRun(t, taskVersion[t], r, o, at)
  BY <1>2, StartTaskRunKept DEF Lifecycle!Next
<1>3. CASE RenewTaskRunOwnership(t, r, o, at)
  BY <1>3, Unnoticed DEF RenewTaskRunOwnership
<1>4. CASE FailTask(t, taskVersion[t], r, o, at)
  <2>1. Lifecycle!End(t, "failed")
    BY <1>4, FailTaskKept
  <2>. QED
    BY <2>1 DEF Lifecycle!Next, Lifecycle!Ended
<1>5. CASE CompleteTask(t, r, o, at)
  <2>1. Lifecycle!End(t, "completed")
    BY <1>5, CompleteTaskKept
  <2>. QED
    BY <2>1 DEF Lifecycle!Next, Lifecycle!Ended
<1>6. CASE ApplyActivePlan(t, r, o, at)
  BY <1>6, Unnoticed DEF ApplyActivePlan
<1>7. CASE \E out \in Output, C \in SUBSET Call : SaveToolCalls(t, r, o, at, out, C)
  BY <1>7, SaveToolCallsKept
<1>8. CASE \E c \in Call : StartToolCall(t, r, o, at, c)
  BY <1>8, Unnoticed DEF StartToolCall
<1>9. CASE \E c \in Call, outcome \in Outcome : CompleteToolCall(t, r, o, at, c, outcome)
  BY <1>9, Unnoticed DEF CompleteToolCall
<1>10. CASE \E C \in SUBSET Call : \E deadline \in [C -> {None, at + AnswerTtl}] :
                WaitForUserInput(t, r, o, at, C, deadline)
  BY <1>10, WaitForUserInputKept DEF Lifecycle!Next
<1>. QED
  BY <1>1, <1>2, <1>3, <1>4, <1>5, <1>6, <1>7, <1>8, <1>9, <1>10

LEMMA ApiNextKept ==
    ASSUME Inv, Inv', ApiNext
    PROVE  [Lifecycle!Next]_Lifecycle!lifecycleVars
<1>1. PICK t \in Task :
        \/ CancelTask(t, taskVersion[t])
        \/ ReconcileCreatedTask(t, taskVersion[t])
        \/ \E at \in CallerTime : ReconcileRunningTask(t, taskVersion[t], at)
        \/ \E c \in Call, at \in CallerTime : ExpireUserInput(t, c, at)
        \/ \E c \in Call, at \in CallerTime, a \in ClientAnswer, r \in Run, o \in Owner :
              AnswerUserInput(t, c, a, r, o, at)
  BY DEF ApiNext
<1> SUFFICES \/ \E c \in Call : Lifecycle!Answer(t, c)
             \/ Lifecycle!End(t, "failed")
             \/ Lifecycle!End(t, "cancelled")
             \/ UNCHANGED Lifecycle!lifecycleVars
  BY DEF Lifecycle!Next, Lifecycle!Ended
<1>2. CASE CancelTask(t, taskVersion[t])
  BY <1>2, CancelTaskKept
<1>3. CASE ReconcileCreatedTask(t, taskVersion[t])
  BY <1>3, ReconcileCreatedTaskKept
<1>4. CASE \E at \in CallerTime : ReconcileRunningTask(t, taskVersion[t], at)
  BY <1>4, ReconcileRunningTaskKept
<1>5. CASE \E c \in Call, at \in CallerTime : ExpireUserInput(t, c, at)
  BY <1>5, ExpireUserInputKept
<1>6. CASE \E c \in Call, at \in CallerTime, a \in ClientAnswer, r \in Run, o \in Owner :
              AnswerUserInput(t, c, a, r, o, at)
  BY <1>6, AnswerUserInputKept
<1>. QED
  BY <1>1, <1>2, <1>3, <1>4, <1>5, <1>6

LEMMA NextKept == Inv /\ [Next]_vars => [Lifecycle!Next]_Lifecycle!lifecycleVars
<1> SUFFICES ASSUME Inv, [Next]_vars
             PROVE  [Lifecycle!Next]_Lifecycle!lifecycleVars
  OBVIOUS
<1>1. Inv'
  BY NextInv
<1>2. CASE Tick
  BY <1>2, Unnoticed DEF Tick
<1>3. CASE UNCHANGED vars
  BY <1>3, Unnoticed
<1>. QED
  BY <1>1, <1>2, <1>3, SessionNextKept, WorkerNextKept, ApiNextKept DEF Next

(* Every behaviour of the store is one the clients of a session were       *)
(* promised: a task is handed from run to run, asks each question once and *)
(* ends once, however many sessions, workers and calls there are           *)
(* (the commands of src/storage/postgres/commands, all of them).           *)
THEOREM StoreKeepsLifecycle == Spec => KeepsLifecycle
  BY InitKept, NextKept, Invariance, PTL DEF Spec, KeepsLifecycle, Lifecycle!Spec

(* At most one run executes in a session, and none in one that is closed:  *)
(* what the two partial unique indexes and the cancellation inside         *)
(* beginSessionDeletion give together.                                     *)
THEOREM SessionsHaveOneExecutor == Spec => []OneExecutorPerSession
<1>1. ASSUME Inv PROVE OneExecutorPerSession
  <2>1. ASSUME NEW t \in Task, executorOf[t] # None
        PROVE  /\ taskStatus[t] = "running"
               /\ taskSession[t] \in Session
               /\ stageOf[taskSession[t]] = "open"
    <3>1. taskStatus[t] = "running"
      BY <1>1, <2>1, ExecutorOfRunningRun DEF ExecutorIsRunning
    <3>2. taskSession[t] \in Session
      BY <1>1, <3>1 DEF Inv, TypeOK, RowLinks
    <3>3. sessionStatus[taskSession[t]] = "active"
      BY <1>1, <3>1 DEF Inv, SessionInv, ArchivedSessionIsQuiet
    <3>. QED
      BY <3>1, <3>2, <3>3 DEF stageOf
  <2>2. \A t, u \in Task :
           executorOf[t] # None /\ executorOf[u] # None
           /\ taskSession[t] = taskSession[u] => t = u
    BY <1>1, <2>1 DEF Inv, SessionInv
  <2>. QED
    BY <2>1, <2>2 DEF OneExecutorPerSession, Lifecycle!OneExecutorPerSession
<1>. QED
  BY <1>1, Invariance, PTL
==============================================================================
