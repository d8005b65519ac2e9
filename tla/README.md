# Verification of the agent runtime

TLA+ specifications of the agent runtime in `src/src`, the TLC configurations
that check them on small instances, and proofs that TLAPS checks. Paths below
are relative to `src/`. A definition of a module stands for the lines that
`PROJECT.json` gives it under `map`.

## 1. The system

A client creates a *session* and sends messages to it. Each message becomes a
*task*. A worker executes a task in *runs*: it calls the model, stores the tool
calls the model asks for, executes them one after the other, feeds the results
back, and completes the task with the model's last answer. A tool may ask the
user a question; then the run pauses, the task waits, and the last answer
starts a new run. Everything is recorded in PostgreSQL; the process keeps only
what it can lose, and development servers that tools have started outlive it.

| Component | State | Operations | What is hard | What makes it correct |
|---|---|---|---|---|
| Task store (`src/storage/postgres/commands`) | the rows of sessions, tasks, runs, tool calls, questions, the active plan | one transaction per command, under the lock of the session row | callers act on old snapshots and old clocks; several commands end a task; batches of questions | one executor per task; a task waits exactly while questions are open; what is over stays over and is closed; started side effects are accounted for |
| Executor and ownership (`src/orchestration/tasks`) | executions by run, abort signals, the lease this process believes in | execute, abort, shut down, renew | steps between an await and its use; renewals that fail or come late; crash and restart | a tool is invoked at most once; nobody is aborted before the database says so; a worker never believes in a lease longer than the store's |
| Startup reconciliation (`shared/interrupted-task-scanner.ts`) | none | expire questions, fail interrupted tasks, settle abandoned model calls | runs once; a lease may still be alive | every task and model call a crash left behind ends |
| Flows (`flows/`) | none | create, cancel, answer | two transactions with a crash between; a version that moved | a request creates one task; a retry finishes what a crash left |
| Agent loop, durable loop, event handler, tool executor (`src/runtime`) | the batch of calls of a turn, corrections, budgets | one model turn, one tool, one commit at a time | the consumer commits before the generator goes on; errors on either side; a budget over several runs | no tool runs before its call is stored; every call of a stored batch is settled or its task is over; no limit is passed, or hit too early |
| Model calls and usage (`model-context.commands.ts`, `audited-chat-model.ts`) | rows of model calls, usage counters | start, complete, abandon, judge | two lock orders; a completion after an abandonment; lost replies | each call is settled and counted once |
| Context and compaction (`src/runtime/context`) | none (the compaction row) | group messages, choose a cutoff, compact | a cutoff computed from an old snapshot; ids of calls that come again | no group is cut; nothing vanishes but into a summary; the cutoff only grows |
| Managed processes (`managed-process-manager.ts`) | the registry, launch specs on disk, supervisors, ports | start, stop, refresh, adopt, shut down | exits between checks; refreshes that are older than the question; restart of the runtime | one process per call; a stop that answered is true; the registry converges to what runs |
| Session deletion (`agent-runtime.ts`) | the archived session, the workspace, the event stream | fence, abort, stop processes, remove the workspace, delete | every step may fail; retries and overlaps | nothing is left behind; no known process loses its files |
| View and events (`src/view`, `task-event-publisher.ts`, `runtime-event-bus.ts`) | listeners | publish after commit, load the view | events of different flows change places; a view that is loaded between them | once all is published, a client shows what is stored |
| HTTP, configuration, file, shell and browser tools | none that others share | - | - | input validation |

The store is called by the flows (with the version of the task the client
saw), by the executor's loop (with the run and the owner it was started with)
and by the scan at startup. The only shared memory inside a process is the map
of executions and their abort signals, the registry of managed processes with
the one refresh under way, and the listeners of the event bus. The deletion of
a session drives three of the others: the store (fence and final removal), the
executor (abort and wait) and the manager (list and stop).

## 2. Modules

| Module | What it is |
|---|---|
| `TaskStore` | the store: one variable per column the commands read back, one action per command |
| `TaskLifecycle` | the abstract promise to the clients of a session: no tables, clocks, owners or versions |
| `TaskStoreLifecycle` | the refinement mapping from the rows to the promise |
| `MCTaskStore` | `TaskStoreLifecycle` with symmetry sets, for `TaskStore.cfg` |
| `TaskStoreProofs` | the inductive invariant of the store with one lemma per command, the theorems that follow, and the proof that the store implements `TaskLifecycle`, again one lemma per command |
| `TaskWorkers` | the process on top of the store: flows, executions, the loop, shutdown, crash, restart, the scan at startup |
| `MCTaskWorkers` | its symmetry sets |
| `TaskWorkersProofs` | its inductive invariants and theorems, on top of those of the store |
| `ExecutionOwnership` | one run, one worker: the timer that renews the lease, the renewals and their replies |
| `ExecutionOwnershipProofs` | its inductive invariant and theorems |
| `AgentTurns` | the turns of one task over all its runs: batches, budgets, stops |
| `AgentTurnsProofs` | its inductive invariant and theorems |
| `ManagedProcesses`, `MCManagedProcesses` | the registry of development servers against the operating system |
| `SessionDeletion`, `MCSessionDeletion` | extends `ManagedProcesses` with the deletion of their session |
| `SessionDeletionProofs` | the invariants and theorems of both |
| `ModelCalls`, `MCModelCalls` | the audit of model calls, statement by statement, with row locks |
| `ModelCallsProofs` | its inductive invariant and theorems |
| `ContextCompaction`, `MCContextCompaction` | the model's input and its compaction |
| `ContextCompactionProofs` | the sum of tokens, the groups of rows, its inductive invariant and theorems |
| `SessionEvents`, `MCSessionEvents` | events after commits, the view, and a client that follows them |
| `SessionEventsProofs` | its inductive invariant and theorems |
| `TaskStoreDocs`, `TaskWorkersDocs`, `ManagedProcessesDocs`, `SessionDeletionDocs`, `ContextCompactionDocs`, `SessionEventsDocs` | sentences of `docs/`, comments and tests that the code does not keep (section 3) |

Two operators with a common stem, `X` and `X_Fault`, are the code and the same
code with a plausible bug; `PROJECT.json` lists, under `mutants`, which
property notices which. Nothing else refers to an `X_Fault`.

### TaskStore

*State.* `taskStatus`, `runExpiry`, `callResult` and so on are columns; a row
that does not exist has status `"absent"`. `callResult` says whether the tool
message exists and what it reports; `callOutput` stands for the message of the
model a batch of calls came from. A question has the identifier of its call
(`unique (tool_call_id)`). `now` is the clock of the machine.

*Actions.* Every command is one transaction that locks the session row first,
so it is one action. A command that throws rolls back, and one that finds its
work done returns what is stored: neither has an action. The guard is the
conjunction of the checks the command makes; the effect includes every row it
touches, also those of `terminalizeTaskChildren`, `cancelLockedTask` and
`clearActivePlan`. Renewal is a single UPDATE without the session lock, and
has only the checks of its `where` clause.

*Time.* A caller reads its clock before it gets a connection and the lock, so a
command works with any time up to now (`CallerTime`). A lease is granted from
that time.

*Versions.* The version a caller expects is the one the task has when the
command runs: a caller with another version throws. That the version tells
the statuses of a task apart is `RunsNumberedByVersion`.

*Abstracted.* Texts, arguments, checksums, JSON schemas of questions, error
codes, artifacts, and the checks that compare a repeated request with the
stored one (they decide between returning the stored row and throwing).

### TaskLifecycle

Sessions are new, open or closed; a task has a status, at most one executor,
and the set of questions it waits for. An executor that let go of its task
never gets it back, and a question that was answered or withdrawn is never
asked again. `TaskStoreLifecycle` maps the executor to the run that is
`running`, the questions to the requests that are `pending`.

### TaskWorkers

`TaskStore` lets any caller send any command. `TaskWorkers` extends it with the
callers: every change of a row is a command of `TaskStore`, and this module says
who sends it, when, and what becomes of the reply.

*State.* `up`, `owner` and `scanAt` are the process: what it is doing, its
worker id, and the clock the scan at startup read. `exec[r]` is the execution of
run `r`: `stage` is where its code awaits, `signal` the reason its
`AbortController` was given, `left`, `current` and `asked` the batch of calls it
works on, `seen` the version of the task it was loaded with. `starting` and
`abortDue` are flows between two awaits: a created task that is to be started,
a fenced task whose executions are to be aborted. `modelCalls` and `createdAt`
are columns `TaskStore` does not need. `invoked` is history: nothing reads it.

*Actions.* An execution goes `loading` (`Load`), `loaded` (`Register`),
`thinking` (`CallModel`), `modelling`, and then by the model's answer to
`FinalAnswer`, `Correct`, `GiveUp` or `SaveBatch`; `calling` takes the calls one
by one (`StartTool`, `InvokeTool` or `SkipTool`, `ToolReturns` or `ToolAsks`,
`Report`), and `Ask` or `NextTurn` when none is left. `failing` and `cancelling`
are `failTask` and `completeCancellation`. `Stops` is each place where the
signal is looked at or an `AbortError` is caught. The refusals by the fence have
actions of their own (`SaveRefused`, `StartRefused`, `ReportRefused`,
`AskRefused`), since they decide how an execution ends. `Flow` is what a request
of a client does; `Boot`, `Scan` and `ScanEnds` are `application.start()`.

*Ends.* An execution is `ended` when its code came to its end knowing what the
store holds, and `abandoned` when it was cut off: by an error of the store
outside the `try` of `executeDurableAgentLoop`, a lost reply, a shutdown, a
lost lease, or the death of the process. `TaskNotStranded` is about the first
kind; the second is left to the scan of the next start (`ScanClosesLapsed`).

*Abstracted.* A command and its reply are one step, after which the reply may
be lost. A transaction under way when the process dies is rolled back or was
committed. One process runs at a time; that a second one has another worker id
is the easier case, because the fence tells them apart, so the configurations
give all incarnations the same id (`runtime.workerId` may be configured). When
renewals are sent and how late they are is the subject of `ExecutionOwnership`:
here a worker renews, or gives its lease up, at any time. Budgets of time and
tool calls, exclusive tools and the rules of a batch appear as choices
(`GiveUp`, `Correct`); they are the subject of `AgentTurns`. The plan tool and the
final removal of a session have no action here.

### ExecutionOwnership

`TaskStore` has a renewal as one step. Here it is what
`execution-ownership.service.ts` makes of it: a timer of the event loop, a
request that carries the time it was sent, the UPDATE, a reply, and the promise
the worker awaits.

*State.* `running` and `lease` are the row; `confirmedUntil` is the variable of
that name, `refreshes` the request whose promise is not settled
(`refreshInProgress` is `refreshes # {}`), `nextTimer` the interval. `orphans`
are requests whose connection broke before the store executed them: it may do
so later, or never. `ownershipLost` is the abort the worker gives itself;
`stopped` any other end of the execution.

*Actions.* One per branch of the interval's callback (`TimerFindsLeaseExpired`,
`TimerSendsRefresh`, `TimerWhileRefreshing`), one per way a renewal goes in the
store and on the wire (`StoreRenews`, `StoreRefuses`, `ConnectionBreaks`,
`OrphanExecutes`), one per branch of the reply's handlers (`RefreshSucceeds`,
`RefreshFails`, `RefreshIgnored`). `RunCloses` is any command that ends the run.

*Abstracted.* Where a lost connection lost what: a reply that is lost after the
UPDATE is the reply `broken`.

### AgentTurns

`TaskWorkers` has one execution, and the rest of the system around it, in every
step; what a turn decides is a choice there. Here is what it decides, over all
the runs of one task, with nobody else at the task.

*State.* `calls` are the rows of tool calls in their order: the kind of the
tool, the model's output it belongs to, which calls the model knew when it made
it, and its status. `loop` is the generator of `AgentLoop.run`: where it awaits,
its two counters, the messages it loaded, its place in the batch. `reactCalls`
and `compacting` are the rows of model calls, which `getTaskRunProgress` counts
to give a new run its counters. `stop` holds the deadline and the signal once
they are due; `invoked` and `afterStop` are history.

*Actions.* One per stage of a turn and per way to leave it; the actions of
`TaskWorkers` with the same names are the same code. `Accepts` is
`ToolCallPolicy`, `Exceeds` the budget, which is looked at after the batch is
stored; `Preflight` is the check before a tool, two awaits before its
invocation.

*Abstracted.* Corrections of malformed calls and of empty outputs
(`TaskWorkers.Correct`), drafts, and everything the fence of the store does.

### ManagedProcesses

*State.* The truth is what the operating system runs (`supervisor`, `serving`,
`port`) and what is on disk (`spec`, the `process.json` of a call). `registry`
is the manager's map of records, empty in a new process of the runtime.
`refresh` is `refreshPromise` with its list from `ps`; `start` and `stop` are
the calls of `startProcess` and `stopProcess` at their awaits; `watched` are the
processes whose `exit` event has a listener.

*Actions.* A refresh is `ListSupervisors`, one `Probe` for each supervisor of
the list, and `FinishRefresh`, whose sweep and whose continuations of all who
wait happen in one turn of the event loop. Whoever asks while one is under way
joins it (`JoinRefresh`), also if its list is older than the question: the field
`spawned` remembers what the list could know. `startProcess` goes `refreshing`
(`StartProcess`), `checked`, `allocated` (`AllocatePort`), `writing`
(`WriteSpec`, with the flag `wx`), `waiting` (`Spawn`) and its three ends;
`stopProcess` goes `refreshing`, `finding`, `terminating`, `returned`.
`SupervisorExits`, `ServerListens` and `ServerCloses` are the operating system,
`GoDown` and `Boot` the runtime, which serves after its first refresh.

*Abstracted.* Names, commands and hosts and their checks, the log and its tail.
A process id is not used again between a check and the action on it.
`Terminated` ends a supervisor that is alive for certain: it is sent SIGKILL
after the grace. A supervisor that has exited is not signalled, and neither is
what it left behind (`managed-process-manager.ts:760`): the state has such
servers (`serving` without `Alive`), and nothing ends them.

### SessionDeletion

Extends `ManagedProcesses` for one session, and composes it with what
`AgentRuntime.deleteSession` needs of the store and the executor: `row` (the
session's status), `execution` (for each creation of the session one execution
at a time: loaded, running, starting a tool, or in it, with the `start_process`
it is at), `made` (the calls `startToolCall` has let start: it refuses one that
is not pending, `tool-call.commands.ts:139`), `files` (the workspace), `stream`
(the event stream), and of each request `deletion[d]`: its stage, the executions
it waits for (`waits`), the processes it stops.
A stop of the manager has the slot `<<d, p>>` of the deletion that asked for it.

*Executions.* `TaskExecutor.execute` awaits the load of the run
(`LoadExecution`, `task-executor.ts:73`) and registers the execution after it
(`RegisterExecution`, `:84`), without another look at the store. A deletion that
falls in between finds nothing to abort and goes on; the execution then works
for a session that is fenced, gone, or created again under the same id. Its next
command is refused (`StartTool` asks for the very session it was loaded for), so
it ends by itself. `NothingIsLeft` says that it reaches no tool; that it is there
at all contradicts a sentence of the documentation (`DeletedSessionHasNoExecution`,
section 3). `AbortExecutions` waits for all executions registered under the session
id, those of an earlier creation included.

*Actions.* `deleteSession` step by step: `BeginDeletion` (the fence),
`AbortExecutions` and the wait with its bound (`GraceIsOver`), `ListProcesses`,
`StopProcesses`, `RemoveWorkspace`, `FinalizeDeletion`, `CloseStream`. Each step
may fail, and the runtime may crash (`Crash`); the request is made again, also
while another one is under way, and `CreateSession`, with the `openSession` of the
controller, may give the same id a new life (a client request id is hashed into it).

*What does not carry over.* The workspace holds the launch specs, so its removal
takes `spec` away under the manager's feet: a process that the list did not show
yet becomes one that no refresh will ever list again. `StoppedIsGone` and the
convergence of the registry are therefore stated of `ManagedProcesses` alone,
and `ListedProcessesAreStopped` only of what was there when the list was made.
`OneProcessPerCall` does carry over, though the spec that makes the manager
refuse a second spawn may be gone: `made` is what it rests on then.

*Requests that overlap.* `NothingIsLeft` needs one of two things: the session is
created once, or no request for its deletion begins before the one before it has
returned. Otherwise a slow request may be about to remove the row when a quicker
one has removed it, a client has created the session again, and a third request
has fenced the new life and waits for its execution: `finalizeDeletion` asks only
whether the row is archived, and the slow request removes that one. TLC finds it
with two deleters and two lives. The configurations have two of one and one of the
other, and `DeletedSessionsAreClean` states the condition.

### ModelCalls

*State.* The columns `status` and `disposition` of `agent_model_calls`, the
counter of calls in `agent_model_usage_stats`, whether the session is active and
how each call's run stands. `model` is what `AuditedChatModel` does with the
call, with the attempt (`try`, `catch`, `finally`) that is writing; `tx` is the
statement its transaction waits at, `scan` the transaction of
`abandonStartedModelCalls`.

*Actions.* The two transactions lock the same three rows in different orders, so
each statement is a step that waits for its lock; what was written is seen by
others at the commit. PostgreSQL looks at a row again once it gets its lock
(`Takes`). `Deadlocked` is the cycle, `AbortVictim` its end, in favour of either
side. A commit whose answer is lost (`CommitUnanswered`) makes the catch settle
the call again.

*Abstracted.* Tokens, prices, checksums and manifests. Starting a call and the
commands of a task lock one row and stay single steps.

### ContextCompaction

*State.* `messages` are the rows of a session, each with its task, role, scope,
the ids of its calls and its number of tokens; `compaction` is the row of
`agent_context_compactions`, its text standing for the set of the rows it was
made from (`covers`), with the goals that compactions have left behind the cutoff
(`omits`, a history no action reads); `worker[t]` is the builder of the execution of task `t`,
with the snapshot it works on.

*Definitions.* `ProjectMessageGroups`, `InputRows`, `GroupsAfterCompaction`,
`OldConversationGroups` and `CompactionBatch` are the algorithms, as sets of
rows. The properties compare them with `ConversationGroups`, which says without
them what belongs together: a text, or calls with the answers the same task gave.

*What may be missing.* A compaction takes everything up to its cutoff but the goal
of its own task (`LeftOut`), which that task keeps as a message and every later one
has lost: `ConversationStaysVisible` (section 3). `NothingElseIsLost` and
`InputsAreWhole` exempt these goals and no other message. The user message of a
task that never compacted, or whose compactions stopped short of it, has to be in
the summary or in the input like everything else.

*Actions.* The commands that add messages, in the order the store allows them,
and the passes of a build: `InputFits`, `BeginCompaction`, `ReplaceCompaction`
or `CompactionFails`, `InputTooLarge`. A worker whose task was cancelled goes on
until it meets the store.

*Abstracted.* The fixed prefix takes no tokens; the plan, the facts on unknown
outcomes and the stable context are text of no effect on the choice of messages.
That a request for a summary holds the raw results of tools, which the estimate
of an input shortens (`message-compactor.ts:137`), shows in `CompactionBatch`,
which counts `Tokens`, not `ProjectedTokens`.

### SessionEvents

*State.* `task`, `run` and `plan` are rows; `outbox[a]` the events that the flow
or execution `a` has yet to publish for the command it committed last; `client`
and `shown` a client: its subscription, the view it is loading, what it shows.
The client is the reader of `docs/03-context-plan-view-and-events.md`,
section 4: an event with a version does not replace a later one.

*Actions.* Each command commits and fills the outbox (`Announces`); `Publish`
sends one event to whoever is subscribed then. `Subscribe`, `LoadView` and
`ShowView` are the three steps of a client that connects.

*Abstracted.* Messages, calls, requests and artifacts are announced like tasks;
drafts, redaction and the timeline are left out.

## 3. Runs

| Run | What it shows | Instance | Distinct states |
|---|---|---|---|
| `task_store` | the rows of tasks, runs, calls and questions agree after every command; a call is settled once; the tables implement `TaskLifecycle`; an archived session is quiet | 1 session, 2 tasks, 3 runs, 2 calls (one side-effecting), 1 output, 2 owners, 1 client key, 2 answers, times 0..2 | 145 000 |
| `task_workers` | a tool is invoked once; a loop that ends has settled its task; one execution works on a task; a question is open in the newest run; what was overdue at a restart is closed before requests are served | 1 task, 2 runs, 2 calls (one side-effecting), 2 model calls, times 0..2, crashes and restarts without bound | |
| `task_workers_end` | every execution ends; nobody is aborted before its task is over in the store | 1 task, 2 runs, 2 calls, one of them malformed, times 0..1 | |
| `execution_ownership` | a worker believes in no lease the row did not grant, and stops itself in an outage | 1 run, lease 5, interval 2, timers at most 1 late, the store away from 6 on, time to 16 | |
| `agent_turns` | budgets over all runs; a tool that writes is called knowing what came before; a stop comes in time; nothing follows an unknown side effect; the task settles | 3 model calls, 3 tool calls, batches of up to 2 | 199 000 |
| `managed_processes` | one process per call; a stop that answered is true; the registry converges | 2 calls of 2 sessions, one port, 1 stopper, 2 starts, 1 crash | 454 000 |
| `session_deletion` | nothing is left without a row, and no execution is at a tool of a session that is gone; no listed process loses its files; a client that repeats its request gets the session removed | 1 session with 1 life, 1 call, 1 deleter, 1 start, 1 crash | 34 000 |
| `model_calls` | each call counted once, with one outcome; orphans are settled; no transaction waits for ever | 2 calls of 1 session, one streaming, 1 scan | 247 000 |
| `context_compaction` | nothing is lost but goals their own tasks left out; an input has no half group; summaries only advance; a build ends | 2 tasks, 2 ids of calls, results of 3 tokens shortened to 2, limit 4, 2 passes, 7 messages | 24 000 |
| `session_events` | once all is published the client shows the tasks as they are, never ahead of a commit; ends arrive | 1 task with 2 runs and 2 plans, 2 connections | 190 000 |
| `malformed_calls` (violation) | a call whose arguments do not parse ends its execution with the task left running, against `tests/agent-loop.test.ts:374` | 1 task, 1 run, 1 malformed call | |
| `fenced_workspaces` (violation) | the slower of two deletions removes the workspace of a session created again, against `docs/02-execution-recovery-and-hitl.md:96` | 1 session with 2 lives, 1 call, 2 deleters | |

### Bounds

`task_store`: two tasks are enough for one to be over while the next one works
in the same session (the unique index forbids a third kind of overlap); three
runs let one task be resumed twice, or be resumed while the other task has run;
two calls are needed for a batch with an open sibling, for two open questions
and for one call settled while another is cut off; two owners for a fence that
must tell workers apart; a lease and a deadline of one unit in a time of two let
each expire before and after a renewal, with callers one or two units late.
`MaxTime` is the only bound inside the modules (the guard of `Tick`).
Identifiers are used up: a system that ran out of them may stop, so deadlock is
not checked.

`task_workers`: two runs let the task be resumed once; two calls make a batch
with a sibling and, in two batches, one question per run; two turns of the model
let a run go on after a batch and reach its last turn; a lease, a deadline and a
grace period of one unit in a time of two let each lapse before, at and after a
restart. `MaxIterations` and `Grace` are the code's own limits (`Grace` is positive,
`runtime-config.helper.ts:113`), `MaxTime` the only added bound. When identifiers and time are used up the process may stop.
`AbortFollowsFence` needs a second task to be wrong about another one; it is
checked with one task and proved for any number (section 4).

`execution_ownership`: two intervals fit into the lease, so a timer can find the
last request still under way, and timers fire before, at and after the end of
the lease; the outage begins after two renewals can have been granted, and the
clock runs on past the end of the last lease any of them grants (5 + 5) by more
than the interval and the delay. `Outage` and `MaxTime` are its bounds; the
system stops at the end of time.

`agent_turns`: three turns give a batch that fits, one that goes over the budget
and an answer; a batch of two has a sibling; a question ends a run and the
answer starts one that takes over the counters. `MaxBatch` is the only added
bound. A task that is over stops, so deadlock is not checked.

`managed_processes`: two calls of two sessions ask for one port; two starts let
a call be made again after it has ended, or both be made; one crash lets a
runtime adopt what the one before it started. `MaxStarts` and `MaxCrashes` are
its bounds. Two stoppers at once, and two ports, are in the configurations of
the disagreements below.

`session_deletion`: one call is enough for a process to be spawned before,
during and after a list; one crash falls between any two steps; one life is enough
for a tombstone, and for an execution that registers late. `MaxStarts`,
`MaxCrashes` and `MaxLives` are the bounds. With `TombstonesGo` the run has no time
for more; two configurations of `MCSessionDeletion` check its two invariants on
larger instances. `RecreatedSession.cfg` has two lives, so that an execution of the
first, loaded or registered, meets the session created again (703 000 states);
`OverlappingDeletions.cfg` has two requests that overlap at any steps (1 218 000).
The theorems of section 4 cover both.

`model_calls`: one call that streams and one that does not, in one session, so
that their transactions share two of the three rows with each other and all
three with the scan. `MaxScans` bounds how many processes start; calls are used
up, so deadlock is not checked.

`context_compaction`: the second task uses the ids of the first one's calls
again; a batch with its two results is cut by any cutoff between its rows; a
result is larger than what the projection leaves of it; the limit forces a
compaction after one batch, and two passes let the second find nothing more.
`MaxRows` bounds the conversation; a full one stops.

`session_events`: two runs and two plans put the events of a start, a question,
an answer, plan updates and the end in any order that flows produce; a second
connection begins while events of the first are still to be published. Tasks are
announced independently of each other, so one is enough. `MaxPlanUpdates` and
`MaxConnections` are its bounds.

### Fairness

Safety needs none, and every run but those below has none that matters.
- `execution_ownership`: a timer that is due is fired (`Timer`; the event loop's
  promise) and time passes (`Tick`). Nothing is assumed of the store or the
  network: that a reply arrives is what the worker must not rely on.
- `task_workers_end`: an execution which awaits something is resumed, with a
  result or an error (`Proceed`): a call of the model has
  `model.requestTimeoutMs`, a shell command `shell.maximumTimeoutMs`, a tool that
  asks returns at once, and a command of the store answers or its connection
  breaks (the pool sets no limit of its own, so this last one is an assumption
  about the environment). Nothing is assumed of users, of the process or of time.
- `agent_turns`: the same of the one loop (`WF(Loop)`). The model may produce any
  batches, and the user answer, for ever: that this ends is `TaskSettles`.
- `managed_processes`: the timer of the refresh goes on (`Tick`), a runtime that
  is down is started (`Boot`), a refresh goes on (`Probe`, `FinishRefresh`), and
  `ps` succeeds again and again (strong fairness of `ListSupervisors`, since a
  failure ends the refresh it belongs to).
- `session_deletion`: the client repeats its request (`BeginDeletion`), the
  executor and the manager go on, a tool that was invoked returns, and what may
  fail does not fail for ever (strong fairness of the list, of `ProcessesStopped`
  and of `RemoveWorkspace`). Without it a disk that never lets the workspace go
  keeps its tombstone, as it should.
- `model_calls`: as long as some statement can run, one does (`Statement`, weak
  fairness of all together: no order among them is assumed), and the database
  finds deadlocks (`AbortVictim`). Nothing is assumed of providers or workers.
- `context_compaction`: the steps of a build follow each other (`BuildStep`), a
  request for a summary is answered or times out.
- `session_events`: a flow publishes the events of its command one after the
  other (`Publish`).

### Findings

`malformed_calls`: `AgentLoop` reports a call whose arguments do not parse
without starting it, and `completeToolCallCommand` refuses a call that is still
pending. The loop and the store are each tested alone; together they leave the
task running without an execution.

`fenced_workspaces`: `deleteSession` checks nothing between its own fence and the
removal of the workspace. A first request is slow, a second one finishes the
deletion, the client creates the session again under the same client request id,
and the first request removes the files of the new one.

### Other sentences the code does not keep

The following are stated in the `Docs` modules and have a configuration each, so
that they can be reproduced (`tlc -config <configuration>.cfg <module>`); TLC
finds each violated. They are not among the runs: some are of little consequence, and some
are a matter of what a sentence was meant to promise.

| Configuration | Module | Sentence | What the code does |
|---|---|---|---|
| `PausedRunsWaitForUser` | `TaskStoreDocs` | `docs/01-database-and-state-machines.md:68`: paused only means waiting for the user | `answerUserInput` leaves the paused run as it is and inserts another |
| `ExpiredQuestionsStartNoRun` | `TaskStoreDocs` | `docs/02-execution-recovery-and-hitl.md:77`: an expired question creates no new run | an answer compares no deadline, and the scan that closes questions runs once, at startup |
| `ConversationStaysVisible` | `ContextCompactionDocs` | `docs/03-context-plan-view-and-events.md:27`: a conversation message is visible to later tasks | a compaction leaves out the goal of its own task (`message-compactor.ts:169`) and moves the cutoff past it: the next task gets it neither in the summary nor as a message |
| `RunsStayClosed` | `SessionEventsDocs` | `docs/03-context-plan-view-and-events.md:86`: update the status of a run by version | events of runs carry no version, and those of two flows may change places |
| `NoPlanOfFinishedTask` | `SessionEventsDocs` | `docs/03-context-plan-view-and-events.md:90`: the end of its task clears a plan against events out of order | the last `plan.updated` may come after the events of the end |
| `ClosedRunsAreAnnounced` | `SessionEventsDocs` | `task-finish-events.ts:4`: complete batch for one terminalization | a cancellation closes every open run and tells of one |
| `AllocatedPortsAreFree` (`PortsAreFree.cfg`) | `ManagedProcessesDocs` | `process-tools.ts:34`: the runtime allocates a free port | the port is released before the server takes it |
| `StopIsIdempotent` | `ManagedProcessesDocs` | `process-tools.ts:144`: safe and idempotent | the second of two stops finds no supervisor and calls the process lost |
| `DeletedSessionHasNoProcess` | `MCSessionDeletion` | `docs/02-execution-recovery-and-hitl.md`, section 7: the processes are stopped first | the list may join a refresh older than the process |
| `DeletedSessionHasNoExecution` | `MCSessionDeletion` | `docs/02-execution-recovery-and-hitl.md:97`: after the fence the executions of this process are aborted and waited for | one that was loaded before the fence (`task-executor.ts:73`) registers after the abort has found none, and works, unaborted, until the store refuses its next step; by then the row may be gone. It starts no tool (`NothingIsLeft`) |
| `ClosesOnlyDeletedStreams` | `MCSessionDeletion` | the same section: the stream is closed after the deletion succeeded | the slower of two deletions closes the stream of the new session |

Two more weaknesses show in the models without a sentence against them: the scan
at startup runs once, so a lease that is still alive then strands its task until
the next start (`interrupted-task-scanner.ts:19`); and a server that outlives its
supervisor is never signalled (`managed-process-manager.ts:760`).

## 4. Proofs

Each component has one module of theorems, which extends it. A theorem holds for
all values of the constants that the named assumptions of the component allow:
any number of sessions, tasks, runs, calls, processes, messages and steps, where
a run has two or three. Every safety property and action property a passing run
checks is the statement of a theorem, for the specification without fairness, so
it needs none. Most of the inductive invariants below were invariants of a
TLC run before they were proved.

### The store

`TaskStoreProofs` proves, under the
assumptions named in `TaskStore` (side-effecting calls are calls, the lease and
the answer time are positive, the bound is a natural number, and null is not a
value):

- `Invariance`: `Inv` always holds;
- from it `TypeCorrect`, `OneExecutor`, `TasksWaitForQuestions`,
  `TerminalTasksAreClosed`, `SideEffectsAreAccounted`, `HistoryIsComplete`,
  `ArchivedSessionsAreQuiet` and `PlansOfActiveTasks`;
- the action properties `TerminalTasksAreFinal` and `CallsSettleOnce`;
- `RunsAreNumbered`, from `Inv` and `AllNumbered`, which says of every task that
  its runs are finitely many, numbered without gap, and counted by its version.
  `StartsNoRun` gathers what all commands but two have in common; the other two,
  `startTaskRun` and the last `answerUserInput`, add one run whose number
  `NextRunNoIsCount` gives.

None of the properties is inductive by itself. `Inv` adds to them
- `RowLinks`: which columns are null when a row does not exist, and that a task
  has rows below it only after `created`;
- `RunNumbers`: twice the number of the newest run is the version of a waiting
  task, or one more than that of a running one. It is what keeps `NextRunNo`
  (a maximum over a set) a natural number in step with the version;
- `ExecutorInv` and `QuestionInv`: the properties said of single rows, with the
  uniqueness the two partial indexes give;
- `ChildInv`: an active call belongs to a running or waiting task;
- `CallInv`: what the status of a call says of its start and its result;
- `SessionInv`: a session has one active task.

There is one lemma per command and under it one step per part of `Inv` the
command can disturb. `CallsInTheirRuns`, proved on the way to
`TerminalTasksAreFinal`, says that a call belongs to the task of its run; it is
what makes the run that `expireUserInput` closes a run of the same task.

The last part proves `StoreKeepsLifecycle`: every behaviour of the store is one of `TaskLifecycle`, under the mapping of `TaskStoreLifecycle`. The executor
of a task is chosen among its running runs; `ExecutorOfRunningRun` removes the
choice, since `Inv` leaves one run at most. Then there is one lemma per command,
named after the step of the promise it proves: `EndAllKept` and `GrantKept` prove
the parts that commands share, `Unnoticed` those that no client is told of (a
renewal, a saved or started call, a second cancellation, the final removal).
`SessionsHaveOneExecutor` states what follows for a session.

### The ownership of executions

`ExecutionOwnershipProofs` proves, for every lease longer than the interval
(what the constructor of the executor demands), every delay and every bound,
`OwnershipTypes`, `BeliefIsGranted`, `OverrunIsBounded` and
`RenewalsKeepOrder` from an invariant that adds to the properties
- `TimerInv`: the timer of an executing worker is due at most `Delay` ago;
- `OrderInv`: one request is outstanding at most, and all that is known of
  requests is older than it;
- `GrantInv`: what the row holds came from a request already sent.

### The process

`TaskWorkersProofs` proves, for any number of sessions, tasks, runs, calls and
owners, `ProcessImplementsStore`: every step of the process is a command of the
store, made by the owner and with a clock reading the command expects, or leaves
the rows alone. So the theorems of the store hold of the process too, and
`ProcessKeepsLifecycle` says so of the promise to the clients. The rest,
`ProcessTypeCorrect`, `ToolsAreInvokedOnce`, `SideEffectsAreRecordedFirst`,
`AbortsFollowFences` and `TasksHaveOneExecution`, follows from `ProcessInv`,
which adds to the invariant of the store
- `SenderInv`: an execution that goes on belongs to a run with a task, in a
  process that has an owner, and has a call in hand where it needs one;
- `InvocationInv`: a call that waits to be invoked was started, was never
  invoked, and waits in one execution only. `InvokedAtMostOnce` is not inductive
  without the last part: it is `startToolCall`, which takes only a pending call,
  that keeps two executions from having the same call in hand;
- `FenceInv`: the tasks whose executions a flow has yet to abort are over. It is
  what `AbortFollowsFence` needs over the time between the transaction and the
  abort;
- `LiveRunsRun`: `OneExecutionPerTask`, from the dispatch of an execution on. It
  rests on two facts of the store (`RowsStay`, `RunsStay`) and on one of the
  process: only the execution itself pauses its task (`OnlyAskPauses`).

Three more invariants rest on `ProcessInv`:
- `AskingInv`, for `NewestRunAsks`: a running run is the newest of its task
  (`RunningIsNewest`) and what an execution has in hand is a call of its own run
  (`OwnCalls`). Without the second a report could open a question in a run that is
  over.
- `ScanClosesLapsed` itself, for `ScansCloseLapsed`, with `NoneOlder` of every
  step of the serving process: what it adds after the scan has a deadline that lies
  beyond the time the scan read. That is where `Grace` must be positive: a task created in
  the very instant of the scan is not overdue.
- `LoopInv`, for `StrandedOnlyIfMisreported`: the loop of a run the store holds goes
  on, was cut off, or was refused a report, and while it goes on its task has the
  calls it believes (`Accounted`). `OnlyQuestionsWait` says that a call waits only
  for a question. `TasksAreNotStranded` is the case without malformed calls. With
  them `TaskNotStranded` does not hold of the code, as the run `malformed_calls`
  shows; the first theorem says they are the only way to strand a task.

### The turns of the loop

`AgentTurnsProofs` proves, for all limits and every size of batches,
`TurnsTypeCorrect`, `BudgetsHold`, `ChoicesKnowTheirResults`, `RunsStopInTime`
and `NothingFollowsUnknown`. All follow from `Inv` (`TurnsInvariance`), whose
parts are
- `LoopInv`, `PlaceInv`: only a running task has a loop, and its place is in the
  batch where the stage says so;
- `CountInv`: the two counters of the loop are those of the rows, up to the
  output that is being handled. That a budget holds over several runs is this:
  what a run takes over is what the runs before it used;
- `StatusInv`: calls are settled in their order, so before a turn all are;
- `InvokedInv`: tools are invoked in the order of their calls, and calls over
  the budget are not reached;
- `OutputInv`, `ChoiceInv`: a batch is one output of the model, made from all
  calls before it, which `Accepts` let pass; `ChoicesAreInformed` needs this of
  every call, invoked or not;
- `StopInv`, `EndInv`: a started tool was started before the stop; the reasons a
  task ends with are true.

Again there is one lemma per step. `BecomesEffect`, `EndTaskEffect` and the like
say first what a step does to the sequence of calls, so that the steps need not
look into it.

### Model calls

`ModelCallsProofs` proves `CallsAreCountedOnce`, `AcceptedCallsAreCompleted`,
`OrphansAreSettled` and the action property `SettledForGood` from `Inv`
(`AuditInvariance`), for any number of calls, sessions and processes, whose scans
may run at any time:
- `CallInv`: what the place of the audited model says of its row, so that the
  output of a call is in hand only when its row is completed. That is why
  `setOutputDisposition`, which takes no lock, cannot accept a failed one;
- `LockInv`: a transaction past its first lock holds a row that is still open,
  and nobody else holds it. It is what makes two settlings of one call, by the
  catch after a lost reply and by the scan, count once;
- `ScanInv`: an orphan is settled, locked by the scan or on its list;
- `CountInv`: the counter is the number of settled calls, which are finitely many.

### Managed processes and the deletion of their session

`SessionDeletionProofs` proves of `ManagedProcesses` alone `CallsSpawnOnce` and
`StopsAnswerTruly`, and of `SessionDeletion`, where the specs may go,
`CallsSpawnOnceForGood`, `NoFilesOfTheLiving` and `DeletedSessionsAreClean`.
- `ManagerInv` is what both share: `FreshStarts` (a call about to write its first
  spec, or to spawn, has no supervisor), `SpawnedOnce`, and `ListIsComplete` (a
  process that was there when a list was made is in it as long as it lives);
- with `SpecsStay` fresh starts follow by themselves; in `SessionDeletion` they
  follow from `CallsStartOnce`, the guard of the store;
- `StopsAreTrue`, `SeenAreStopped`: a process in hand of a stop or of a deletion
  stays there until it is gone, and the lists made since show it;
- `StartsAreHeld`: a process is started by an execution that is in the tool, so
  nobody spawns behind the back of a deletion that found none there;
- `FenceInv`: once the row is fenced, whatever is at a tool is among those a
  request in its wait waits for; past the wait nothing is, and past the removal
  there are no files. What registers later does not matter: the fence holds it at
  `StartTool`. The hypothesis is that of the theorem (see `SessionDeletion` in
  section 2).

### Context and compaction

`ContextCompactionProofs` proves `SummaryHasNoGap`, `ModelSeesWholeInput` and
`SummariesAdvance` from `ContextInv` (`ContextInvariance`), for any number of tasks
and messages and all limits. It has three parts.

*Sums.* `Tokens` is a fold over a set, which takes its elements in an order nobody
knows. `TokensGrow` (more rows have at least as many tokens) rests on the fold
being unique (`FoldUnique`), existing (`FoldExists`) and not depending on the order
(`TokensOfOne`). Each of these is an induction over the size of a set, stated as a
smallest counterexample (`SmallestSet`, from the well-foundedness of `<`), since
the induction theorems of the library take a predicate as a parameter.

*Groups.* `AnsweredIsWhole`, `InputGroups` and `HeadsOfInput` say what the groups
found by the ids of calls are: the whole messages with the results that answer
them, though ids are used again by other tasks. `BatchHasNoGap` says that what a
compaction takes is, with a group, all older ones not yet covered: it is where the
two cuts, of what is recent and of what fits, need `TokensGrow`.

*Messages, summary, workers.* `ContextInv` says
- `GoalsAreOne`, `IdsAreUsedOnce`: a task has one goal, one task is active, a task
  uses an id for one call with one result;
- `ResultsFollow`, `BatchesInOrder`, `BatchesAreAnswered`: results come directly
  behind their call and its other results, and nothing follows an open batch.
  Together they keep any cutoff from falling into a group;
- `SummaryIsOfConversation`, `CutoffIsSafe`: what lies behind the cutoff is whole,
  unless its task is over, and whole conversation is covered, or a goal in `omits`;
- `WorkersAreCurrent`: what the worker of the running task holds is what it would
  read now. A worker that lost its task may hold anything older, and `MayReplace`
  keeps it out.

### Events

`SessionEventsProofs` proves `ClientCatchesUp`, `ClientIsNeverAhead` and
`TypeCorrect`, for any number of tasks, flows and updates of plans, from `EventsInv`:
- `RowsInOrder`: the version of a task follows from its status and its runs;
- `Committed`: what is on its way to the client, or in the view it loads, is a
  state the task is or was in;
- `Current`: the client shows a task as it is, or somebody has yet to tell it
  (`ToBeTold`), or the view it loads will. An event that is overtaken is not newer
  than what overtook it, so it is dropped.

### What is not proved

Proved, but no property of a run any more, since a theorem says more:
`TypeOK`, `SettledCallsHaveResults` and `TerminalIsFinal` of the store,
`ProcessTypeOK` and `SideEffectsRecordedFirst` of the process, `TypeOK`,
`OverrunBounded` and `RenewalsInOrder` of the ownership, `TypeOK` of the turns,
of the events and, within their invariants, of the other components.

Only model-checked: the liveness properties `WorkerStopsInOutage`,
`ExecutionsEnd`, `TaskSettles`, `RegistryConverges`, `TombstonesGo`,
`TransactionsEnd`, `BuildsEnd` and `EndsAreShown`, which are out of the prover's
reach, as is `ENABLED`.

## 5. Plan

Done: the store and its abstract specification, the process on top of it, the
ownership of executions, the turns of the loop, managed processes and the
deletion of sessions, the audit of model calls, context and compaction, the
events of a session.

What would add most:

1. An abstract specification of the input of the model (the goal, and the
   conversation in the order it was had, of which an older part may be a summary)
   that `ContextCompaction` implements: `ContextInv` has what its proof needs.
2. `AgentTurns` and `TaskWorkers` share the stages of a turn: that the second,
   with its choices, allows what the first does could be stated as a refinement.
3. The events of messages, calls and requests, where a redacted answer and the
   full one may meet at the client.

## 6. Not modelled, and why

Queries, row mappers and schema management read or convert and change nothing;
the one query with a part in a protocol, the snapshot of a context, is
`InputRows`. File, shell, browser, basic and artifact tools are input and output:
their effect on a task is the outcome of a call, which the store leaves open.
Prompts, model profiles and configuration are data. HTTP controllers validate and
forward. Of the view, the timeline and the redaction of answers are conversions
of what was read; drafts of streamed outputs are shown and forgotten.
