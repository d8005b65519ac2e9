------------------------- MODULE ContextCompaction -------------------------
(***************************************************************************)
(* The input of the language model: which of the messages of a session     *)
(* ModelInputBuilder gives it, and how MessageCompactor replaces the       *)
(* oldest of them by a summary when they exceed the limit.                 *)
(*                                                                         *)
(* A message is a row, known by its position; its text is its number of    *)
(* tokens.  A group is the set of the rows that must stay together.  A     *)
(* summary is the set of the rows it was made from and its own number of   *)
(* tokens; beside it the model remembers which goals compactions left out. *)
(* The fixed prefix of the input takes no tokens.  No command writes       *)
(* progress messages or messages of scope none.                            *)
(***************************************************************************)
EXTENDS Integers, Sequences, FiniteSets, FiniteSetsExt

CONSTANTS
    Task,
    CallId,            \* ids the model gives its tool calls
    ResultTokens,      \* sizes of a tool result
    InputTokenLimit,
    KeepRecentInputTokens,
    MaxToolResultTokens,
    SummaryMaxTokens,
    MaxCompactionPasses,
    MaxRows            \* bound: messages of the session

ASSUME TokensAssumption ==
    /\ ResultTokens \subseteq Nat \ {0}
    /\ {InputTokenLimit, KeepRecentInputTokens, MaxToolResultTokens,
        SummaryMaxTokens, MaxCompactionPasses, MaxRows} \subseteq Nat \ {0}

VARIABLES
    messages,          \* agent_messages of the session, in the order of row_id
    status,            \* the status of each task
    compaction,        \* agent_context_compactions of the session
    worker             \* the execution of each task: what its builder holds

vars == <<messages, status, compaction, worker>>

Rows == 1..Len(messages)
Message == [task : Task, role : {"user", "assistant", "tool"},
            scope : {"conversation", "task"}, calls : SUBSET CallId,
            tokens : Nat \ {0}]

(* The calls of a tool message are the one call it answers. *)
User(t) == [task |-> t, role |-> "user", scope |-> "conversation",
            calls |-> {}, tokens |-> 1]
Assistant(t, scope, calls) == [task |-> t, role |-> "assistant",
                               scope |-> scope, calls |-> calls, tokens |-> 1]
Result(t, scope, call, tokens) == [task |-> t, role |-> "tool", scope |-> scope,
                                   calls |-> {call}, tokens |-> tokens]

(* omits: history, the goals that the cutoff passed while the task they    *)
(* belong to compacted, and that are in no summary.                        *)
NoCompaction == [version |-> -1, through |-> 0, covers |-> {}, tokens |-> 0,
                 omits |-> {}]
NoWorker == [stage |-> "none", passes |-> 0, groups |-> {},
             base |-> NoCompaction]

Init ==
    /\ messages = <<>>
    /\ status = [t \in Task |-> "none"]
    /\ compaction = NoCompaction
    /\ worker = [t \in Task |-> NoWorker]

-----------------------------------------------------------------------------
(* Groups *)

SameKey_AnyTask(i, j, call) == call \in messages[i].calls \cap messages[j].calls
SameKey(i, j, call) == /\ call \in messages[i].calls \cap messages[j].calls
                       /\ messages[i].task = messages[j].task
CallMessages(rows, i, call) ==
    {j \in rows : messages[j].role # "tool" /\ SameKey(i, j, call)}
Results(rows, i, call) ==
    {j \in rows : messages[j].role = "tool" /\ SameKey(i, j, call)}

(* Row i with calls is a group when each of its calls is asked once and    *)
(* answered once, by a later row.  Results carry the tool name of the call.*)
IsAnswered(rows, i) ==
    \A call \in messages[i].calls :
        /\ CallMessages(rows, i, call) = {i}
        /\ \E j \in rows : Results(rows, i, call) = {j} /\ j > i
GroupOf(rows, i) ==
    {i} \cup UNION {Results(rows, i, call) : call \in messages[i].calls}
ProjectMessageGroups(rows) ==
    {GroupOf(rows, i) : i \in {j \in rows : /\ messages[j].role # "tool"
                                            /\ IsAnswered(rows, j)}}

IsConversation(group) == \A i \in group : messages[i].scope = "conversation"
Tokens(rows) == MapThenSumSet(LAMBDA i : messages[i].tokens, rows)
ProjectedTokens(rows) ==
    MapThenSumSet(LAMBDA i : IF messages[i].role = "tool"
                             THEN Min({messages[i].tokens, MaxToolResultTokens})
                             ELSE messages[i].tokens, rows)

-----------------------------------------------------------------------------
(* The input of a task, from one snapshot of the store *)

GoalOf(t) == CHOOSE i \in Rows : messages[i] = User(t)

(* The rows the query returns, and the builder keeps. *)
InputRows(t) ==
    {i \in Rows :
        IF messages[i].scope = "conversation"
        THEN i > compaction.through \/ i = GoalOf(t)
        ELSE messages[i].task = t}
GroupsAfterCompaction(t) ==
    {group \in ProjectMessageGroups(InputRows(t)) :
        \/ ~IsConversation(group)
        \/ Max(group) > compaction.through
        \/ GoalOf(t) \in group}
EstimatedTokens(t) ==
    compaction.tokens + ProjectedTokens(UNION GroupsAfterCompaction(t))

-----------------------------------------------------------------------------
(* What a compaction summarises *)

Compactable(t) ==
    {group \in ProjectMessageGroups(InputRows(t)) :
        /\ IsConversation(group)
        /\ Max(group) > compaction.through
        /\ GoalOf(t) \notin group}

(* The newest groups are kept, and the newest of all whatever its size. *)
Since(groups, group) == {g \in groups : Min(g) >= Min(group)}
Until(groups, group) == {g \in groups : Min(g) <= Min(group)}
IsKept(groups, group) ==
    \/ Since(groups, group) = {group}
    \/ Tokens(UNION Since(groups, group)) <= KeepRecentInputTokens
OldConversationGroups(t) ==
    {group \in Compactable(t) : ~IsKept(Compactable(t), group)}

(* The oldest of them that fit, with the previous summary, in one request. *)
CompactionBatch(t) ==
    {group \in OldConversationGroups(t) :
        compaction.tokens + Tokens(UNION Until(OldConversationGroups(t), group))
            <= InputTokenLimit}

-----------------------------------------------------------------------------
(* Tasks and their messages *)

HasRoom == Len(messages) < MaxRows
Add(message) == messages' = Append(messages, message)
Moves(t, stage) == worker' = [worker EXCEPT ![t].stage = stage]

(* One task of a session is active at a time; its goal is its first row.   *)
CreateTask(t) ==
    /\ HasRoom /\ status[t] = "none"
    /\ \A u \in Task : status[u] \in {"none", "over"}
    /\ Add(User(t))
    /\ status' = [status EXCEPT ![t] = "created"]
    /\ UNCHANGED <<compaction, worker>>

StartTaskRun(t) ==
    /\ status[t] = "created"
    /\ status' = [status EXCEPT ![t] = "running"]
    /\ worker' = [worker EXCEPT ![t] = [NoWorker EXCEPT !.stage = "building"]]
    /\ UNCHANGED <<messages, compaction>>

(* The user cancels, or a scan closes a run whose lease is over: what was  *)
(* the worker of the task may go on without knowing.                       *)
CancelTask(t) ==
    /\ status[t] \in {"created", "running", "waiting"}
    /\ status' = [status EXCEPT ![t] = "over"]
    /\ UNCHANGED <<messages, compaction, worker>>

WorkerDies(t) ==
    /\ worker[t].stage # "none"
    /\ Moves(t, "none")
    /\ UNCHANGED <<messages, status, compaction>>

(* The model asks for a batch of tools, or gives its final answer.  Commands *)
(* of a worker whose run is closed change nothing and end it (LosesRun).   *)
UsedCalls(t) == UNION {messages[i].calls : i \in {j \in Rows : messages[j].task = t}}
SaveToolCalls(t) ==
    /\ HasRoom /\ worker[t].stage = "ready" /\ status[t] = "running"
    /\ \E calls \in (SUBSET (CallId \ UsedCalls(t))) \ {{}},
          scope \in {"conversation", "task"} : Add(Assistant(t, scope, calls))
    /\ Moves(t, "calling")
    /\ UNCHANGED <<status, compaction>>

CompleteTask(t) ==
    /\ HasRoom /\ worker[t].stage = "ready" /\ status[t] = "running"
    /\ Add(Assistant(t, "conversation", {}))
    /\ status' = [status EXCEPT ![t] = "over"]
    /\ Moves(t, "none")
    /\ UNCHANGED compaction

LosesRun(t) ==
    /\ worker[t].stage \in {"ready", "calling"} /\ status[t] # "running"
    /\ Moves(t, "none")
    /\ UNCHANGED <<messages, status, compaction>>

(* The newest message with calls, and its calls without a result. *)
NewestBatch(t) == Max({i \in Rows : /\ messages[i].task = t
                                    /\ messages[i].role = "assistant"})
OpenCalls(t) == {call \in messages[NewestBatch(t)].calls :
                    Results(Rows, NewestBatch(t), call) = {}}
AddResult(t, call) ==
    \E tokens \in ResultTokens :
        Add(Result(t, messages[NewestBatch(t)].scope, call, tokens))

CompleteToolCall(t) ==
    /\ HasRoom /\ worker[t].stage = "calling" /\ status[t] = "running"
    /\ \E call \in OpenCalls(t) :
        /\ AddResult(t, call)
        /\ IF OpenCalls(t) = {call}
           THEN worker' = [worker EXCEPT ![t] = [NoWorker EXCEPT !.stage = "building"]]
           ELSE UNCHANGED worker
    /\ UNCHANGED <<status, compaction>>

(* The calls that are left ask the user: the run ends, and the answer to   *)
(* the last of them starts another.                                        *)
PauseForUser(t) ==
    /\ worker[t].stage = "calling" /\ status[t] = "running"
    /\ OpenCalls(t) # {}
    /\ status' = [status EXCEPT ![t] = "waiting"]
    /\ Moves(t, "none")
    /\ UNCHANGED <<messages, compaction>>

AnswerUserInput(t) ==
    /\ HasRoom /\ status[t] = "waiting"
    /\ \E call \in OpenCalls(t) :
        /\ AddResult(t, call)
        /\ status' = [status EXCEPT ![t] = IF OpenCalls(t) = {call}
                                           THEN "created" ELSE "waiting"]
    /\ UNCHANGED <<compaction, worker>>

-----------------------------------------------------------------------------
(* Building the input, and compacting until it fits *)

Fits(t) == EstimatedTokens(t) <= InputTokenLimit
MayCompact(t) == /\ worker[t].passes < MaxCompactionPasses
                 /\ CompactionBatch(t) # {}

InputFits(t) ==
    /\ worker[t].stage = "building" /\ Fits(t)
    /\ worker' = [worker EXCEPT ![t].stage = "ready",
                                ![t].groups = GroupsAfterCompaction(t),
                                ![t].base = compaction]
    /\ UNCHANGED <<messages, status, compaction>>

BeginCompaction(t) ==
    /\ worker[t].stage = "building" /\ ~Fits(t) /\ MayCompact(t)
    /\ worker' = [worker EXCEPT ![t].stage = "compressing",
                                ![t].groups = CompactionBatch(t),
                                ![t].base = compaction]
    /\ UNCHANGED <<messages, status, compaction>>

InputTooLarge_Retried(t) ==
    /\ worker[t].stage = "building" /\ ~Fits(t) /\ ~MayCompact(t)
    /\ Moves(t, "building")
    /\ UNCHANGED <<messages, status, compaction>>

(* model_input_too_large *)
InputTooLarge(t) ==
    /\ worker[t].stage = "building" /\ ~Fits(t) /\ ~MayCompact(t)
    /\ Moves(t, "failed")
    /\ UNCHANGED <<messages, status, compaction>>

Through_Eligible(t) == Max(UNION OldConversationGroups(t))
Through(t) == Max(UNION worker[t].groups)
MayReplace_FurtherOnly(t) == Through(t) > compaction.through
(* The worker still owns the run, no other compaction came in between, and *)
(* the summary reaches further.                                            *)
MayReplace(t) ==
    /\ status[t] = "running"
    /\ compaction.version = worker[t].base.version
    /\ Through(t) > compaction.through

(* Compactable leaves out the goal of the task that compacts, and of no    *)
(* other: it is lost to later tasks once the cutoff is behind it.          *)
LeftOut(t) == {i \in {GoalOf(t)} : compaction.through < i /\ i <= Through(t)}

(* The text of the model is cut to the limit; an empty one is an error. *)
SummarySizes == 1..SummaryMaxTokens

ReplaceCompaction(t) ==
    /\ worker[t].stage = "compressing" /\ MayReplace(t)
    /\ \E tokens \in SummarySizes :
        compaction' = [version |-> compaction.version + 1,
                       through |-> Through(t),
                       covers |-> worker[t].base.covers \cup UNION worker[t].groups,
                       tokens |-> tokens,
                       omits |-> worker[t].base.omits \cup LeftOut(t)]
    /\ worker' = [worker EXCEPT ![t] = [NoWorker EXCEPT !.stage = "building",
                                                        !.passes = worker[t].passes + 1]]
    /\ UNCHANGED <<messages, status>>

(* The model fails or answers nothing, or the command is refused. *)
CompactionFails(t) ==
    /\ worker[t].stage = "compressing"
    /\ Moves(t, "failed")
    /\ UNCHANGED <<messages, status, compaction>>

(* The loop ends with an error, and the task with it if it is still its. *)
FailTask(t) ==
    /\ worker[t].stage = "failed"
    /\ status' = [status EXCEPT ![t] = IF @ = "running" THEN "over" ELSE @]
    /\ worker' = [worker EXCEPT ![t] = NoWorker]
    /\ UNCHANGED <<messages, compaction>>

Next ==
    \E t \in Task :
        \/ CreateTask(t) \/ StartTaskRun(t) \/ CancelTask(t) \/ WorkerDies(t)
        \/ SaveToolCalls(t) \/ CompleteTask(t) \/ LosesRun(t)
        \/ CompleteToolCall(t) \/ PauseForUser(t) \/ AnswerUserInput(t)
        \/ InputFits(t) \/ BeginCompaction(t) \/ InputTooLarge(t)
        \/ ReplaceCompaction(t) \/ CompactionFails(t) \/ FailTask(t)

Spec == Init /\ [][Next]_vars

(* The steps of a build follow each other, and the provider answers or its *)
(* request times out.                                                      *)
BuildStep(t) ==
    \/ InputFits(t) \/ BeginCompaction(t) \/ InputTooLarge(t)
    \/ ReplaceCompaction(t) \/ CompactionFails(t) \/ FailTask(t)
FairSpec == Spec /\ \A t \in Task : WF_vars(BuildStep(t))

-----------------------------------------------------------------------------
(* Properties *)

TypeOK ==
    /\ messages \in Seq(Message)
    /\ status \in [Task -> {"none", "created", "running", "waiting", "over"}]
    /\ \A c \in {compaction} \cup {worker[t].base : t \in Task} :
        /\ c.version \in Nat \cup {-1} /\ c.through \in 0..MaxRows
        /\ c.covers \subseteq Rows /\ c.tokens \in 0..SummaryMaxTokens
        /\ c.omits \subseteq Rows
    /\ \A t \in Task :
        /\ worker[t].stage \in {"none", "building", "compressing", "ready",
                                "calling", "failed"}
        /\ worker[t].passes \in 0..MaxCompactionPasses
        /\ worker[t].groups \subseteq SUBSET Rows

(* The messages of the conversation that are whole: a text, or calls with  *)
(* the answers the same task gave to all of them.                          *)
Answers(i) == {j \in Rows : /\ messages[j].role = "tool"
                            /\ messages[j].task = messages[i].task
                            /\ messages[j].calls \subseteq messages[i].calls}
ConversationGroups ==
    {{i} \cup Answers(i) : i \in {j \in Rows :
        /\ messages[j].role # "tool" /\ messages[j].scope = "conversation"
        /\ messages[j].calls = UNION {messages[k].calls : k \in Answers(j)}}}

(* The cutoff never jumps over a message that no summary was made from,    *)
(* nor through the middle of a group: a whole conversation group behind it *)
(* is in the summary.  The one exception are the goals that a compaction   *)
(* of the very task they belong to left behind the cutoff; the user        *)
(* messages of all other tasks are summarised like the rest.               *)
NothingElseIsLost ==
    \A g \in ConversationGroups :
        Min(g) <= compaction.through =>
            g \subseteq compaction.covers \/ g \subseteq compaction.omits

(* The input given to the model: the goal of the task, every other whole   *)
(* conversation group either in the summary or in full, never both, the    *)
(* messages of scope task of this task alone, and no call without its      *)
(* result or result without its call.  What may be missing of the          *)
(* conversation are goals that compactions of their own tasks left out,    *)
(* and nothing else: see ConversationStaysVisible (ContextCompactionDocs). *)
InputIsWhole(t) ==
    LET rows == UNION worker[t].groups IN
    /\ GoalOf(t) \in rows
    /\ rows \cap worker[t].base.covers = {}
    /\ \A g \in ConversationGroups :
        \/ g \subseteq rows \cup worker[t].base.covers
        \/ g \subseteq worker[t].base.omits
    /\ \A i \in rows : messages[i].scope = "task" => messages[i].task = t
    /\ \A i \in rows : messages[i].role = "assistant" =>
        messages[i].calls = UNION {messages[j].calls : j \in rows \cap Answers(i)}
    /\ \A j \in rows : messages[j].role = "tool" =>
        \E i \in rows : messages[i].role = "assistant" /\ j \in Answers(i)
InputsAreWhole ==
    \A t \in Task : worker[t].stage = "ready" /\ status[t] = "running" => InputIsWhole(t)

(* A worker that lost its task never puts an older summary in the place of *)
(* a newer one: the version counts, the cutoff advances and whatever was   *)
(* summarised stays so.                                                    *)
CompactionAdvances ==
    [][compaction' # compaction =>
        /\ compaction'.version = compaction.version + 1
        /\ compaction'.through > compaction.through
        /\ compaction.covers \subseteq compaction'.covers]_vars

(* Building an input ends, in an input that fits or in an error. *)
BuildsEnd ==
    \A t \in Task : worker[t].stage = "building" ~> worker[t].stage \in {"none", "ready"}
=============================================================================
