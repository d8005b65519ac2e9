----------------------------- MODULE AgentTurns -----------------------------
(***************************************************************************)
(* The turns of AgentLoop.run over all runs of one task: what the model    *)
(* is given, which batches of calls are accepted, the order of a batch,    *)
(* and the two budgets, which a run takes over from the rows of the runs   *)
(* before it.                                                              *)
(*                                                                         *)
(* TaskWorkers says how a turn meets the fence of the store, a crash, a    *)
(* cancellation.  Here nobody else touches the task; a run is cut short    *)
(* only by its deadline and its signal.                                    *)
(***************************************************************************)
EXTENDS Naturals, Sequences, FiniteSets, SequencesExt

CONSTANTS
    MaxIterations,  \* limits.maxIterations
    MaxToolCalls,   \* limits.maxToolCalls
    MaxBatch        \* bound: calls of one model output

ASSUME LimitsAssumption ==
    /\ MaxIterations \in Nat \ {0} /\ MaxToolCalls \in Nat \ {0}
    /\ MaxBatch \in Nat \ {0}

VARIABLES
    status,       \* agent_tasks: running, waiting or over
    calls,        \* agent_tool_calls of the task, in the order of the batches
    reactCalls,   \* rows of agent_model_calls of type task.react
    compacting,   \* rows of agent_model_calls of other types, 0 or more
    loop,         \* the generator of the run
    stop,         \* "deadline" and "signal" once they are due
    end,          \* why the task ended
    invoked,      \* history: calls whose tool was invoked
    afterStop     \* history: tools this run invoked after its stop

vars == <<status, calls, reactCalls, compacting, loop, stop, end, invoked, afterStop>>

(* A tool that writes needs the results of its siblings first; an exclusive *)
(* one is called alone; one that asks gets its result from the user.        *)
Kind == {"plain", "write", "exclusive", "ask"}
Open == {"pending", "executing", "asked"}
Settled == {"done", "unknown", "cancelled"}

Call == [kind : Kind, output : Nat, input : SUBSET Nat, status : Open \cup Settled]

Saturated(n, max) == IF n > max THEN max + 1 ELSE n

Progress_OfRun == [modelCalls |-> 0, toolCalls |-> 0]
Progress == [modelCalls |-> reactCalls, toolCalls |-> Len(calls)]

(* The run goes on where the rows of the task say it is. *)
NewLoop == [at |-> "turn", modelCalls |-> Progress.modelCalls,
            toolCalls |-> Progress.toolCalls, input |-> {}, next |-> 0]

Init ==
    /\ status = "running" /\ calls = <<>> /\ end = "none"
    /\ reactCalls = 0 /\ compacting = 0
    /\ loop = [at |-> "turn", modelCalls |-> 0, toolCalls |-> 0, input |-> {}, next |-> 0]
    /\ stop = {} /\ invoked = {} /\ afterStop = 0

-----------------------------------------------------------------------------
(* The end of a run *)

At(stage) == status = "running" /\ loop.at = stage

(* failTask and completeTask close what is open. *)
EndTask(reason) ==
    /\ status' = "over" /\ end' = reason
    /\ calls' = [i \in DOMAIN calls |->
                    IF calls[i].status \in Open
                    THEN [calls[i] EXCEPT !.status = "cancelled"] ELSE calls[i]]
    /\ loop' = [loop EXCEPT !.at = "gone"]
    /\ UNCHANGED <<reactCalls, compacting, stop, invoked, afterStop>>

(* A shutdown or a lost lease leaves the task to others. *)
Abandon ==
    /\ loop' = [loop EXCEPT !.at = "gone"]
    /\ UNCHANGED <<status, calls, reactCalls, compacting, stop, end, invoked, afterStop>>

(* #terminalPreflight looks at the signal first. *)
Preflight_Passes == "signal" \notin stop
Preflight == stop = {}
Stopped == IF "signal" \in stop THEN Abandon ELSE EndTask("deadline_exceeded")

Stop(reason) ==
    /\ status = "running" /\ loop.at # "gone" /\ reason \notin stop
    /\ stop' = stop \cup {reason}
    /\ UNCHANGED <<status, calls, reactCalls, compacting, loop, end, invoked, afterStop>>

-----------------------------------------------------------------------------
(* One turn *)

OutOfTurns ==
    /\ At("turn") /\ loop.modelCalls >= MaxIterations
    /\ EndTask("max_iterations")

(* The context has every call that is answered; to build it may cost calls *)
(* of the model that do not count.                                         *)
LoadMessages ==
    /\ At("turn") /\ loop.modelCalls < MaxIterations /\ Preflight
    /\ loop' = [loop EXCEPT !.at = "loaded",
                            !.input = {i \in DOMAIN calls : calls[i].status = "done"}]
    /\ compacting' \in {compacting, 1}
    /\ UNCHANGED <<status, calls, reactCalls, stop, end, invoked, afterStop>>

LoadFails ==
    /\ At("turn") /\ loop.modelCalls < MaxIterations /\ Preflight
    /\ EndTask("context_build_error")

CallModel ==
    /\ At("loaded") /\ Preflight
    /\ reactCalls' = Saturated(reactCalls + 1, MaxIterations)
    /\ loop' = [loop EXCEPT !.at = "model"]
    /\ UNCHANGED <<status, calls, compacting, stop, end, invoked, afterStop>>

(* An error, an output cut off at its limit, an empty one. *)
ModelFails == At("model") /\ EndTask("model_error")

FinalAnswer == At("model") /\ EndTask("completed")

StopsInTurn ==
    /\ ~Preflight
    /\ \/ At("turn") /\ loop.modelCalls < MaxIterations
       \/ At("loaded") \/ At("model")
    /\ Stopped

Batches == SeqOf(Kind, MaxBatch) \ {<<>>}

(* ToolCallPolicy, then the exclusive tools. *)
Accepts_Any(batch) == TRUE
Accepts(batch) ==
    /\ "write" \in ToSet(batch) => ToSet(batch) = {"write"}
    /\ "exclusive" \in ToSet(batch) => Len(batch) = 1

(* The model is told why, and asked again. *)
NextTurn_Free == [loop EXCEPT !.at = "turn"]
NextTurn == [loop EXCEPT !.at = "turn", !.modelCalls = @ + 1]

RejectBatch ==
    /\ At("model")
    /\ \E batch \in Batches : ~Accepts(batch)
    /\ loop' = NextTurn
    /\ UNCHANGED <<status, calls, reactCalls, compacting, stop, end, invoked, afterStop>>

Exceeds(batch) == loop.toolCalls + Len(batch) > MaxToolCalls

(* The batch is stored before the budget is looked at. *)
SaveBatch ==
    /\ At("model")
    /\ \E batch \in Batches :
        /\ Accepts(batch)
        /\ calls' = calls \o [i \in DOMAIN batch |->
               [kind |-> batch[i], output |-> reactCalls, input |-> loop.input,
                status |-> "pending"]]
        /\ loop' = [loop EXCEPT
               !.at = IF Exceeds(batch) THEN "overspent" ELSE "calling",
               !.toolCalls = IF Exceeds(batch) THEN @ ELSE @ + Len(batch),
               !.next = Len(calls) + 1]
    /\ UNCHANGED <<status, reactCalls, compacting, stop, end, invoked, afterStop>>

Overspent == At("overspent") /\ EndTask("max_tool_calls")

-----------------------------------------------------------------------------
(* The calls of a batch, one after the other *)

Current == loop.next
Calling == At("calling") /\ Current \in DOMAIN calls
Becomes(s) == calls' = [calls EXCEPT ![Current].status = s]
Proceeds == loop' = [loop EXCEPT !.at = "calling", !.next = @ + 1]

StartTool ==
    /\ Calling /\ Preflight
    /\ Becomes("executing")
    /\ loop' = [loop EXCEPT !.at = "started"]
    /\ UNCHANGED <<status, reactCalls, compacting, stop, end, invoked, afterStop>>

StopsBeforeTool == Calling /\ ~Preflight /\ Stopped

(* An unknown tool, arguments beyond their limits: a failure like others. *)
RefuseTool ==
    /\ At("started")
    /\ Becomes("done") /\ Proceeds
    /\ UNCHANGED <<status, reactCalls, compacting, stop, end, invoked, afterStop>>

InvokeTool ==
    /\ At("started")
    /\ loop' = [loop EXCEPT !.at = "tool"]
    /\ invoked' = invoked \cup {Current}
    /\ afterStop' = IF stop = {} THEN afterStop ELSE Saturated(afterStop + 1, 1)
    /\ UNCHANGED <<status, calls, reactCalls, compacting, stop, end>>

ToolReturns ==
    /\ At("tool") /\ calls[Current].kind # "ask"
    /\ Becomes("done") /\ Proceeds
    /\ UNCHANGED <<status, reactCalls, compacting, stop, end, invoked, afterStop>>

(* A side effect nobody knows the outcome of: stopTask. *)
ToolLosesOutcome_GoesOn ==
    /\ Becomes("unknown") /\ Proceeds
    /\ UNCHANGED <<status, reactCalls, compacting, stop, end, invoked, afterStop>>
ToolLosesOutcome ==
    /\ Becomes("unknown")
    /\ loop' = [loop EXCEPT !.at = "unknown"]
    /\ UNCHANGED <<status, reactCalls, compacting, stop, end, invoked, afterStop>>
LoseOutcome ==
    /\ At("tool") /\ calls[Current].kind \in {"write", "exclusive"}
    /\ ToolLosesOutcome
StopTask == At("unknown") /\ EndTask("tool_state_unknown")

(* A question is kept until its siblings are through. *)
ToolAsks ==
    /\ At("tool") /\ calls[Current].kind = "ask"
    /\ Becomes("asked") /\ Proceeds
    /\ UNCHANGED <<status, reactCalls, compacting, stop, end, invoked, afterStop>>

(* The tool is aborted by the signal. *)
ToolAborts ==
    /\ At("tool") /\ "signal" \in stop
    /\ Abandon

Asked == {i \in DOMAIN calls : calls[i].status = "asked"}
BatchDone == At("calling") /\ Current \notin DOMAIN calls

EndTurn ==
    /\ BatchDone /\ Asked = {}
    /\ loop' = NextTurn
    /\ UNCHANGED <<status, calls, reactCalls, compacting, stop, end, invoked, afterStop>>

WaitForUserInput ==
    /\ BatchDone /\ Asked # {}
    /\ status' = "waiting"
    /\ loop' = [loop EXCEPT !.at = "gone"]
    /\ UNCHANGED <<calls, reactCalls, compacting, stop, end, invoked, afterStop>>

(* The last answer starts a run, with a deadline and a signal of its own. *)
AnswerUserInput ==
    /\ status = "waiting"
    /\ status' = "running"
    /\ calls' = [i \in DOMAIN calls |->
                    IF i \in Asked THEN [calls[i] EXCEPT !.status = "done"] ELSE calls[i]]
    /\ loop' = NewLoop
    /\ stop' = {} /\ afterStop' = 0
    /\ UNCHANGED <<reactCalls, compacting, end, invoked>>

Loop ==
    \/ OutOfTurns \/ LoadMessages \/ LoadFails \/ CallModel
    \/ ModelFails \/ FinalAnswer \/ StopsInTurn
    \/ RejectBatch \/ SaveBatch \/ Overspent
    \/ StartTool \/ StopsBeforeTool \/ RefuseTool \/ InvokeTool
    \/ ToolReturns \/ LoseOutcome \/ StopTask \/ ToolAsks \/ ToolAborts
    \/ EndTurn \/ WaitForUserInput

Next == Loop \/ (\E reason \in {"deadline", "signal"} : Stop(reason)) \/ AnswerUserInput

Spec == Init /\ [][Next]_vars

(* Models and tools have timeouts; the store answers or fails. *)
FairSpec == Spec /\ WF_vars(Loop)

-----------------------------------------------------------------------------
(* Properties *)

Stage == {"turn", "loaded", "model", "overspent", "calling", "started", "tool",
          "unknown", "gone"}
Reason == {"completed", "max_iterations", "max_tool_calls", "deadline_exceeded",
           "context_build_error", "model_error", "tool_state_unknown"}

TypeOK ==
    /\ status \in {"running", "waiting", "over"}
    /\ calls \in Seq(Call)
    /\ reactCalls \in Nat /\ compacting \in {0, 1} /\ afterStop \in Nat
    /\ loop \in [at : Stage, modelCalls : 0..MaxIterations, toolCalls : 0..MaxToolCalls,
                 input : SUBSET Nat, next : Nat]
    /\ stop \subseteq {"deadline", "signal"}
    /\ invoked \subseteq DOMAIN calls
    /\ end \in Reason \cup {"none"} /\ (status = "over" <=> end # "none")

(* However many runs a task has, its tools are invoked and its model is    *)
(* called no more often than the limits allow, and the batch that goes     *)
(* beyond them, stored as it is, is never executed.  Nor does a task fail  *)
(* for a limit before it has used it up: what it took to compact its       *)
(* context is not counted, nor anything twice.                             *)
BudgetsAreKept ==
    /\ reactCalls <= MaxIterations
    /\ Cardinality(invoked) <= MaxToolCalls
    /\ end = "max_iterations" => reactCalls = MaxIterations
    /\ end = "max_tool_calls" =>
        /\ Len(calls) > MaxToolCalls
        /\ \A i \in invoked : calls[i].output < calls[Len(calls)].output

(* A tool that writes, or is exclusive, is invoked only for a call the     *)
(* model made knowing the result of every call before it; writes of one    *)
(* output are made together.                                               *)
ChoicesAreInformed ==
    \A i \in invoked : \A j \in 1..(i - 1) :
        calls[i].kind \in {"write", "exclusive"} =>
            \/ j \in calls[i].input
            \/ calls[i].kind = "write" /\ calls[j].kind = "write"
                                       /\ calls[i].output = calls[j].output

(* A run that is told to stop, or is late, invokes at most the tool whose  *)
(* start it was waiting for.                                               *)
StopsInTime == afterStop <= 1

(* After a side effect whose outcome is unknown the task does nothing more. *)
UnknownIsLast ==
    \A i \in DOMAIN calls : calls[i].status = "unknown" => \A j \in invoked : j <= i

(* The model may go on calling tools and the user answering: the task does *)
(* not run forever.                                                        *)
TaskSettles == <>[](loop.at = "gone")
=============================================================================
