--------------------------- MODULE SessionDeletion ---------------------------
(***************************************************************************)
(* AgentRuntime.deleteSession for one session, on top of the processes it  *)
(* has to stop: the fence in the store, the executions that are aborted    *)
(* and waited for, the managed processes, the workspace with their launch  *)
(* specs, and the row.  Each step may fail or be cut off by a crash; the   *)
(* request is repeated, also while another one is under way.  The session  *)
(* may be created again under the same client key, and so the same id.     *)
(*                                                                         *)
(* Of the work of the session the model keeps one execution at a time for  *)
(* each time it was created, the tools it calls, and whether there is      *)
(* anything in the workspace.  An execution is loaded, with a look at the  *)
(* store, before it is registered, without one: what was loaded before the *)
(* fence may register at any time after it.                                *)
(***************************************************************************)
EXTENDS ManagedProcesses

CONSTANTS
    Deleter,        \* requests to delete the session
    MaxLives,       \* bound: how often the session is created
    None

ASSUME StopperAssumption == Stopper = Deleter \X Call
ASSUME LivesAssumption == MaxLives \in Nat
ASSUME OneSessionAssumption == \A p, q \in Call : SessionOf[p] = SessionOf[q]

VARIABLES
    row,            \* the row of the session
    lives,          \* counter for the bound
    execution,      \* of each creation of the session: what it is at
    made,           \* the calls of start_process the store has let start
    files,          \* is there anything in the workspace
    stream,         \* the event stream of the session
    deletion        \* the progress of each deletion

session == <<row, lives, execution, made, files, stream>>
allVars == <<vars, session, deletion>>

DeletionStage == {"idle", "fenced", "aborting", "aborted", "listing", "listed",
                  "stopping", "removing", "finalizing", "closing"}

Life == 1 .. MaxLives
ExecutionStage == {"none", "loaded", "running", "starting", "invoked"}

(* call: the start_process it is at, or None at any other tool. *)
NoExecution == [stage |-> "none", call |-> None]
Is(l, stage) == execution[l].stage = stage
ExecutionTo(l, stage, call) ==
    execution' = [execution EXCEPT ![l] = [stage |-> stage, call |-> call]]
AtTool(l) == Is(l, "starting") \/ Is(l, "invoked")
Registered(l) == Is(l, "running") \/ AtTool(l)

(* waits: the executions waited for; targets: the processes to stop; seen: *)
(* those there were, with their spec, when the list was made they come     *)
(* from.                                                                   *)
NoDeletion == [stage |-> "idle", waits |-> {}, targets |-> {}, seen |-> {}]
DeletionTo(d, stage) == deletion' = [deletion EXCEPT ![d].stage = stage]
Fails(d) == deletion' = [deletion EXCEPT ![d] = NoDeletion]
At(d, stage) == deletion[d].stage = stage

DeletionInit ==
    /\ Init
    /\ row = "none"
    /\ lives = 0
    /\ execution = [l \in Life |-> NoExecution]
    /\ made = {}
    /\ files = FALSE
    /\ stream = "open"
    /\ deletion = [d \in Deleter |-> NoDeletion]

-----------------------------------------------------------------------------
(* The session at work *)

CreateSession ==
    /\ runtime = "up"
    /\ row = "none"
    /\ lives < MaxLives
    /\ row' = "active"
    /\ lives' = lives + 1
    /\ stream' = "open"
    /\ UNCHANGED <<vars, execution, made, files, deletion>>

HasSession(l) == row = "active" /\ l = lives

(* The task and its run, as the store shows them to this worker. *)
LoadExecution(l) ==
    /\ runtime = "up"
    /\ Is(l, "none")
    /\ HasSession(l)
    /\ ExecutionTo(l, "loaded", None)
    /\ UNCHANGED <<vars, row, lives, made, files, stream, deletion>>

(* The store is not asked again, and nobody else tells it is too late. *)
RegisterExecution(l) ==
    /\ Is(l, "loaded")
    /\ ExecutionTo(l, "running", None)
    /\ UNCHANGED <<vars, row, lives, made, files, stream, deletion>>

(* The store lets a call start once, and only in the session it belongs    *)
(* to, as long as that is active; the tool is invoked after that.          *)
StartTool(l, call) ==
    /\ Is(l, "running")
    /\ HasSession(l)
    /\ call \notin made
    /\ made' = made \cup ({call} \cap Call)
    /\ ExecutionTo(l, "starting", call)
    /\ UNCHANGED <<vars, row, lives, files, stream, deletion>>

(* Every tool may put something into the workspace. *)
InvokeTool(l) ==
    /\ Is(l, "starting")
    /\ IF execution[l].call \in Call THEN StartProcess(execution[l].call)
                                     ELSE UNCHANGED vars
    /\ files' = TRUE
    /\ ExecutionTo(l, "invoked", execution[l].call)
    /\ UNCHANGED <<row, lives, made, stream, deletion>>

ToolReturns(l) ==
    /\ Is(l, "invoked")
    /\ execution[l].call \in Call => start[execution[l].call] = "idle"
    /\ ExecutionTo(l, "running", None)
    /\ UNCHANGED <<vars, row, lives, made, files, stream, deletion>>

(* The loop ends by itself, because the store refuses its next step, or    *)
(* because it was aborted.  Those who waited for the last one go on.       *)
WaitsLess(d, l) ==
    LET left == deletion[d].waits \ {l} IN
    [deletion[d] EXCEPT !.waits = left,
                        !.stage = IF @ = "aborting" /\ left = {} THEN "aborted" ELSE @]
ExecutionEnds(l) ==
    /\ Registered(l) /\ ~Is(l, "invoked")
    /\ ExecutionTo(l, "none", None)
    /\ deletion' = [d \in Deleter |-> WaitsLess(d, l)]
    /\ UNCHANGED <<vars, row, lives, made, files, stream>>

-----------------------------------------------------------------------------
(* deleteSession *)

(* beginDeletion: the fence.  That the session is gone already is no       *)
(* reason to leave the rest undone.  Its id is known once it was created.  *)
FencedStage_ActiveOnly == IF row = "active" THEN "fenced" ELSE "idle"
FencedStage == "fenced"
BeginDeletion(d) ==
    /\ runtime = "up"
    /\ At(d, "idle")
    /\ lives > 0
    /\ row' = IF row = "active" THEN "archived" ELSE row
    /\ DeletionTo(d, FencedStage)
    /\ UNCHANGED <<vars, lives, execution, made, files, stream>>

(* abortSessionExecutions finds those of the session id that are           *)
(* registered, and waits for them for a bounded time; not for any that     *)
(* registers later.                                                        *)
AbortExecutions_NoWait(d) == At(d, "fenced") /\ DeletionTo(d, "aborted")
                             /\ UNCHANGED <<vars, session>>
AbortExecutions(d) ==
    /\ At(d, "fenced")
    /\ LET found == {l \in Life : Registered(l)} IN
       deletion' = [deletion EXCEPT
           ![d].stage = IF found = {} THEN "aborted" ELSE "aborting",
           ![d].waits = found]
    /\ UNCHANGED <<vars, session>>

GraceIsOver(d) ==
    /\ At(d, "aborting")
    /\ Fails(d)
    /\ UNCHANGED <<vars, session>>

(* stopSessionProcesses: list, then stop what is active, all at once. *)
ListProcesses(d) ==
    /\ At(d, "aborted")
    /\ DeletionTo(d, "listing")
    /\ JoinRefresh
    /\ UNCHANGED <<system, runtime, registry, operations, bounds, session>>

Targets == {p \in Call : Swept[p] \in ActiveStatus}
Listed(d) ==
    IF At(d, "listing")
    THEN [stage |-> "listed",
          waits |-> {},
          targets |-> Targets,
          seen |-> {p \in refresh.spawned : spec[p]}]
    ELSE deletion[d]
FinishRefreshForAll ==
    /\ FinishRefresh
    /\ deletion' = [d \in Deleter |-> Listed(d)]
    /\ UNCHANGED session

RefreshFailsForAll ==
    /\ RefreshFails
    /\ deletion' = [d \in Deleter |-> IF At(d, "listing") THEN NoDeletion ELSE deletion[d]]
    /\ UNCHANGED session

(* A request made again waits for the stops of the one before: they share  *)
(* their slots in the model.                                               *)
StopProcesses(d) ==
    /\ At(d, "listed")
    /\ \A p \in deletion[d].targets : stop[<<d, p>>].stage = "idle"
    /\ stop' = [k \in Stopper |->
         IF k[1] = d /\ k[2] \in deletion[d].targets
         THEN [stage |-> "refreshing", call |-> k[2], current |-> FALSE] ELSE stop[k]]
    /\ IF deletion[d].targets = {} THEN UNCHANGED refresh ELSE JoinRefresh
    /\ DeletionTo(d, "stopping")
    /\ UNCHANGED <<system, runtime, registry, start, watched, bounds, session>>

Returned(d, p) == stop[<<d, p>>].stage = "returned"
AllStopped_Started(d) == \A p \in deletion[d].targets : stop[<<d, p>>].stage # "idle"
AllStopped(d) == \A p \in deletion[d].targets : Returned(d, p)
ProcessesStopped(d) ==
    /\ At(d, "stopping")
    /\ AllStopped(d)
    /\ DeletionTo(d, "removing")
    /\ UNCHANGED <<vars, session>>

(* One of the stops fails: so does the deletion. *)
StopFails(d) ==
    /\ At(d, "stopping")
    /\ \E p \in deletion[d].targets : stop[<<d, p>>].stage = "idle"
    /\ Fails(d)
    /\ UNCHANGED <<vars, session>>

(* The workspace, with the launch specs of its processes. *)
RemoveWorkspace(d) ==
    /\ At(d, "removing")
    /\ files' = FALSE
    /\ spec' = [p \in Call |-> FALSE]
    /\ DeletionTo(d, "finalizing")
    /\ UNCHANGED <<supervisor, serving, port, spawns, runtime, registry, refresh,
                   operations, bounds, row, lives, execution, made, stream>>

RemovalFails(d) ==
    /\ At(d, "removing")
    /\ Fails(d)
    /\ UNCHANGED <<vars, session>>

FinalizeDeletion(d) ==
    /\ At(d, "finalizing")
    /\ row' = IF row = "archived" THEN "none" ELSE row
    /\ DeletionTo(d, "closing")
    /\ UNCHANGED <<vars, lives, execution, made, files, stream>>

CloseStream(d) ==
    /\ At(d, "closing")
    /\ stream' = "closed"
    /\ deletion' = [deletion EXCEPT ![d] = NoDeletion]
    /\ UNCHANGED <<vars, row, lives, execution, made, files>>

Delete(d) ==
    \/ AbortExecutions(d) \/ GraceIsOver(d) \/ ListProcesses(d)
    \/ StopProcesses(d) \/ ProcessesStopped(d) \/ StopFails(d)
    \/ RemoveWorkspace(d) \/ RemovalFails(d) \/ FinalizeDeletion(d) \/ CloseStream(d)

-----------------------------------------------------------------------------
(* The manager at work.  The answer to a stop is taken by its deletion. *)

AnswerLost(k) == ~At(k[1], "stopping") /\ Answer(k)
Manager ==
    /\ \/ Tick \/ ListSupervisors
       \/ \E p \in Call : Probe(p) \/ ExitIsSeen(p)
       \/ \E p \in Call : start[p] # "idle" /\ Start(p)
       \/ \E k \in Stopper : FindSupervisor(k) \/ FinishStop(k)
                             \/ AnswerLost(k)
       \/ \E p \in Call : ServerListens(p) \/ ServerCloses(p) \/ SupervisorExits(p)
       \/ Boot
    /\ UNCHANGED <<session, deletion>>

Crash ==
    /\ GoDown
    /\ execution' = [l \in Life |-> NoExecution]
    /\ stream' = "open"
    /\ deletion' = [d \in Deleter |-> NoDeletion]
    /\ UNCHANGED <<row, lives, made, files>>

Work ==
    \/ CreateSession
    \/ \E l \in Life :
         \/ LoadExecution(l) \/ RegisterExecution(l)
         \/ \E call \in Call \cup {None} : StartTool(l, call)
         \/ InvokeTool(l) \/ ToolReturns(l) \/ ExecutionEnds(l)

DeletionNext ==
    \/ Work
    \/ \E d \in Deleter : BeginDeletion(d) \/ Delete(d)
    \/ FinishRefreshForAll \/ RefreshFailsForAll \/ Manager \/ Crash

DeletionSpec == DeletionInit /\ [][DeletionNext]_allVars

(* The client repeats its request until it succeeds; the executor, the     *)
(* manager and the system around them go on, and what may fail does not    *)
(* fail for ever.                                                          *)
DeletionFairness ==
    /\ WF_allVars(Boot /\ UNCHANGED <<session, deletion>>)
    /\ \A l \in Life : WF_allVars(InvokeTool(l) \/ ToolReturns(l) \/ ExecutionEnds(l))
    /\ WF_allVars((\E p \in Call : start[p] # "idle" /\ Start(p))
                  /\ UNCHANGED <<session, deletion>>)
    /\ WF_allVars(ListSupervisors /\ UNCHANGED <<session, deletion>>)
    /\ SF_allVars((ListSupervisors /\ runtime = "booting") /\ UNCHANGED <<session, deletion>>)
    /\ SF_allVars((ListSupervisors /\ \E k \in Stopper : stop[k].stage = "refreshing")
                  /\ UNCHANGED <<session, deletion>>)
    /\ WF_allVars((\E p \in Call : Probe(p)) /\ UNCHANGED <<session, deletion>>)
    /\ WF_allVars(FinishRefreshForAll)
    /\ \A k \in Stopper :
         WF_allVars((FindSupervisor(k) \/ FinishStop(k) \/ AnswerLost(k))
                    /\ UNCHANGED <<session, deletion>>)
    /\ \A d \in Deleter :
         /\ WF_allVars(BeginDeletion(d)) /\ WF_allVars(AbortExecutions(d))
         /\ WF_allVars(ListProcesses(d)) /\ WF_allVars(StopProcesses(d))
         /\ SF_allVars((ListSupervisors /\ At(d, "listing"))
                       /\ UNCHANGED <<session, deletion>>)
         /\ SF_allVars(ProcessesStopped(d)) /\ WF_allVars(StopFails(d))
         /\ SF_allVars(RemoveWorkspace(d)) /\ WF_allVars(FinalizeDeletion(d))
         /\ WF_allVars(CloseStream(d))
FairDeletionSpec == DeletionSpec /\ DeletionFairness

-----------------------------------------------------------------------------
(* Properties *)

DeletionTypeOK ==
    /\ TypeOK
    /\ row \in {"none", "active", "archived"}
    /\ lives \in 0 .. MaxLives
    /\ execution \in [Life -> [stage : ExecutionStage, call : Call \cup {None}]]
    /\ made \subseteq Call
    /\ files \in BOOLEAN
    /\ stream \in {"open", "closed"}
    /\ deletion \in [Deleter -> [stage : DeletionStage, waits : SUBSET Life,
                                 targets : SUBSET Call, seen : SUBSET Call]]

(* What was there when a deletion made its list is gone before the         *)
(* workspace is: no process loses its files, and its launch spec, under    *)
(* its feet.  (One spawned while the list was made may: see                *)
(* SessionDeletionDocs.)                                                   *)
ListedProcessesAreStopped ==
    \A d \in Deleter : \A p \in deletion[d].seen :
        At(d, "removing") /\ spec[p] => ~Alive(p)

(* When its row is gone, a session has left nothing in its workspace,      *)
(* launch specs included, whatever failed on the way and however often the *)
(* request was made; and nothing follows: an execution that was loaded     *)
(* before the fence and registered after the abort may linger, but no      *)
(* execution is at a tool unless its session is there, and none of a       *)
(* session that was deleted is at one in the session created again under   *)
(* its id.  (Two requests that overlap may leave something of a session    *)
(* that is created again in between.)                                      *)
NothingIsLeft ==
    /\ row = "none" => ~files /\ \A p \in Call : ~spec[p]
    /\ \A l \in Life : AtTool(l) => row # "none" /\ l = lives

(* A tombstone is kept until the session is clean, and a client that       *)
(* repeats its request gets it removed in the end.                         *)
TombstonesGo == row = "archived" ~> row = "none"
=============================================================================
