-------------------------- MODULE ManagedProcesses --------------------------
(***************************************************************************)
(* ManagedProcessManager: development servers that outlive the tool call   *)
(* that starts them, and the runtime itself.  The truth is the operating   *)
(* system and the launch specs on disk; the registry is a copy that a      *)
(* refresh brings up to date: it lists the supervisors with ps, probes     *)
(* each one's port, and at the end marks as exited what it has not listed. *)
(* There is one refresh at a time, and whoever asks for one while it is    *)
(* under way joins it, even if its list is older than the question.        *)
(*                                                                         *)
(* A process is named after the tool call that starts it.  A step ends     *)
(* where the code awaits the operating system.                             *)
(* Process ids are not reused while a check of theirs is being acted on.   *)
(***************************************************************************)
EXTENDS Naturals, FiniteSets

CONSTANTS
    Call,           \* tool calls of start_process
    Session,
    SessionOf,      \* the session of each call
    NameOf,         \* the name each call asks for
    Stopper,        \* those who may call stopProcess at the same time
    Port,           \* the configured range of ports
    MaxStarts,      \* bound: how often start_process is invoked
    MaxCrashes      \* bound: how often the runtime goes down

ASSUME SessionOfAssumption == SessionOf \in [Call -> Session]
ASSUME NameOfAssumption == DOMAIN NameOf = Call
ASSUME PortAssumption == Port \subseteq Nat \ {0} /\ IsFiniteSet(Port)
ASSUME BoundsAssumption == MaxStarts \in Nat /\ MaxCrashes \in Nat

VARIABLES
    supervisor,     \* what became of the supervisor of each call
    serving,        \* does the server of the call listen on its port
    port,           \* the port of its command line, 0 before it has one
    spec,           \* is its process.json, with that port, on disk
    spawns,         \* history: supervisors spawned for each call
    runtime,        \* the process of the runtime
    registry,       \* the status of each record; "none" without a record
    refresh,        \* the refresh under way
    start,          \* the progress of startProcess for each call
    stop,           \* the progress of each call of stopProcess
    watched,        \* processes whose exit recordUnexpectedExit waits for
    starts, crashes \* counters for the bounds

system == <<supervisor, serving, port, spec, spawns>>
operations == <<start, stop, watched>>
bounds == <<starts, crashes>>
vars == <<system, runtime, registry, refresh, operations, bounds>>

-----------------------------------------------------------------------------
(* States *)

ActiveStatus == {"starting", "running", "stopping"}
TerminalStatus == {"stopped", "exited", "failed", "unknown"}
Active(p) == registry[p] \in ActiveStatus
Alive(p) == supervisor[p] = "alive"
Open(n) == \E q \in Call : serving[q] /\ port[q] = n

StartStage == {"idle", "refreshing", "checked", "allocated", "writing",
               "discovering", "waiting", "terminating"}
StopStage == {"idle", "refreshing", "finding", "terminating", "returned"}

NoStop == [stage |-> "idle", call |-> CHOOSE p \in Call : TRUE, current |-> FALSE]
NoRefresh == [stage |-> "idle", listed |-> {}, todo |-> {}, spawned |-> {}]

StartTo(p, stage) == start' = [start EXCEPT ![p] = stage]
StopTo(k, stage) == stop' = [stop EXCEPT ![k].stage = stage]
Becomes(p, status) == registry' = [registry EXCEPT ![p] = status]

Init ==
    /\ supervisor = [p \in Call |-> "none"]
    /\ serving = [p \in Call |-> FALSE]
    /\ port = [p \in Call |-> 0]
    /\ spec = [p \in Call |-> FALSE]
    /\ spawns = [p \in Call |-> 0]
    /\ runtime = "down"
    /\ registry = [p \in Call |-> "none"]
    /\ refresh = NoRefresh
    /\ start = [p \in Call |-> "idle"]
    /\ stop = [k \in Stopper |-> NoStop]
    /\ watched = [p \in Call |-> FALSE]
    /\ starts = 0
    /\ crashes = 0

-----------------------------------------------------------------------------
(* refreshFromOperatingSystem *)

(* Start a refresh, or join the one under way. *)
JoinRefresh ==
    refresh' = IF refresh.stage = "idle"
               THEN [refresh EXCEPT !.stage = "asked"] ELSE refresh

Tick ==
    /\ runtime = "up"
    /\ refresh.stage = "idle"
    /\ JoinRefresh
    /\ UNCHANGED <<system, runtime, registry, operations, bounds>>

(* ps: its list is what runs at this moment. *)
ListSupervisors ==
    /\ refresh.stage = "asked"
    /\ refresh' = [stage |-> "listed",
                   listed |-> {p \in Call : Alive(p)},
                   todo |-> {p \in Call : Alive(p)},
                   spawned |-> {p \in Call : supervisor[p] # "none"}]
    /\ UNCHANGED <<system, runtime, registry, operations, bounds>>

(* One supervisor of the list: without a spec it is passed over; with one, *)
(* whatever listens on its port makes it running.                          *)
ProbedStatus(p) == IF Open(port[p]) THEN "running" ELSE "starting"
Probe(p) ==
    /\ refresh.stage = "listed"
    /\ p \in refresh.todo
    /\ IF ~spec[p]
       THEN /\ refresh' = [refresh EXCEPT !.todo = @ \ {p}, !.listed = @ \ {p}]
            /\ UNCHANGED registry
       ELSE /\ refresh' = [refresh EXCEPT !.todo = @ \ {p}]
            /\ Becomes(p, ProbedStatus(p))
    /\ UNCHANGED <<system, runtime, operations, bounds>>

(* At the end, what is active and not listed has exited.  Then those who   *)
(* waited go on, before anything else happens: a start returns an active   *)
(* record of its own and stops at a name that is taken; a stop answers     *)
(* with a record that is not active (without a record it is an error), and *)
(* remembers whether the process was there when the list was made.         *)
Swept_RunningOnly ==
    [p \in Call |-> IF registry[p] = "running" /\ p \notin refresh.listed
                    THEN "exited" ELSE registry[p]]
Swept == [p \in Call |-> IF Active(p) /\ p \notin refresh.listed
                         THEN "exited" ELSE registry[p]]
NameTaken(p) == \E q \in Call : /\ SessionOf[q] = SessionOf[p]
                               /\ NameOf[q] = NameOf[p]
                               /\ Swept[q] \in ActiveStatus
StartGoesOn(p) ==
    CASE start[p] = "refreshing" -> IF NameTaken(p) THEN "idle" ELSE "checked"
      [] start[p] = "discovering" -> "idle"
      [] OTHER -> start[p]
StopGoesOn(k) ==
    LET record == Swept[stop[k].call] IN
    IF stop[k].stage # "refreshing" THEN stop[k]
    ELSE IF record = "none" THEN NoStop
    ELSE [stop[k] EXCEPT !.stage = IF record \in ActiveStatus THEN "finding" ELSE "returned",
                         !.current = stop[k].call \in refresh.spawned]
FinishRefresh ==
    /\ refresh.stage = "listed"
    /\ refresh.todo = {}
    /\ registry' = Swept
    /\ refresh' = NoRefresh
    /\ start' = [p \in Call |-> StartGoesOn(p)]
    /\ stop' = [k \in Stopper |-> StopGoesOn(k)]
    /\ runtime' = IF runtime = "booting" THEN "up" ELSE runtime
    /\ UNCHANGED <<system, watched, bounds>>

(* ps fails: so do those who wait, and a boot with them. *)
RefreshFails ==
    /\ refresh.stage = "asked"
    /\ refresh' = NoRefresh
    /\ start' = [p \in Call |-> IF start[p] \in {"refreshing", "discovering"}
                                THEN "idle" ELSE start[p]]
    /\ stop' = [k \in Stopper |-> IF stop[k].stage = "refreshing"
                                  THEN NoStop ELSE stop[k]]
    /\ runtime' = IF runtime = "booting" THEN "down" ELSE runtime
    /\ UNCHANGED <<system, registry, watched, bounds>>

-----------------------------------------------------------------------------
(* startProcess.  A tool of a session starts one process at a time. *)

StartProcess(p) ==
    /\ runtime = "up"
    /\ starts < MaxStarts
    /\ \A q \in Call : SessionOf[q] = SessionOf[p] => start[q] = "idle"
    /\ StartTo(p, "refreshing")
    /\ JoinRefresh
    /\ starts' = starts + 1
    /\ UNCHANGED <<system, runtime, registry, stop, watched, crashes>>

(* The directory of the project is missing, or no port is free. *)
StartRefused(p) ==
    /\ start[p] = "checked"
    /\ StartTo(p, "idle")
    /\ UNCHANGED <<system, runtime, registry, refresh, stop, watched, bounds>>

(* The first free port of the range.  It is released before the server     *)
(* takes it.  A port given by the caller is tested in the same way.        *)
FreePorts == {n \in Port : ~Open(n)}
FirstOf(S) == CHOOSE n \in S : \A m \in S : n <= m
AllocatePort(p) ==
    /\ start[p] = "checked"
    /\ FreePorts # {}
    /\ port' = [port EXCEPT ![p] = IF spec[p] THEN @ ELSE FirstOf(FreePorts)]
    /\ StartTo(p, "allocated")
    /\ UNCHANGED <<supervisor, serving, spec, spawns, runtime, registry,
                   refresh, stop, watched, bounds>>

(* The supervisor and its spec are written with the flag wx: a call that   *)
(* has a spec already gets the record a refresh finds, or an error.        *)
SpecTaken_Overwritten(p) == FALSE
SpecTaken(p) == spec[p]
WriteSpec(p) ==
    /\ start[p] = "allocated"
    /\ IF SpecTaken(p)
       THEN StartTo(p, "discovering") /\ JoinRefresh /\ UNCHANGED spec
       ELSE StartTo(p, "writing") /\ spec' = [spec EXCEPT ![p] = TRUE] /\ UNCHANGED refresh
    /\ UNCHANGED <<supervisor, serving, port, spawns, runtime, registry, stop,
                   watched, bounds>>

Spawn(p) ==
    /\ start[p] = "writing"
    /\ supervisor' = [supervisor EXCEPT ![p] = "alive"]
    /\ spawns' = [spawns EXCEPT ![p] = @ + 1]
    /\ Becomes(p, "starting")
    /\ StartTo(p, "waiting")
    /\ UNCHANGED <<serving, port, spec, runtime, refresh, stop, watched, bounds>>

SpawnFails(p) ==
    /\ start[p] = "writing"
    /\ Becomes(p, "failed")
    /\ StartTo(p, "idle")
    /\ UNCHANGED <<system, runtime, refresh, stop, watched, bounds>>

(* Whichever comes first: the port answers, the supervisor exits, or the   *)
(* time is over or the tool aborted.                                       *)
PortAnswers(p) ==
    /\ start[p] = "waiting"
    /\ Open(port[p])
    /\ Becomes(p, "running")
    /\ watched' = [watched EXCEPT ![p] = TRUE]
    /\ StartTo(p, "idle")
    /\ UNCHANGED <<system, runtime, refresh, stop, bounds>>

ExitsBeforeReady(p) ==
    /\ start[p] = "waiting"
    /\ ~Alive(p)
    /\ Becomes(p, "failed")
    /\ StartTo(p, "idle")
    /\ UNCHANGED <<system, runtime, refresh, stop, watched, bounds>>

GiveUpStart(p) ==
    /\ start[p] = "waiting"
    /\ StartTo(p, "terminating")
    /\ UNCHANGED <<system, runtime, registry, refresh, stop, watched, bounds>>

(* SIGTERM, and at the end of the grace SIGKILL to the whole group; none   *)
(* if the supervisor is gone by then, whatever it leaves behind.           *)
Terminated_TermOnly(p) == UNCHANGED <<supervisor, serving>>
Terminated(p) ==
    IF Alive(p)
    THEN /\ supervisor' = [supervisor EXCEPT ![p] = "dead"]
         /\ serving' = [serving EXCEPT ![p] = FALSE]
    ELSE UNCHANGED <<supervisor, serving>>

StartFails(p) ==
    /\ start[p] = "terminating"
    /\ Terminated(p)
    /\ \E status \in {"stopped", "failed"} : Becomes(p, status)
    /\ StartTo(p, "idle")
    /\ UNCHANGED <<port, spec, spawns, runtime, refresh, stop, watched, bounds>>

Start(p) ==
    \/ StartProcess(p) \/ StartRefused(p) \/ AllocatePort(p)
    \/ WriteSpec(p) \/ Spawn(p) \/ SpawnFails(p) \/ PortAnswers(p)
    \/ ExitsBeforeReady(p) \/ GiveUpStart(p) \/ StartFails(p)

-----------------------------------------------------------------------------
(* stopProcess, for a tool or for a request of the user *)

StopProcess(k, p) ==
    /\ runtime = "up"
    /\ stop[k].stage = "idle"
    /\ stop' = [stop EXCEPT ![k] = [NoStop EXCEPT !.stage = "refreshing", !.call = p]]
    /\ JoinRefresh
    /\ UNCHANGED <<system, runtime, registry, start, watched, bounds>>

(* The supervisor is looked up by its marks: what is gone is not signalled. *)
FindSupervisor(k) ==
    /\ stop[k].stage = "finding"
    /\ IF Alive(stop[k].call)
       THEN Becomes(stop[k].call, "stopping") /\ StopTo(k, "terminating")
       ELSE Becomes(stop[k].call, "unknown") /\ StopTo(k, "returned")
    /\ UNCHANGED <<system, runtime, refresh, start, watched, bounds>>

FinishStop(k) ==
    /\ stop[k].stage = "terminating"
    /\ Terminated(stop[k].call)
    /\ Becomes(stop[k].call, "stopped")
    /\ StopTo(k, "returned")
    /\ UNCHANGED <<port, spec, spawns, runtime, refresh, start, watched, bounds>>

Answer(k) ==
    /\ stop[k].stage = "returned"
    /\ stop' = [stop EXCEPT ![k] = NoStop]
    /\ UNCHANGED <<system, runtime, registry, refresh, start, watched, bounds>>

Stop(k) == FindSupervisor(k) \/ FinishStop(k) \/ Answer(k)

(* recordUnexpectedExit *)
StatusAfterExit(p) ==
    CASE registry[p] = "stopping" -> "stopped"
      [] registry[p] \in {"starting", "running"} -> "exited"
      [] OTHER -> registry[p]
ExitIsSeen(p) ==
    /\ watched[p]
    /\ ~Alive(p)
    /\ Becomes(p, StatusAfterExit(p))
    /\ watched' = [watched EXCEPT ![p] = FALSE]
    /\ UNCHANGED <<system, runtime, refresh, start, stop, bounds>>

-----------------------------------------------------------------------------
(* The operating system and the process of the runtime *)

(* A server that cannot bind its port does not listen. *)
ServerListens(p) ==
    /\ Alive(p) /\ ~serving[p]
    /\ ~Open(port[p])
    /\ serving' = [serving EXCEPT ![p] = TRUE]
    /\ UNCHANGED <<supervisor, port, spec, spawns, runtime, registry, refresh,
                   operations, bounds>>

ServerCloses(p) ==
    /\ serving[p]
    /\ serving' = [serving EXCEPT ![p] = FALSE]
    /\ UNCHANGED <<supervisor, port, spec, spawns, runtime, registry, refresh,
                   operations, bounds>>

(* A supervisor exits after its server, or alone and leaves it behind. *)
SupervisorExits(p) ==
    /\ Alive(p)
    /\ supervisor' = [supervisor EXCEPT ![p] = "dead"]
    /\ UNCHANGED <<serving, port, spec, spawns, runtime, registry, refresh,
                   operations, bounds>>

(* The runtime ends, by shutdown or crash: servers go on. *)
GoDown ==
    /\ runtime # "down"
    /\ crashes < MaxCrashes
    /\ crashes' = crashes + 1
    /\ runtime' = "down"
    /\ registry' = [p \in Call |-> "none"]
    /\ refresh' = NoRefresh
    /\ start' = [p \in Call |-> "idle"]
    /\ stop' = [k \in Stopper |-> NoStop]
    /\ watched' = [p \in Call |-> FALSE]
    /\ UNCHANGED <<system, starts>>

(* start(): nothing is served before the first refresh is over. *)
Boot ==
    /\ runtime = "down"
    /\ runtime' = "booting"
    /\ JoinRefresh
    /\ UNCHANGED <<system, registry, operations, bounds>>

Refresh == ListSupervisors \/ (\E p \in Call : Probe(p)) \/ FinishRefresh
Next ==
    \/ Tick \/ Refresh \/ RefreshFails
    \/ \E p \in Call : Start(p) \/ ExitIsSeen(p)
    \/ \E k \in Stopper : Stop(k) \/ \E p \in Call : StopProcess(k, p)
    \/ \E p \in Call : ServerListens(p) \/ ServerCloses(p) \/ SupervisorExits(p)
    \/ GoDown \/ Boot

Spec == Init /\ [][Next]_vars

(* The timer goes on, and ps succeeds again and again. *)
Fairness ==
    /\ WF_vars(Tick) /\ WF_vars(Boot)
    /\ SF_vars(ListSupervisors)
    /\ WF_vars((\E p \in Call : Probe(p)) \/ FinishRefresh)
FairSpec == Spec /\ Fairness

-----------------------------------------------------------------------------
(* Properties *)

TypeOK ==
    /\ supervisor \in [Call -> {"none", "alive", "dead"}]
    /\ serving \in [Call -> BOOLEAN]
    /\ port \in [Call -> Port \cup {0}]
    /\ spec \in [Call -> BOOLEAN]
    /\ spawns \in [Call -> Nat]
    /\ runtime \in {"down", "booting", "up"}
    /\ registry \in [Call -> {"none"} \cup ActiveStatus \cup TerminalStatus]
    /\ refresh \in [stage : {"idle", "asked", "listed"}, listed : SUBSET Call,
                    todo : SUBSET Call, spawned : SUBSET Call]
    /\ start \in [Call -> StartStage]
    /\ stop \in [Stopper -> [stage : StopStage, call : Call, current : BOOLEAN]]
    /\ watched \in [Call -> BOOLEAN]
    /\ starts \in 0 .. MaxStarts
    /\ crashes \in 0 .. MaxCrashes

(* A call starts at most one process, however often it is invoked and      *)
(* whatever was restarted in between.                                      *)
OneProcessPerCall == \A p \in Call : spawns[p] <= 1

(* When stopProcess answers, the supervisor is gone, unless the list it    *)
(* relied on is older than the process.                                    *)
StoppedIsGone ==
    \A k \in Stopper :
        stop[k].stage = "returned" /\ stop[k].current => ~Alive(stop[k].call)

(* The registry converges: a process that stays alive ends up active, and  *)
(* one that is gone ends up not active, whatever the refreshes under way   *)
(* thought of it.                                                          *)
RegistryConverges ==
    \A p \in Call :
        /\ <>[](Alive(p) /\ spec[p]) => <>[](runtime = "up" => Active(p))
        /\ <>[](supervisor[p] = "dead") => <>[](runtime = "up" => ~Active(p))
=============================================================================
