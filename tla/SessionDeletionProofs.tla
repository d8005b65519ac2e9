------------------------ MODULE SessionDeletionProofs ------------------------
(* Theorems about ManagedProcesses and about SessionDeletion on top of it, *)
(* for every set of calls, of ports and of requests.  Both rest on the same *)
(* two facts: a process is spawned only for a call that never had one, and *)
(* a refresh overlooks no process that was there when it made its list.    *)
EXTENDS SessionDeletion, TLAPS

USE DEF system, operations, bounds, vars
USE DEF ActiveStatus, TerminalStatus, StartStage, StopStage

-----------------------------------------------------------------------------
(* The manager. *)

(* Without a call there is nothing to stop, and NoStop names no call. *)
ProcessTypes ==
    /\ supervisor \in [Call -> {"none", "alive", "dead"}]
    /\ serving \in [Call -> BOOLEAN]
    /\ spec \in [Call -> BOOLEAN]
    /\ spawns \in [Call -> Nat]
    /\ watched \in [Call -> BOOLEAN]

RegistryTypes ==
    /\ registry \in [Call -> {"none"} \cup ActiveStatus \cup TerminalStatus]
    /\ refresh \in [stage : {"idle", "asked", "listed"}, listed : SUBSET Call,
                    todo : SUBSET Call, spawned : SUBSET Call]

OperationTypes ==
    /\ start \in [Call -> StartStage]
    /\ stop \in [Stopper -> [stage : StopStage, call : Call \cup {NoStop.call},
                             current : BOOLEAN]]

ManagerTypes == ProcessTypes /\ RegistryTypes /\ OperationTypes

(* A call that is about to write its first spec, or to spawn. *)
AboutToSpawn(p) == start[p] = "writing" \/ (start[p] = "allocated" /\ ~spec[p])

(* It has no supervisor yet. *)
FreshStarts == \A p \in Call : AboutToSpawn(p) => supervisor[p] = "none"

SpawnedOnce ==
    \A p \in Call : /\ supervisor[p] = "none" => spawns[p] = 0
                    /\ spawns[p] <= 1

(* A process the manager can know of. *)
Known(p) == Alive(p) /\ spec[p]

(* A process that was there when the list was made is in it as long as it  *)
(* lives, and unless it has yet to be probed its record is active.         *)
ListIsComplete ==
    refresh.stage = "listed" =>
        \A p \in refresh.spawned :
            /\ supervisor[p] # "none"
            /\ Known(p) => p \in refresh.listed /\ (p \in refresh.todo \/ Active(p))

ManagerInv == ManagerTypes /\ FreshStarts /\ SpawnedOnce /\ ListIsComplete

(* What no step takes back. *)
ProcessesStay ==
    \A p \in Call :
        supervisor[p] # "none" =>
            /\ supervisor'[p] # "none"
            /\ Known(p)' => Known(p)

(* What a step may do to the process of a call ... *)
ProcessMoves(p) ==
    \/ /\ supervisor'[p] = supervisor[p] /\ spawns'[p] = spawns[p]
       /\ spec'[p] = spec[p] \/ supervisor[p] = "none" \/ ~spec'[p]
    \/ /\ supervisor[p] = "alive" /\ supervisor'[p] = "dead"
       /\ spawns'[p] = spawns[p] /\ spec'[p] = spec[p]
    \/ /\ supervisor[p] = "none" /\ supervisor'[p] = "alive"
       /\ spawns'[p] = spawns[p] + 1 /\ spec'[p] = spec[p]

(* ... and to the list under way and the records. *)
ListKept ==
    refresh'.stage = "listed" =>
        /\ refresh' = refresh
        /\ \A p \in Call : Active(p) => Active(p)' \/ ~Known(p)' \/ supervisor[p] = "none"

(* What a list shows was there when it was made. *)
ListMoves ==
    refresh'.stage = "listed" =>
        \/ refresh.stage = "listed" /\ refresh'.spawned = refresh.spawned
        \/ refresh'.spawned = {p \in Call : supervisor[p] # "none"}

LEMMA NoRefreshType ==
    /\ NoRefresh \in [stage : {"idle", "asked", "listed"}, listed : SUBSET Call,
                      todo : SUBSET Call, spawned : SUBSET Call]
    /\ NoRefresh.stage = "idle"
  BY DEF NoRefresh

LEMMA NoStopType ==
    /\ NoStop \in [stage : StopStage, call : Call \cup {NoStop.call}, current : BOOLEAN]
    /\ NoStop.stage = "idle" /\ NoStop.current = FALSE
  BY DEF NoStop

LEMMA JoinRefreshType ==
    ASSUME RegistryTypes, JoinRefresh
    PROVE  /\ refresh' \in [stage : {"idle", "asked", "listed"}, listed : SUBSET Call,
                            todo : SUBSET Call, spawned : SUBSET Call]
           /\ refresh'.stage = "listed" => refresh' = refresh
  BY DEF RegistryTypes, JoinRefresh

(* The records after a refresh: an active one stays if it is listed. *)
LEMMA SweptRecords ==
    ASSUME RegistryTypes
    PROVE  /\ Swept \in [Call -> {"none"} \cup ActiveStatus \cup TerminalStatus]
           /\ \A p \in refresh.listed \cap Call : Active(p) => Swept[p] \in ActiveStatus
  BY DEF RegistryTypes, Swept, Active

LEMMA StartGoesOnType ==
    ASSUME OperationTypes, NEW p \in Call
    PROVE  /\ StartGoesOn(p) \in StartStage
           /\ \/ StartGoesOn(p) \in {"idle", start[p]}
              \/ start[p] = "refreshing" /\ StartGoesOn(p) = "checked"
  BY DEF OperationTypes, StartGoesOn

LEMMA StopGoesOnType ==
    ASSUME OperationTypes, NEW k \in Stopper
    PROVE  /\ StopGoesOn(k) \in [stage : StopStage, call : Call \cup {NoStop.call},
                                 current : BOOLEAN]
           /\ \/ stop[k].stage # "refreshing" /\ StopGoesOn(k) = stop[k]
              \/ StopGoesOn(k) = NoStop
              \/ /\ stop[k].stage = "refreshing"
                 /\ StopGoesOn(k).call = stop[k].call
                 /\ StopGoesOn(k).current = (stop[k].call \in refresh.spawned)
                 /\ Swept[stop[k].call] # "none"
                 /\ StopGoesOn(k).stage = IF Swept[stop[k].call] \in ActiveStatus
                                          THEN "finding" ELSE "returned"
<1>1. stop[k] \in [stage : StopStage, call : Call \cup {NoStop.call}, current : BOOLEAN]
  BY DEF OperationTypes
<1>2. CASE stop[k].stage # "refreshing"
  BY <1>1, <1>2 DEF StopGoesOn
<1>3. CASE stop[k].stage = "refreshing" /\ Swept[stop[k].call] = "none"
  BY <1>3, NoStopType DEF StopGoesOn
<1>4. CASE stop[k].stage = "refreshing" /\ Swept[stop[k].call] # "none"
  <2> DEFINE stage == IF Swept[stop[k].call] \in ActiveStatus THEN "finding" ELSE "returned"
  <2>1. StopGoesOn(k) = [stop[k] EXCEPT !.stage = stage,
                                        !.current = stop[k].call \in refresh.spawned]
    BY <1>4 DEF StopGoesOn
  <2>2. stage \in StopStage
    OBVIOUS
  <2> HIDE DEF stage
  <2>3. StopGoesOn(k) = [stage |-> stage, call |-> stop[k].call,
                         current |-> stop[k].call \in refresh.spawned]
    BY <1>1, <2>1
  <2>4. StopGoesOn(k) \in [stage : StopStage, call : Call \cup {NoStop.call}, current : BOOLEAN]
    BY <1>1, <2>2, <2>3
  <2>. QED
    BY <1>4, <2>3, <2>4 DEF stage
<1>. QED
  BY <1>2, <1>3, <1>4

LEMMA ProcessesMove ==
    ASSUME ManagerTypes, SpawnedOnce, \A p \in Call : ProcessMoves(p)
    PROVE  SpawnedOnce' /\ ProcessesStay
<1>1. \A p \in Call : spawns[p] \in Nat /\ spec[p] \in BOOLEAN
  BY DEF ManagerTypes, ProcessTypes
<1>2. SpawnedOnce'
  BY <1>1 DEF SpawnedOnce, ProcessMoves
<1>3. ProcessesStay
  BY DEF ProcessesStay, ProcessMoves, Known, Alive
<1>. QED
  BY <1>2, <1>3

LEMMA ListStays ==
    ASSUME ManagerTypes, ListIsComplete, ProcessesStay, ListKept
    PROVE  ListIsComplete'
<1> SUFFICES ASSUME refresh'.stage = "listed", NEW p \in refresh'.spawned
             PROVE  /\ supervisor'[p] # "none"
                    /\ Known(p)' => p \in refresh'.listed /\ (p \in refresh'.todo \/ Active(p)')
  BY DEF ListIsComplete, Known, Alive, Active
<1>1. refresh' = refresh /\ p \in Call
  BY DEF ListKept, ManagerTypes, RegistryTypes
<1>2. /\ supervisor[p] # "none"
      /\ Known(p) => p \in refresh.listed /\ (p \in refresh.todo \/ Active(p))
  BY <1>1 DEF ListIsComplete
<1>3. supervisor'[p] # "none" /\ (Known(p)' => Known(p))
  BY <1>1, <1>2 DEF ProcessesStay
<1>4. Active(p) => Active(p)' \/ ~Known(p)'
  BY <1>1, <1>2 DEF ListKept
<1>. QED
  BY <1>1, <1>2, <1>3, <1>4

(* A step that leaves processes, specs and records as they are. *)
LEMMA QuietStep ==
    ASSUME ManagerTypes, UNCHANGED <<supervisor, spec, spawns, registry>>,
           JoinRefresh \/ UNCHANGED refresh
    PROVE  /\ RegistryTypes' /\ ListKept
           /\ \A p \in Call : ProcessMoves(p)
<1>1. RegistryTypes'
  BY JoinRefreshType DEF ManagerTypes, RegistryTypes
<1>2. ListKept
  BY JoinRefreshType DEF ManagerTypes, ListKept, Active
<1>. QED
  BY <1>1, <1>2 DEF ProcessMoves

(* A step that gives one call another record. *)
LEMMA RecordStep ==
    ASSUME ManagerTypes, NEW p \in Call,
           NEW status \in {"none"} \cup ActiveStatus \cup TerminalStatus,
           Becomes(p, status), UNCHANGED refresh,
           status \in ActiveStatus \/ ~Known(p)' \/ supervisor[p] = "none"
    PROVE  RegistryTypes' /\ ListKept
<1>1. RegistryTypes'
  BY DEF ManagerTypes, RegistryTypes, Becomes
<1>2. ListKept
  BY DEF ManagerTypes, RegistryTypes, Becomes, ListKept, Active
<1>. QED
  BY <1>1, <1>2

-----------------------------------------------------------------------------
(* The steps of the manager, of the operating system and of the runtime. *)

Moved == ManagerTypes' /\ ListKept /\ \A p \in Call : ProcessMoves(p)

LEMMA StartToType ==
    ASSUME ManagerTypes, NEW p \in Call, NEW stage \in StartStage, StartTo(p, stage), UNCHANGED stop
    PROVE  OperationTypes'
  BY DEF ManagerTypes, OperationTypes, StartTo

LEMMA StopToType ==
    ASSUME ManagerTypes, NEW k \in Stopper, NEW stage \in StopStage, StopTo(k, stage),
           UNCHANGED start
    PROVE  /\ OperationTypes' /\ stop'[k].stage = stage
           /\ stop'[k].call = stop[k].call /\ stop'[k].current = stop[k].current
           /\ \A j \in Stopper \ {k} : stop'[j] = stop[j]
  BY DEF ManagerTypes, OperationTypes, StopTo

LEMMA StartProcessStep ==
    ASSUME ManagerTypes, NEW p \in Call, StartProcess(p)
    PROVE  Moved
<1>1. /\ UNCHANGED <<supervisor, serving, spec, spawns, registry, watched, stop>>
      /\ StartTo(p, "refreshing") /\ JoinRefresh
  BY DEF StartProcess
<1>2. OperationTypes'
  BY <1>1, StartToType
<1>. QED
  BY <1>1, <1>2, QuietStep DEF Moved, ManagerTypes, ProcessTypes

LEMMA QuietStartStep ==
    ASSUME ManagerTypes, NEW p \in Call, StartRefused(p) \/ AllocatePort(p) \/ GiveUpStart(p)
    PROVE  Moved
<1>1. /\ UNCHANGED <<supervisor, serving, spec, spawns, registry, watched, stop, refresh>>
      /\ \E stage \in {"idle", "allocated", "terminating"} : StartTo(p, stage)
  BY DEF StartRefused, AllocatePort, GiveUpStart
<1>2. OperationTypes'
  BY <1>1, StartToType
<1>. QED
  BY <1>1, <1>2, QuietStep DEF Moved, ManagerTypes, ProcessTypes

LEMMA WriteSpecStep ==
    ASSUME ManagerTypes, FreshStarts, NEW p \in Call, WriteSpec(p)
    PROVE  Moved
<1>1. UNCHANGED <<supervisor, serving, spawns, registry, watched, stop>>
  BY DEF WriteSpec
<1>2. CASE spec[p]
  <2>1. StartTo(p, "discovering") /\ JoinRefresh /\ UNCHANGED spec
    BY <1>2 DEF WriteSpec, SpecTaken
  <2>2. OperationTypes'
    BY <1>1, <2>1, StartToType
  <2>. QED
    BY <1>1, <2>1, <2>2, QuietStep DEF Moved, ManagerTypes, ProcessTypes
<1>3. CASE ~spec[p]
  <2>1. /\ StartTo(p, "writing") /\ spec' = [spec EXCEPT ![p] = TRUE] /\ UNCHANGED refresh
        /\ supervisor[p] = "none"
    BY <1>3 DEF WriteSpec, SpecTaken, FreshStarts, AboutToSpawn
  <2>2. OperationTypes'
    BY <1>1, <2>1, StartToType
  <2>3. ProcessTypes' /\ RegistryTypes'
    BY <1>1, <2>1 DEF ManagerTypes, ProcessTypes, RegistryTypes
  <2>4. \A q \in Call : ProcessMoves(q)
    BY <1>1, <2>1 DEF ProcessMoves, ManagerTypes, ProcessTypes
  <2>5. ListKept
    BY <1>1, <2>1 DEF ListKept, Active
  <2>. QED
    BY <2>2, <2>3, <2>4, <2>5 DEF Moved, ManagerTypes
<1>. QED
  BY <1>2, <1>3

LEMMA SpawnStep ==
    ASSUME ManagerTypes, FreshStarts, NEW p \in Call, Spawn(p)
    PROVE  Moved
<1>1. /\ UNCHANGED <<serving, spec, watched, stop, refresh>>
      /\ supervisor' = [supervisor EXCEPT ![p] = "alive"]
      /\ spawns' = [spawns EXCEPT ![p] = @ + 1]
      /\ Becomes(p, "starting") /\ StartTo(p, "waiting")
  BY DEF Spawn
<1>2. supervisor[p] = "none"
  BY DEF Spawn, FreshStarts, AboutToSpawn
<1>3. ProcessTypes' /\ \A q \in Call : ProcessMoves(q)
  BY <1>1, <1>2 DEF ManagerTypes, ProcessTypes, ProcessMoves
<1>. QED
  BY <1>1, <1>2, <1>3, RecordStep, StartToType DEF Moved, ManagerTypes

(* The supervisor of p is left alone, or is dead after the step. *)
LEMMA TerminatedMoves ==
    ASSUME ManagerTypes, NEW p \in Call, Terminated(p) \/ UNCHANGED <<supervisor, serving>>,
           UNCHANGED <<spec, spawns, watched>>
    PROVE  /\ ProcessTypes' /\ \A q \in Call : ProcessMoves(q)
           /\ Terminated(p) => ~Alive(p)' /\ ~Known(p)'
<1>1. CASE UNCHANGED <<supervisor, serving>>
  BY <1>1 DEF ManagerTypes, ProcessTypes, ProcessMoves, Terminated, Alive, Known
<1>2. CASE Terminated(p) /\ Alive(p)
  <2>1. /\ supervisor' = [supervisor EXCEPT ![p] = "dead"]
        /\ serving' = [serving EXCEPT ![p] = FALSE]
    BY <1>2 DEF Terminated
  <2>. QED
    BY <1>2, <2>1 DEF ManagerTypes, ProcessTypes, ProcessMoves, Alive, Known
<1>. QED
  BY <1>1, <1>2 DEF Terminated

LEMMA EndOfStartStep ==
    ASSUME ManagerTypes, FreshStarts, NEW p \in Call,
           SpawnFails(p) \/ PortAnswers(p) \/ ExitsBeforeReady(p) \/ StartFails(p)
    PROVE  Moved
<1>1. UNCHANGED <<spec, spawns, stop, refresh>> /\ StartTo(p, "idle")
  BY DEF SpawnFails, PortAnswers, ExitsBeforeReady, StartFails
<1>2. OperationTypes'
  BY <1>1, StartToType
<1>3. CASE SpawnFails(p)
  <2>1. Becomes(p, "failed") /\ supervisor[p] = "none" /\ UNCHANGED <<supervisor, serving, watched>>
    BY <1>3 DEF SpawnFails, FreshStarts, AboutToSpawn
  <2>. QED
    BY <1>1, <1>2, <2>1, RecordStep, TerminatedMoves DEF Moved, ManagerTypes
<1>4. CASE PortAnswers(p)
  <2>1. Becomes(p, "running") /\ UNCHANGED <<supervisor, serving>>
        /\ watched' = [watched EXCEPT ![p] = TRUE]
    BY <1>4 DEF PortAnswers
  <2>2. ProcessTypes' /\ \A q \in Call : ProcessMoves(q)
    BY <1>1, <2>1 DEF ManagerTypes, ProcessTypes, ProcessMoves
  <2>. QED
    BY <1>1, <1>2, <2>1, <2>2, RecordStep DEF Moved, ManagerTypes
<1>5. CASE ExitsBeforeReady(p)
  <2>1. Becomes(p, "failed") /\ ~Alive(p) /\ UNCHANGED <<supervisor, serving, watched>>
    BY <1>5 DEF ExitsBeforeReady
  <2>2. ~Known(p)'
    BY <2>1 DEF Known, Alive
  <2>. QED
    BY <1>1, <1>2, <2>1, <2>2, RecordStep, TerminatedMoves DEF Moved, ManagerTypes
<1>6. CASE StartFails(p)
  <2>1. PICK status \in {"stopped", "failed"} : Becomes(p, status)
    BY <1>6 DEF StartFails
  <2>2. Terminated(p) /\ UNCHANGED watched
    BY <1>6 DEF StartFails
  <2>. QED
    BY <1>1, <1>2, <2>1, <2>2, RecordStep, TerminatedMoves DEF Moved, ManagerTypes
<1>. QED
  BY <1>3, <1>4, <1>5, <1>6

LEMMA StopProcessStep ==
    ASSUME ManagerTypes, NEW k \in Stopper, NEW p \in Call, StopProcess(k, p)
    PROVE  Moved
<1>1. /\ UNCHANGED <<supervisor, serving, spec, spawns, registry, watched, start>>
      /\ stop' = [stop EXCEPT ![k] = [NoStop EXCEPT !.stage = "refreshing", !.call = p]]
      /\ JoinRefresh
  BY DEF StopProcess
<1>2. [NoStop EXCEPT !.stage = "refreshing", !.call = p]
          \in [stage : StopStage, call : Call \cup {NoStop.call}, current : BOOLEAN]
  BY DEF NoStop
<1>3. OperationTypes'
  BY <1>1, <1>2 DEF ManagerTypes, OperationTypes
<1>. QED
  BY <1>1, <1>3, QuietStep DEF Moved, ManagerTypes, ProcessTypes

LEMMA StopStep ==
    ASSUME ManagerTypes, NEW k \in Stopper, NEW p \in Call, stop[k].call = p,
           FindSupervisor(k) \/ FinishStop(k)
    PROVE  /\ Moved
           /\ stop'[k].stage \in {"terminating", "returned"}
           /\ stop'[k].call = p /\ stop'[k].current = stop[k].current
           /\ \A j \in Stopper \ {k} : stop'[j] = stop[j]
           /\ stop'[k].stage = "returned" => ~Alive(p)'
<1>1. UNCHANGED <<spec, spawns, watched, start, refresh>>
  BY DEF FindSupervisor, FinishStop
<1>2. CASE FindSupervisor(k) /\ Alive(p)
  <2>1. Becomes(p, "stopping") /\ StopTo(k, "terminating") /\ UNCHANGED <<supervisor, serving>>
    BY <1>2 DEF FindSupervisor
  <2>2. /\ OperationTypes' /\ stop'[k].stage = "terminating"
        /\ stop'[k].call = p /\ stop'[k].current = stop[k].current
        /\ \A j \in Stopper \ {k} : stop'[j] = stop[j]
    BY <1>1, <2>1, StopToType
  <2>. QED
    BY <1>1, <2>1, <2>2, RecordStep, TerminatedMoves DEF Moved, ManagerTypes
<1>3. CASE FindSupervisor(k) /\ ~Alive(p)
  <2>1. Becomes(p, "unknown") /\ StopTo(k, "returned") /\ UNCHANGED <<supervisor, serving>>
    BY <1>3 DEF FindSupervisor
  <2>2. /\ OperationTypes' /\ stop'[k].stage = "returned"
        /\ stop'[k].call = p /\ stop'[k].current = stop[k].current
        /\ \A j \in Stopper \ {k} : stop'[j] = stop[j]
    BY <1>1, <2>1, StopToType
  <2>3. ~Alive(p)' /\ ~Known(p)'
    BY <1>3, <2>1 DEF Alive, Known
  <2>. QED
    BY <1>1, <2>1, <2>2, <2>3, RecordStep, TerminatedMoves DEF Moved, ManagerTypes
<1>4. CASE FinishStop(k)
  <2>1. Becomes(p, "stopped") /\ StopTo(k, "returned") /\ Terminated(p)
    BY <1>4 DEF FinishStop
  <2>2. /\ OperationTypes' /\ stop'[k].stage = "returned"
        /\ stop'[k].call = p /\ stop'[k].current = stop[k].current
        /\ \A j \in Stopper \ {k} : stop'[j] = stop[j]
    BY <1>1, <2>1, StopToType
  <2>3. ~Alive(p)' /\ ~Known(p)' /\ ProcessTypes' /\ \A q \in Call : ProcessMoves(q)
    BY <1>1, <2>1, TerminatedMoves
  <2>. QED
    BY <1>1, <2>1, <2>2, <2>3, RecordStep DEF Moved, ManagerTypes
<1>. QED
  BY <1>2, <1>3, <1>4

LEMMA AnswerStep ==
    ASSUME ManagerTypes, NEW k \in Stopper, Answer(k)
    PROVE  Moved
<1>1. /\ UNCHANGED <<supervisor, serving, spec, spawns, registry, watched, start, refresh>>
      /\ stop' = [stop EXCEPT ![k] = NoStop]
  BY DEF Answer
<1>2. OperationTypes'
  BY <1>1, NoStopType DEF ManagerTypes, OperationTypes
<1>. QED
  BY <1>1, <1>2, QuietStep DEF Moved, ManagerTypes, ProcessTypes

LEMMA ExitIsSeenStep ==
    ASSUME ManagerTypes, NEW p \in Call, ExitIsSeen(p)
    PROVE  Moved
<1>1. /\ UNCHANGED <<supervisor, serving, spec, spawns, start, stop, refresh>> /\ ~Alive(p)
      /\ Becomes(p, StatusAfterExit(p)) /\ watched' = [watched EXCEPT ![p] = FALSE]
  BY DEF ExitIsSeen
<1>2. StatusAfterExit(p) \in {"none"} \cup ActiveStatus \cup TerminalStatus
  BY DEF StatusAfterExit, ManagerTypes, RegistryTypes
<1>3. ~Known(p)' /\ OperationTypes'
  BY <1>1 DEF Known, Alive, ManagerTypes, OperationTypes
<1>4. ProcessTypes' /\ \A q \in Call : ProcessMoves(q)
  BY <1>1 DEF ManagerTypes, ProcessTypes, ProcessMoves
<1>. QED
  BY <1>1, <1>2, <1>3, <1>4, RecordStep DEF Moved, ManagerTypes

LEMMA SystemStep ==
    ASSUME ManagerTypes, NEW p \in Call, ServerListens(p) \/ ServerCloses(p) \/ SupervisorExits(p)
    PROVE  Moved
<1>1. UNCHANGED <<spec, spawns, registry, refresh, start, stop, watched>>
  BY DEF ServerListens, ServerCloses, SupervisorExits
<1>2. RegistryTypes' /\ OperationTypes' /\ ListKept
  BY <1>1 DEF ManagerTypes, RegistryTypes, OperationTypes, ListKept, Active
<1>3. ProcessTypes' /\ \A q \in Call : ProcessMoves(q)
  <2>1. CASE ServerListens(p) \/ ServerCloses(p)
    BY <1>1, <2>1 DEF ServerListens, ServerCloses, ManagerTypes, ProcessTypes, ProcessMoves
  <2>2. CASE SupervisorExits(p)
    BY <1>1, <2>2 DEF SupervisorExits, Alive, ManagerTypes, ProcessTypes, ProcessMoves
  <2>. QED
    BY <2>1, <2>2
<1>. QED
  BY <1>2, <1>3 DEF Moved, ManagerTypes

LEMMA TickOrBootStep ==
    ASSUME ManagerTypes, Tick \/ Boot
    PROVE  Moved
<1>1. /\ UNCHANGED <<supervisor, serving, spec, spawns, registry, watched, start, stop>>
      /\ JoinRefresh
  BY DEF Tick, Boot
<1>. QED
  BY <1>1, QuietStep DEF Moved, ManagerTypes, ProcessTypes, OperationTypes

LEMMA RefreshEndsStep ==
    ASSUME ManagerTypes, FinishRefresh \/ RefreshFails \/ GoDown
    PROVE  Moved
<1>1. UNCHANGED <<supervisor, serving, spec, spawns>> /\ refresh' = NoRefresh
  BY DEF FinishRefresh, RefreshFails, GoDown
<1>2. ProcessTypes'
  BY <1>1 DEF ManagerTypes, ProcessTypes, FinishRefresh, RefreshFails, GoDown
<1>3. RegistryTypes'
  BY <1>1, NoRefreshType, SweptRecords
     DEF ManagerTypes, RegistryTypes, FinishRefresh, RefreshFails, GoDown
<1>4. OperationTypes'
  <2>1. CASE FinishRefresh
    BY <2>1, StartGoesOnType, StopGoesOnType DEF FinishRefresh, ManagerTypes, OperationTypes
  <2>2. CASE RefreshFails
    <3>1. \A k \in Stopper : (IF stop[k].stage = "refreshing" THEN NoStop ELSE stop[k])
             \in [stage : StopStage, call : Call \cup {NoStop.call}, current : BOOLEAN]
      BY NoStopType DEF ManagerTypes, OperationTypes
    <3>2. \A p \in Call : (IF start[p] \in {"refreshing", "discovering"} THEN "idle" ELSE start[p])
             \in StartStage
      BY DEF ManagerTypes, OperationTypes
    <3>. QED
      BY <2>2, <3>1, <3>2 DEF RefreshFails, OperationTypes
  <2>3. CASE GoDown
    BY <2>3, NoStopType DEF GoDown, OperationTypes
  <2>. QED
    BY <2>1, <2>2, <2>3
<1>5. ListKept /\ \A p \in Call : ProcessMoves(p)
  BY <1>1, NoRefreshType DEF ListKept, ProcessMoves
<1>. QED
  BY <1>2, <1>3, <1>4, <1>5 DEF Moved, ManagerTypes

(* A list is complete when it is made, and while it is probed. *)
LEMMA RefreshStep ==
    ASSUME ManagerTypes, ListIsComplete, ListSupervisors \/ \E p \in Call : Probe(p)
    PROVE  ManagerTypes' /\ ListIsComplete' /\ ListMoves /\ \A p \in Call : ProcessMoves(p)
<1>1. UNCHANGED <<supervisor, serving, spec, spawns, watched, start, stop>>
  BY DEF ListSupervisors, Probe
<1>2. ProcessTypes' /\ OperationTypes' /\ \A p \in Call : ProcessMoves(p)
  BY <1>1 DEF ManagerTypes, ProcessTypes, OperationTypes, ProcessMoves
<1>3. CASE ListSupervisors
  <2> DEFINE alive == {p \in Call : Alive(p)}
             spawned == {p \in Call : supervisor[p] # "none"}
  <2>1. /\ refresh' = [stage |-> "listed", listed |-> alive, todo |-> alive, spawned |-> spawned]
        /\ UNCHANGED registry
    BY <1>3 DEF ListSupervisors
  <2>2. /\ \A p \in spawned : supervisor[p] # "none" /\ (Known(p) => p \in alive)
        /\ alive \in SUBSET Call /\ spawned \in SUBSET Call
    BY DEF Known
  <2> HIDE DEF alive, spawned
  <2>3. RegistryTypes'
    BY <2>1, <2>2 DEF ManagerTypes, RegistryTypes
  <2>4. ListIsComplete'
    BY <1>1, <2>1, <2>2 DEF ListIsComplete, Known, Alive
  <2>5. ListMoves
    BY <2>1 DEF ListMoves, spawned
  <2>. QED
    BY <1>2, <2>3, <2>4, <2>5 DEF ManagerTypes
<1>4. ASSUME NEW p \in Call, Probe(p)
      PROVE  RegistryTypes' /\ ListIsComplete' /\ ListMoves
  <2>1. refresh.stage = "listed"
    BY <1>4 DEF Probe
  <2>2. CASE ~spec[p]
    <3>1. /\ refresh' = [refresh EXCEPT !.todo = @ \ {p}, !.listed = @ \ {p}]
          /\ UNCHANGED registry
      BY <1>4, <2>2 DEF Probe
    <3>2. /\ refresh'.listed = refresh.listed \ {p} /\ refresh'.todo = refresh.todo \ {p}
          /\ refresh'.spawned = refresh.spawned /\ RegistryTypes'
      BY <3>1 DEF ManagerTypes, RegistryTypes
    <3>. QED
      BY <1>1, <2>1, <2>2, <3>1, <3>2 DEF ListIsComplete, ListMoves, Known, Alive, Active
  <2>3. CASE spec[p]
    <3>1. refresh' = [refresh EXCEPT !.todo = @ \ {p}] /\ Becomes(p, ProbedStatus(p))
      BY <1>4, <2>3 DEF Probe
    <3>2. ProbedStatus(p) \in {"running", "starting"}
      BY DEF ProbedStatus
    <3>3. /\ refresh'.listed = refresh.listed /\ refresh'.todo = refresh.todo \ {p}
          /\ refresh'.spawned = refresh.spawned /\ RegistryTypes'
      BY <3>1, <3>2 DEF ManagerTypes, RegistryTypes, Becomes
    <3>4. \A q \in Call : Active(q)' <=> Active(q) \/ q = p
      BY <3>1, <3>2 DEF ManagerTypes, RegistryTypes, Becomes, Active
    <3>5. refresh.spawned \subseteq Call
      BY DEF ManagerTypes, RegistryTypes
    <3>. QED
      BY <1>1, <2>1, <3>3, <3>4, <3>5 DEF ListIsComplete, ListMoves, Known, Alive
  <2>. QED
    BY <2>2, <2>3 DEF ManagerTypes, ProcessTypes
<1>. QED
  BY <1>2, <1>3, <1>4 DEF ManagerTypes

(* The calls that are being stopped. *)
StopsHaveCalls == \A k \in Stopper : stop[k].stage # "idle" => stop[k].call \in Call

(* Every step of the manager keeps its invariant, but for the fresh starts: *)
(* why these are fresh is another matter when specs may be removed.         *)
LEMMA ManagerStep ==
    ASSUME ManagerInv, StopsHaveCalls, Next
    PROVE  /\ ManagerTypes' /\ SpawnedOnce' /\ ListIsComplete' /\ ProcessesStay
           /\ ListMoves /\ \A p \in Call : ProcessMoves(p)
<1> USE DEF ManagerInv
<1>1. CASE Moved
  BY <1>1, ProcessesMove, ListStays DEF Moved, ListKept, ListMoves
<1>2. ASSUME NEW k \in Stopper, Stop(k) PROVE Moved
  <2>1. CASE Answer(k)
    BY <2>1, AnswerStep
  <2>2. CASE FindSupervisor(k) \/ FinishStop(k)
    <3>1. stop[k].call \in Call
      BY <2>2 DEF StopsHaveCalls, FindSupervisor, FinishStop
    <3>. QED
      BY <2>2, <3>1, StopStep
  <2>. QED
    BY <1>2, <2>1, <2>2 DEF Stop
<1>3. ASSUME NEW p \in Call, Start(p) PROVE Moved
  BY <1>3, StartProcessStep, QuietStartStep, WriteSpecStep, SpawnStep, EndOfStartStep DEF Start
<1>4. CASE ListSupervisors \/ \E p \in Call : Probe(p)
  BY <1>4, RefreshStep, ProcessesMove
<1>5. ASSUME Next, ~(ListSupervisors \/ \E p \in Call : Probe(p)) PROVE Moved
  <2>1. CASE Tick \/ Boot
    BY <2>1, TickOrBootStep
  <2>2. CASE FinishRefresh \/ RefreshFails \/ GoDown
    BY <2>2, RefreshEndsStep
  <2>3. ASSUME NEW p \in Call, ExitIsSeen(p) PROVE Moved
    BY <2>3, ExitIsSeenStep
  <2>4. ASSUME NEW k \in Stopper, NEW p \in Call, StopProcess(k, p) PROVE Moved
    BY <2>4, StopProcessStep
  <2>5. ASSUME NEW p \in Call, ServerListens(p) \/ ServerCloses(p) \/ SupervisorExits(p)
        PROVE  Moved
    BY <2>5, SystemStep
  <2>. QED
    BY <1>2, <1>3, <1>5, <2>1, <2>2, <2>3, <2>4, <2>5 DEF Next, Refresh
<1>. QED
  BY <1>1, <1>4, <1>5

(* What the end of a refresh answers to a stop: a process that was there   *)
(* when the list was made, and that lives, is not answered for as gone.    *)
LEMMA RefreshAnswers ==
    ASSUME ManagerInv, StopsHaveCalls, FinishRefresh, NEW k \in Stopper
    PROVE  \/ stop'[k] = stop[k] /\ stop[k].stage # "refreshing"
           \/ stop'[k] = NoStop
           \/ /\ stop[k].stage = "refreshing" /\ stop'[k].call = stop[k].call
              /\ stop'[k].stage \in {"finding", "returned"}
              /\ stop'[k].current = (stop[k].call \in refresh.spawned)
              /\ stop'[k].stage = "returned" /\ stop[k].call \in refresh.spawned
                    => ~Known(stop[k].call)
<1>1. stop'[k] = StopGoesOn(k) /\ refresh.stage = "listed" /\ refresh.todo = {}
  BY DEF FinishRefresh
<1>2. CASE stop[k].stage # "refreshing"
  BY <1>1, <1>2, StopGoesOnType DEF ManagerInv, ManagerTypes
<1>3. ASSUME stop[k].stage = "refreshing", stop[k].call \in refresh.spawned, Known(stop[k].call)
      PROVE  Swept[stop[k].call] \in ActiveStatus
  <2>1. stop[k].call \in Call \cap refresh.listed /\ Active(stop[k].call)
    BY <1>1, <1>3 DEF ManagerInv, StopsHaveCalls, ListIsComplete
  <2>. QED
    BY <2>1, SweptRecords DEF ManagerInv, ManagerTypes
<1>. QED
  BY <1>1, <1>2, <1>3, StopGoesOnType DEF ManagerInv, ManagerTypes

-----------------------------------------------------------------------------
(* The way of a start, and what each of its steps does to the spec and the *)
(* supervisor of its call.                                                 *)

StartMoves(p) ==
    \/ /\ start'[p] = start[p] \/ start'[p] = "idle"
       /\ spec'[p] = spec[p]
       /\ supervisor'[p] = "none" <=> supervisor[p] = "none"
    \/ /\ start[p] = "idle" /\ start'[p] = "refreshing" /\ starts' = starts + 1
       /\ spec'[p] = spec[p] /\ supervisor'[p] = supervisor[p]
    \/ /\ \/ start[p] = "refreshing" /\ start'[p] = "checked"
          \/ start[p] = "checked" /\ start'[p] = "allocated"
          \/ start[p] = "allocated" /\ start'[p] = "discovering" /\ spec[p]
          \/ start[p] = "waiting" /\ start'[p] = "terminating"
       /\ spec'[p] = spec[p] /\ supervisor'[p] = supervisor[p]
    \/ /\ start[p] = "allocated" /\ start'[p] = "writing"
       /\ ~spec[p] /\ spec'[p] /\ supervisor'[p] = supervisor[p]
    \/ /\ start[p] = "writing" /\ start'[p] = "waiting"
       /\ spec'[p] = spec[p] /\ supervisor'[p] = "alive"

LEMMA StartMovesStep ==
    ASSUME ManagerTypes, Next, NEW p \in Call
    PROVE  StartMoves(p)
<1> USE DEF ManagerTypes, ProcessTypes, OperationTypes
<1>1. CASE UNCHANGED start /\ UNCHANGED spec /\ (supervisor'[p] = "none" <=> supervisor[p] = "none")
  BY <1>1 DEF StartMoves
<1>2. ASSUME NEW q \in Call, Start(q), q # p PROVE StartMoves(p)
  <2>1. start'[p] = start[p] /\ spec'[p] = spec[p] /\ supervisor'[p] = supervisor[p]
    <3>1. CASE StartProcess(q) \/ StartRefused(q) \/ AllocatePort(q) \/ GiveUpStart(q)
      BY <1>2, <3>1 DEF StartProcess, StartRefused, AllocatePort, GiveUpStart, StartTo
    <3>2. CASE WriteSpec(q)
      BY <1>2, <3>2 DEF WriteSpec, StartTo
    <3>3. CASE Spawn(q)
      BY <1>2, <3>3 DEF Spawn, StartTo
    <3>4. CASE SpawnFails(q) \/ PortAnswers(q) \/ ExitsBeforeReady(q)
      BY <1>2, <3>4 DEF SpawnFails, PortAnswers, ExitsBeforeReady, StartTo
    <3>5. CASE StartFails(q)
      BY <1>2, <3>5 DEF StartFails, StartTo, Terminated
    <3>. QED
      BY <1>2, <3>1, <3>2, <3>3, <3>4, <3>5 DEF Start
  <2>. QED
    BY <2>1 DEF StartMoves
<1>3. ASSUME Start(p) PROVE StartMoves(p)
  <2>1. CASE StartProcess(p)
    <3>1. /\ start[p] = "idle" /\ StartTo(p, "refreshing") /\ starts' = starts + 1
          /\ UNCHANGED <<spec, supervisor>>
      BY <2>1 DEF StartProcess
    <3>. QED
      BY <2>1, <3>1 DEF StartTo, StartMoves
  <2>2. CASE StartRefused(p) \/ AllocatePort(p) \/ GiveUpStart(p)
    BY <2>2 DEF StartRefused, AllocatePort, GiveUpStart, StartTo, StartMoves
  <2>3. CASE WriteSpec(p) /\ spec[p]
    BY <2>3 DEF WriteSpec, SpecTaken, StartTo, StartMoves
  <2>4. CASE WriteSpec(p) /\ ~spec[p]
    BY <2>4 DEF WriteSpec, SpecTaken, StartTo, StartMoves
  <2>5. CASE Spawn(p)
    BY <2>5 DEF Spawn, StartTo, StartMoves
  <2>6. CASE SpawnFails(p) \/ PortAnswers(p) \/ ExitsBeforeReady(p)
    BY <2>6 DEF SpawnFails, PortAnswers, ExitsBeforeReady, StartTo, StartMoves
  <2>7. CASE StartFails(p)
    BY <2>7 DEF StartFails, StartTo, StartMoves, Terminated, Alive
  <2>. QED
    BY <1>3, <2>1, <2>2, <2>3, <2>4, <2>5, <2>6, <2>7 DEF Start
<1>4. CASE FinishRefresh \/ RefreshFails \/ GoDown
  <2>1. UNCHANGED <<spec, supervisor>>
    BY <1>4 DEF FinishRefresh, RefreshFails, GoDown
  <2>2. CASE FinishRefresh
    BY <2>1, <2>2, StartGoesOnType DEF FinishRefresh, StartMoves
  <2>3. CASE RefreshFails \/ GoDown
    BY <2>1, <2>3 DEF RefreshFails, GoDown, StartMoves
  <2>. QED
    BY <1>4, <2>2, <2>3
<1>5. ASSUME NEW q \in Call, ExitIsSeen(q) \/ ServerListens(q) \/ ServerCloses(q) \/ SupervisorExits(q)
      PROVE  StartMoves(p)
  BY <1>1, <1>5 DEF ExitIsSeen, ServerListens, ServerCloses, SupervisorExits, Alive
<1>6. ASSUME NEW k \in Stopper, Stop(k) \/ \E q \in Call : StopProcess(k, q)
      PROVE  StartMoves(p)
  <2>1. CASE FinishStop(k)
    BY <1>1, <2>1 DEF FinishStop, Terminated, Alive
  <2>2. CASE FindSupervisor(k) \/ Answer(k) \/ \E q \in Call : StopProcess(k, q)
    BY <1>1, <2>2 DEF FindSupervisor, Answer, StopProcess
  <2>. QED
    BY <1>6, <2>1, <2>2 DEF Stop
<1>7. CASE Tick \/ Boot \/ ListSupervisors \/ \E q \in Call : Probe(q)
  BY <1>1, <1>7 DEF Tick, Boot, ListSupervisors, Probe
<1>. QED
  BY <1>2, <1>3, <1>4, <1>5, <1>6, <1>7 DEF Next, Refresh

-----------------------------------------------------------------------------
(* ManagedProcesses by itself: nobody removes a spec. *)

SpecsStay == \A p \in Call : /\ supervisor[p] # "none" => spec[p]
                             /\ start[p] = "writing" => spec[p] /\ supervisor[p] = "none"

StopsAreTrue ==
    \A k \in Stopper :
        /\ stop[k].current => stop[k].stage # "idle" /\ supervisor[stop[k].call] # "none"
        /\ stop[k].stage = "returned" /\ stop[k].current => ~Alive(stop[k].call)

ProcessesInv == ManagerInv /\ StopsHaveCalls /\ SpecsStay /\ StopsAreTrue

LEMMA ProcessesInit == Init => ProcessesInv
<1> SUFFICES ASSUME Init PROVE ProcessesInv
  OBVIOUS
<1> USE DEF Init
<1>1. ManagerTypes
  BY NoRefreshType, NoStopType
     DEF ManagerTypes, ProcessTypes, RegistryTypes, OperationTypes
<1>2. FreshStarts /\ SpawnedOnce /\ ListIsComplete
  BY NoRefreshType DEF FreshStarts, SpawnedOnce, ListIsComplete, AboutToSpawn
<1>3. StopsHaveCalls /\ SpecsStay /\ StopsAreTrue
  BY NoStopType DEF StopsHaveCalls, SpecsStay, StopsAreTrue
<1>. QED
  BY <1>1, <1>2, <1>3 DEF ProcessesInv, ManagerInv

(* A call writes its first spec once, and spawns after that. *)
LEMMA SpecsStayStep ==
    ASSUME ProcessesInv, Next
    PROVE  SpecsStay' /\ FreshStarts'
<1>1. SpecsStay'
  BY StartMovesStep DEF ProcessesInv, ManagerInv, SpecsStay, StartMoves
<1>2. FreshStarts'
  BY <1>1 DEF SpecsStay, FreshStarts, AboutToSpawn
<1>. QED
  BY <1>1, <1>2

LEMMA StopsAreTrueStep ==
    ASSUME ProcessesInv, Next
    PROVE  StopsHaveCalls' /\ StopsAreTrue'
<1> USE DEF ProcessesInv, ManagerInv
<1> DEFINE Right(k) ==
        /\ stop'[k].stage # "idle" => stop'[k].call \in Call
        /\ stop'[k].current => stop'[k].stage # "idle" /\ supervisor'[stop'[k].call] # "none"
        /\ stop'[k].stage = "returned" /\ stop'[k].current => supervisor'[stop'[k].call] # "alive"
<1>1. \A p \in Call : /\ ProcessMoves(p)
                      /\ supervisor[p] # "none" => supervisor'[p] # "none" /\ (Alive(p)' => Alive(p))
                      /\ Known(p) <=> Alive(p)
  BY ManagerStep DEF ProcessMoves, SpecsStay, Known, Alive
<1>2. ASSUME NEW k \in Stopper, stop'[k] = stop[k] PROVE Right(k)
  BY <1>1, <1>2 DEF StopsHaveCalls, StopsAreTrue, Alive
<1>3. ASSUME NEW k \in Stopper, stop'[k] = NoStop PROVE Right(k)
  BY <1>3, NoStopType
<1>4. ASSUME FinishRefresh, NEW k \in Stopper PROVE Right(k)
  <2>1. CASE /\ stop[k].stage = "refreshing" /\ stop'[k].call = stop[k].call
             /\ stop'[k].stage \in {"finding", "returned"}
             /\ stop'[k].current = (stop[k].call \in refresh.spawned)
             /\ stop'[k].stage = "returned" /\ stop[k].call \in refresh.spawned
                   => ~Known(stop[k].call)
    <3>1. stop[k].call \in Call /\ UNCHANGED supervisor /\ refresh.stage = "listed"
      BY <1>4, <2>1 DEF StopsHaveCalls, FinishRefresh
    <3>2. stop[k].call \in refresh.spawned => supervisor[stop[k].call] # "none"
      BY <3>1 DEF ListIsComplete
    <3>. QED
      BY <1>1, <2>1, <3>1, <3>2 DEF Alive
  <2>. QED
    BY <1>2, <1>3, <1>4, <2>1, RefreshAnswers
<1>5. ASSUME NEW k \in Stopper, FindSupervisor(k) \/ FinishStop(k), NEW j \in Stopper
      PROVE  Right(j)
  <2>1. stop[k].call \in Call
    BY <1>5 DEF StopsHaveCalls, FindSupervisor, FinishStop
  <2>2. /\ stop'[k].stage \in {"terminating", "returned"}
        /\ stop'[k].call = stop[k].call /\ stop'[k].current = stop[k].current
        /\ \A i \in Stopper \ {k} : stop'[i] = stop[i]
        /\ stop'[k].stage = "returned" => supervisor'[stop[k].call] # "alive"
    BY <1>5, <2>1, StopStep DEF Alive
  <2>3. Right(k)
    BY <1>1, <2>1, <2>2 DEF StopsAreTrue
  <2>. QED
    BY <1>2, <2>2, <2>3
<1>6. ASSUME NEW k \in Stopper, NEW p \in Call, StopProcess(k, p) \/ Answer(k), NEW j \in Stopper
      PROVE  Right(j)
  <2>1. CASE j # k
    BY <1>2, <1>6, <2>1 DEF StopProcess, Answer, ManagerTypes, OperationTypes
  <2>2. CASE j = k /\ Answer(k)
    BY <1>3, <2>2 DEF Answer, ManagerTypes, OperationTypes
  <2>3. CASE j = k /\ StopProcess(k, p)
    <3>1. stop'[k] = [NoStop EXCEPT !.stage = "refreshing", !.call = p]
      BY <2>3 DEF StopProcess, ManagerTypes, OperationTypes
    <3>2. stop'[k].call = p /\ stop'[k].stage = "refreshing" /\ stop'[k].current = FALSE
      BY <3>1 DEF NoStop
    <3>. QED
      BY <2>3, <3>2
  <2>. QED
    BY <1>6, <2>1, <2>2, <2>3
<1>7. ASSUME NEW k \in Stopper PROVE Right(k)
  <2>1. CASE RefreshFails \/ GoDown
    BY <1>2, <1>3, <2>1 DEF RefreshFails, GoDown
  <2>2. CASE UNCHANGED stop
    BY <1>2, <2>2
  <2>3. ASSUME NEW p \in Call, Start(p) PROVE UNCHANGED stop
    BY <2>3 DEF Start, StartProcess, StartRefused, AllocatePort, WriteSpec, Spawn, SpawnFails,
                PortAnswers, ExitsBeforeReady, GiveUpStart, StartFails
  <2>4. CASE Tick \/ Boot \/ ListSupervisors \/ \E p \in Call :
                Probe(p) \/ ExitIsSeen(p) \/ ServerListens(p) \/ ServerCloses(p) \/ SupervisorExits(p)
    BY <2>2, <2>4 DEF Tick, Boot, ListSupervisors, Probe, ExitIsSeen, ServerListens, ServerCloses,
                      SupervisorExits
  <2>5. ASSUME NEW j \in Stopper, Answer(j) PROVE Right(k)
    BY <1>2, <1>3, <2>5 DEF Answer, ManagerTypes, OperationTypes
  <2>. QED
    BY <1>4, <1>5, <1>6, <2>1, <2>2, <2>3, <2>4, <2>5 DEF Next, Refresh, Stop
<1>. QED
  BY <1>7 DEF StopsHaveCalls, StopsAreTrue, Alive

LEMMA ProcessesInvariance == Spec => []ProcessesInv
<1>1. ProcessesInv /\ Next => ProcessesInv'
  BY ManagerStep, SpecsStayStep, StopsAreTrueStep DEF ProcessesInv, ManagerInv
<1>2. ProcessesInv /\ UNCHANGED vars => ProcessesInv'
  BY DEF ProcessesInv, ManagerInv, ManagerTypes, ProcessTypes, RegistryTypes, OperationTypes,
         FreshStarts, AboutToSpawn, SpawnedOnce, ListIsComplete, Known, Alive, Active,
         StopsHaveCalls, SpecsStay, StopsAreTrue
<1>. QED
  BY <1>1, <1>2, ProcessesInit, PTL DEF Spec

(* However often a call of start_process is invoked, and however often the *)
(* runtime is restarted in between, it spawns one process: whoever finds   *)
(* its spec written leaves the spawning to the one that wrote it.          *)
THEOREM CallsSpawnOnce == Spec => []OneProcessPerCall
<1>1. ProcessesInv => OneProcessPerCall
  BY DEF ProcessesInv, ManagerInv, SpawnedOnce, OneProcessPerCall
<1>. QED
  BY <1>1, ProcessesInvariance, PTL

(* When stopProcess answers, the supervisor is gone, if it was there when  *)
(* the list it relied on was made.                                         *)
THEOREM StopsAnswerTruly == Spec => []StoppedIsGone
<1>1. ProcessesInv => StoppedIsGone
  BY DEF ProcessesInv, StopsAreTrue, StoppedIsGone
<1>. QED
  BY <1>1, ProcessesInvariance, PTL

-----------------------------------------------------------------------------
(* The deletion of their session. *)

USE DEF session, allVars

Execution == [stage : ExecutionStage, call : Call \cup {None}]
WorkTypes ==
    /\ row \in {"none", "active", "archived"} /\ lives \in Nat
    /\ execution \in [Life -> Execution] /\ files \in BOOLEAN
    /\ made \subseteq Call /\ starts \in Nat

Deletion == [stage : DeletionStage, waits : SUBSET Life,
             targets : SUBSET Call, seen : SUBSET Call]
DeletionTypes == deletion \in [Deleter -> Deletion]

(* A call that has not been made, or is about to be, has left no trace. *)
Unstarted(p) == start[p] = "idle" /\ supervisor[p] = "none" /\ ~spec[p]

(* The store lets a call start once, in one execution; so nobody else      *)
(* writes its spec.                                                        *)
Holds(l, p) == AtTool(l) /\ execution[l].call = p
CallIsFresh(p) ==
    /\ p \notin made => Unstarted(p)
    /\ start[p] \in {"refreshing", "checked", "allocated"} => supervisor[p] = "none" /\ ~spec[p]
    /\ start[p] = "writing" => supervisor[p] = "none"
CallsStartOnce ==
    /\ \A p \in Call : CallIsFresh(p)
    /\ \A l \in Life, p \in Call : Holds(l, p) => p \in made /\ (Is(l, "starting") => Unstarted(p))
    /\ \A l, m \in Life, p \in Call : Holds(l, p) /\ Holds(m, p) => l = m

(* A process is started by an execution that is at its tool until then. *)
StartsAreHeld ==
    \A p \in Call : start[p] # "idle" =>
        \E l \in Life : Is(l, "invoked") /\ execution[l].call = p

(* A stop is found in the slot of its deletion and its process. *)
StopsInSlots ==
    \A d \in Deleter, p \in Call : stop[<<d, p>>].stage # "idle" => stop[<<d, p>>].call = p

(* The processes a deletion has seen stay in its hands until they are gone, *)
(* and the lists made since show them.                                      *)
SeenAreStopped ==
    \A d \in Deleter : \A p \in deletion[d].seen :
        /\ deletion[d].stage \in {"listed", "stopping", "removing"} => supervisor[p] # "none"
        /\ deletion[d].stage \in {"listed", "stopping"} =>
              /\ refresh.stage = "listed" => p \in refresh.spawned
              /\ Known(p) => p \in deletion[d].targets
        /\ deletion[d].stage = "stopping" /\ p \in deletion[d].targets
              /\ stop[<<d, p>>].stage = "returned" => ~Known(p)
        /\ deletion[d].stage = "removing" => ~Known(p)

DeletionInv ==
    /\ ManagerInv
    /\ WorkTypes
    /\ DeletionTypes
    /\ CallsStartOnce
    /\ StartsAreHeld
    /\ StopsInSlots
    /\ SeenAreStopped

LEMMA SlotsHaveCalls == StopsInSlots => StopsHaveCalls
  BY StopperAssumption DEF StopsInSlots, StopsHaveCalls

LEMMA NoDeletionType ==
    /\ NoDeletion \in Deletion
    /\ NoDeletion.stage = "idle" /\ NoDeletion.seen = {}
  BY DEF NoDeletion, Deletion, DeletionStage

LEMMA DeletionToType ==
    ASSUME DeletionTypes, NEW d \in Deleter, NEW stage \in DeletionStage, DeletionTo(d, stage)
    PROVE  /\ DeletionTypes' /\ deletion'[d].stage = stage
           /\ deletion'[d].targets = deletion[d].targets /\ deletion'[d].seen = deletion[d].seen
           /\ \A e \in Deleter \ {d} : deletion'[e] = deletion[e]
  BY DEF DeletionTypes, Deletion, DeletionTo

LEMMA FailsType ==
    ASSUME DeletionTypes, NEW d \in Deleter, Fails(d)
    PROVE  /\ DeletionTypes' /\ deletion'[d] = NoDeletion
           /\ \A e \in Deleter \ {d} : deletion'[e] = deletion[e]
  BY NoDeletionType DEF DeletionTypes, Fails

LEMMA AbortType ==
    ASSUME DeletionTypes, NEW d \in Deleter, AbortExecutions(d)
    PROVE  LET found == {l \in Life : Registered(l)} IN
           /\ DeletionTypes' /\ deletion'[d].waits = found
           /\ deletion'[d].stage = IF found = {} THEN "aborted" ELSE "aborting"
           /\ \A e \in Deleter \ {d} : deletion'[e] = deletion[e]
<1> DEFINE found == {l \in Life : Registered(l)}
           stage == IF found = {} THEN "aborted" ELSE "aborting"
<1>1. deletion' = [deletion EXCEPT ![d].stage = stage, ![d].waits = found]
  BY DEF AbortExecutions
<1>2. stage \in DeletionStage /\ found \in SUBSET Life
  BY DEF DeletionStage
<1> HIDE DEF found, stage
<1>3. /\ DeletionTypes' /\ deletion'[d].waits = found /\ deletion'[d].stage = stage
      /\ \A e \in Deleter \ {d} : deletion'[e] = deletion[e]
  BY <1>1, <1>2 DEF DeletionTypes, Deletion
<1>. QED
  BY <1>3 DEF found, stage

LEMMA WaitsLessType ==
    ASSUME DeletionTypes, NEW d \in Deleter, NEW l \in Life
    PROVE  /\ WaitsLess(d, l) \in Deletion
           /\ WaitsLess(d, l).waits = deletion[d].waits \ {l}
           /\ WaitsLess(d, l).targets = deletion[d].targets
           /\ WaitsLess(d, l).seen = deletion[d].seen
           /\ \/ WaitsLess(d, l).stage = deletion[d].stage
              \/ /\ deletion[d].stage = "aborting" /\ WaitsLess(d, l).stage = "aborted"
                 /\ deletion[d].waits \ {l} = {}
<1> DEFINE left == deletion[d].waits \ {l}
           stage == IF deletion[d].stage = "aborting" /\ left = {} THEN "aborted"
                                                                 ELSE deletion[d].stage
<1>1. WaitsLess(d, l) = [deletion[d] EXCEPT !.waits = left, !.stage = stage]
  BY DEF WaitsLess
<1>2. deletion[d] \in Deletion /\ left \in SUBSET Life /\ stage \in DeletionStage
  BY DEF DeletionTypes, Deletion, DeletionStage
<1>3. \/ stage = deletion[d].stage
      \/ deletion[d].stage = "aborting" /\ stage = "aborted" /\ left = {}
  OBVIOUS
<1> HIDE DEF left, stage
<1>4. /\ WaitsLess(d, l) \in Deletion /\ WaitsLess(d, l).waits = left
      /\ WaitsLess(d, l).targets = deletion[d].targets
      /\ WaitsLess(d, l).seen = deletion[d].seen /\ WaitsLess(d, l).stage = stage
  BY <1>1, <1>2 DEF Deletion
<1>. QED
  BY <1>3, <1>4 DEF left

LEMMA ExecutionToType ==
    ASSUME execution \in [Life -> Execution], NEW l \in Life, NEW stage \in ExecutionStage,
           NEW call \in Call \cup {None}, ExecutionTo(l, stage, call)
    PROVE  /\ execution' \in [Life -> Execution]
           /\ execution'[l].stage = stage /\ execution'[l].call = call
           /\ \A m \in Life \ {l} : execution'[m] = execution[m]
  BY DEF ExecutionTo, Execution

(* While a session is deleted no start of a process is new, but the one   *)
(* its execution makes.                                                    *)
LEMMA NoOtherStarts ==
    ASSUME Manager \/ FinishRefresh \/ RefreshFails \/ GoDown
    PROVE  Next /\ UNCHANGED starts
<1>1. CASE FinishRefresh \/ RefreshFails \/ GoDown
  BY <1>1 DEF FinishRefresh, RefreshFails, GoDown, Next, Refresh
<1>2. CASE Tick \/ ListSupervisors \/ Boot
  BY <1>2 DEF Tick, ListSupervisors, Boot, Next, Refresh
<1>3. ASSUME NEW p \in Call, Probe(p) \/ ExitIsSeen(p)
      PROVE  Next /\ UNCHANGED starts
  BY <1>3 DEF Probe, ExitIsSeen, Next, Refresh
<1>4. ASSUME NEW p \in Call, start[p] # "idle", Start(p)
      PROVE  Next /\ UNCHANGED starts
  <2>1. ~StartProcess(p)
    BY <1>4 DEF StartProcess
  <2>. QED
    BY <1>4, <2>1 DEF Start, StartRefused, AllocatePort, WriteSpec, Spawn, SpawnFails, PortAnswers,
                      ExitsBeforeReady, GiveUpStart, StartFails, Next
<1>5. ASSUME NEW k \in Stopper, FindSupervisor(k) \/ FinishStop(k) \/ Answer(k)
      PROVE  Next /\ UNCHANGED starts
  BY <1>5 DEF FindSupervisor, FinishStop, Answer, Stop, Next
<1>6. ASSUME NEW p \in Call, ServerListens(p) \/ ServerCloses(p) \/ SupervisorExits(p)
      PROVE  Next /\ UNCHANGED starts
  BY <1>6 DEF ServerListens, ServerCloses, SupervisorExits, Next
<1>. QED
  BY <1>1, <1>2, <1>3, <1>4, <1>5, <1>6 DEF Manager, AnswerLost

LEMMA StopProcessesStep ==
    ASSUME ManagerTypes, StopsInSlots, NEW d \in Deleter, StopProcesses(d)
    PROVE  /\ Moved /\ StopsInSlots'
           /\ \A e \in Deleter, p \in Call :
                 \/ stop'[<<e, p>>] = stop[<<e, p>>] /\ ~(e = d /\ p \in deletion[d].targets)
                 \/ stop'[<<e, p>>].stage = "refreshing"
<1>1. /\ UNCHANGED <<supervisor, serving, spec, spawns, registry, watched, start>>
      /\ JoinRefresh \/ UNCHANGED refresh
      /\ stop' = [k \in Stopper |->
           IF k[1] = d /\ k[2] \in deletion[d].targets
           THEN [stage |-> "refreshing", call |-> k[2], current |-> FALSE] ELSE stop[k]]
  BY DEF StopProcesses
<1>2. \A k \in Stopper : k[2] \in Call
  BY StopperAssumption
<1>3. OperationTypes'
  BY <1>1, <1>2 DEF ManagerTypes, OperationTypes
<1>4. Moved
  BY <1>1, <1>3, QuietStep DEF Moved, ManagerTypes, ProcessTypes
<1>5. ASSUME NEW e \in Deleter, NEW p \in Call
      PROVE  \/ stop'[<<e, p>>] = stop[<<e, p>>] /\ ~(e = d /\ p \in deletion[d].targets)
             \/ stop'[<<e, p>>].stage = "refreshing" /\ stop'[<<e, p>>].call = p
  <2>1. <<e, p>> \in Stopper /\ <<e, p>>[1] = e /\ <<e, p>>[2] = p
    BY StopperAssumption
  <2>. QED
    BY <1>1, <2>1
<1>. QED
  BY <1>4, <1>5 DEF StopsInSlots

LEMMA RemoveWorkspaceStep ==
    ASSUME ManagerTypes, NEW d \in Deleter, RemoveWorkspace(d)
    PROVE  Moved /\ \A p \in Call : ~spec'[p]
<1>1. /\ UNCHANGED <<supervisor, serving, spawns, registry, watched, start, stop, refresh>>
      /\ spec' = [p \in Call |-> FALSE]
  BY DEF RemoveWorkspace
<1>2. ProcessTypes' /\ \A p \in Call : ProcessMoves(p)
  BY <1>1 DEF ManagerTypes, ProcessTypes, ProcessMoves
<1>. QED
  BY <1>1, <1>2 DEF Moved, ListKept, Active, ManagerTypes, RegistryTypes, OperationTypes

(* The steps that leave the processes and their manager alone. *)
LEMMA StepsOfSession ==
    ASSUME DeletionNext
    PROVE  \/ UNCHANGED <<vars, session>> /\ \E d \in Deleter :
                AbortExecutions(d) \/ GraceIsOver(d) \/ ProcessesStopped(d) \/ StopFails(d)
                    \/ RemovalFails(d)
           \/ UNCHANGED <<vars, made, execution>> /\ \E d \in Deleter :
                BeginDeletion(d) \/ FinalizeDeletion(d) \/ CloseStream(d)
           \/ UNCHANGED <<vars, deletion>> /\ CreateSession /\ UNCHANGED <<made, execution>>
           \/ UNCHANGED <<vars, deletion>> /\ \E l \in Life :
                \/ (LoadExecution(l) \/ RegisterExecution(l) \/ ToolReturns(l)) /\ UNCHANGED made
                \/ \E call \in Call \cup {None} : StartTool(l, call)
           \/ UNCHANGED <<vars, made>> /\ \E l \in Life : ExecutionEnds(l)
           \/ UNCHANGED <<made, deletion>> /\ \E l \in Life : InvokeTool(l)
           \/ (FinishRefreshForAll \/ RefreshFailsForAll) /\ UNCHANGED session
           \/ Manager /\ UNCHANGED <<session, deletion>>
           \/ Crash /\ UNCHANGED made
           \/ \E d \in Deleter :
                \/ (ListProcesses(d) \/ StopProcesses(d)) /\ UNCHANGED <<session, start, supervisor, spec>>
                \/ RemoveWorkspace(d) /\ UNCHANGED <<made, execution, start, supervisor>>
<1>1. ASSUME NEW d \in Deleter, BeginDeletion(d) \/ FinalizeDeletion(d) \/ CloseStream(d)
      PROVE  UNCHANGED <<vars, made, execution>>
  BY <1>1 DEF BeginDeletion, FinalizeDeletion, CloseStream
<1>2. ASSUME NEW d \in Deleter, AbortExecutions(d) \/ GraceIsOver(d) \/ ProcessesStopped(d)
                                 \/ StopFails(d) \/ RemovalFails(d)
      PROVE  UNCHANGED <<vars, session>>
  BY <1>2 DEF AbortExecutions, GraceIsOver, ProcessesStopped, StopFails, RemovalFails
<1>3. ASSUME NEW d \in Deleter, ListProcesses(d) \/ StopProcesses(d)
      PROVE  UNCHANGED <<session, start, supervisor, spec>>
  BY <1>3 DEF ListProcesses, StopProcesses
<1>4. ASSUME NEW d \in Deleter, RemoveWorkspace(d)
      PROVE  UNCHANGED <<made, execution, start, supervisor>>
  BY <1>4 DEF RemoveWorkspace
<1>5. CreateSession => UNCHANGED <<vars, deletion>> /\ UNCHANGED <<made, execution>>
  BY DEF CreateSession
<1>6. ASSUME NEW l \in Life
      PROVE  /\ LoadExecution(l) \/ RegisterExecution(l) \/ ToolReturns(l)
                   => UNCHANGED <<vars, deletion>> /\ UNCHANGED made
             /\ \A call \in Call \cup {None} : StartTool(l, call) => UNCHANGED <<vars, deletion>>
             /\ ExecutionEnds(l) => UNCHANGED <<vars, made>>
             /\ InvokeTool(l) => UNCHANGED <<made, deletion>>
  BY DEF LoadExecution, RegisterExecution, ToolReturns, StartTool, ExecutionEnds, InvokeTool
<1>7. /\ FinishRefreshForAll \/ RefreshFailsForAll => UNCHANGED session
      /\ Manager => UNCHANGED <<session, deletion>>
      /\ Crash => UNCHANGED made
  BY DEF FinishRefreshForAll, RefreshFailsForAll, Manager, Crash
<1>8. CASE Work
  BY <1>5, <1>6, <1>8 DEF Work
<1>9. ASSUME NEW d \in Deleter, BeginDeletion(d) \/ Delete(d)
      PROVE  \/ UNCHANGED <<vars, session>> /\ (AbortExecutions(d) \/ GraceIsOver(d)
                    \/ ProcessesStopped(d) \/ StopFails(d) \/ RemovalFails(d))
             \/ UNCHANGED <<vars, made, execution>> /\ (BeginDeletion(d) \/ FinalizeDeletion(d)
                    \/ CloseStream(d))
             \/ (ListProcesses(d) \/ StopProcesses(d)) /\ UNCHANGED <<session, start, supervisor, spec>>
             \/ RemoveWorkspace(d) /\ UNCHANGED <<made, execution, start, supervisor>>
  BY <1>1, <1>2, <1>3, <1>4, <1>9 DEF Delete
<1>. QED
  BY <1>7, <1>8, <1>9 DEF DeletionNext

(* The tool an execution invokes, and the start of a process it may be. *)
LEMMA InvokedStart ==
    ASSUME WorkTypes, NEW l \in Life, InvokeTool(l)
    PROVE  /\ Is(l, "starting") /\ Is(l, "invoked")' /\ execution'[l].call = execution[l].call
           /\ \A m \in Life \ {l} : execution'[m] = execution[m]
           /\ execution[l].call \in Call => StartProcess(execution[l].call) /\ Next
           /\ execution[l].call \notin Call => UNCHANGED vars
           /\ UNCHANGED <<stop, supervisor, spec>> /\ execution' \in [Life -> Execution]
<1>1. Is(l, "starting") /\ ExecutionTo(l, "invoked", execution[l].call)
      /\ (execution[l].call \in Call => StartProcess(execution[l].call))
      /\ (execution[l].call \notin Call => UNCHANGED vars)
  BY DEF InvokeTool
<1>2. execution[l].call \in Call \cup {None} /\ "invoked" \in ExecutionStage
  BY DEF WorkTypes, Execution, ExecutionStage
<1>3. /\ execution' \in [Life -> Execution]
      /\ execution'[l].stage = "invoked" /\ execution'[l].call = execution[l].call
      /\ \A m \in Life \ {l} : execution'[m] = execution[m]
  BY <1>1, <1>2, ExecutionToType DEF WorkTypes
<1>4. execution[l].call \in Call => UNCHANGED <<stop, supervisor, spec>>
  BY <1>1 DEF StartProcess
<1>5. execution[l].call \in Call => Next
  BY <1>1 DEF Start, Next
<1>. QED
  BY <1>1, <1>3, <1>4, <1>5 DEF Is

(* What becomes of an execution. *)
LEMMA ExecutionMoves ==
    ASSUME WorkTypes, DeletionNext, NEW l \in Life
    PROVE  \/ execution'[l] = execution[l]
           \/ /\ execution'[l].stage \in {"none", "loaded", "running"}
              /\ Is(l, "invoked") => Crash \/ ToolReturns(l)
           \/ /\ execution'[l].stage = "starting" /\ Is(l, "running") /\ UNCHANGED vars
              /\ HasSession(l) /\ StartTool(l, execution'[l].call)
              /\ \A m \in Life \ {l} : execution'[m] = execution[m]
           \/ InvokeTool(l)
<1> DEFINE Right(m) ==
           \/ execution'[m] = execution[m]
           \/ /\ execution'[m].stage \in {"none", "loaded", "running"}
              /\ Is(m, "invoked") => Crash \/ ToolReturns(m)
           \/ /\ execution'[m].stage = "starting" /\ Is(m, "running") /\ UNCHANGED vars
              /\ HasSession(m) /\ StartTool(m, execution'[m].call)
              /\ \A k \in Life \ {m} : execution'[k] = execution[k]
           \/ InvokeTool(m)
<1>0. execution \in [Life -> Execution] /\ {"none", "loaded", "running", "starting"} \subseteq ExecutionStage
  BY DEF WorkTypes, ExecutionStage
<1>1. ASSUME NEW m \in Life, NEW stage \in {"none", "loaded", "running"},
             ExecutionTo(m, stage, None), Is(m, "invoked") => ToolReturns(m)
      PROVE  Right(l)
  BY <1>0, <1>1, ExecutionToType
<1>2. ASSUME NEW m \in Life, LoadExecution(m) \/ RegisterExecution(m) \/ ToolReturns(m)
                              \/ ExecutionEnds(m)
      PROVE  Right(l)
  <2>1. \E stage \in {"none", "loaded", "running"} : ExecutionTo(m, stage, None)
    BY <1>2 DEF LoadExecution, RegisterExecution, ToolReturns, ExecutionEnds
  <2>2. Is(m, "invoked") => ToolReturns(m)
    BY <1>2 DEF LoadExecution, RegisterExecution, ExecutionEnds, Is
  <2>. QED
    BY <1>1, <2>1, <2>2
<1>3. ASSUME NEW m \in Life, NEW call \in Call \cup {None}, StartTool(m, call)
      PROVE  Right(l)
  <2>1. ExecutionTo(m, "starting", call) /\ Is(m, "running") /\ UNCHANGED vars /\ HasSession(m)
    BY <1>3 DEF StartTool
  <2>2. /\ execution'[m].stage = "starting" /\ execution'[m].call = call
        /\ \A k \in Life \ {m} : execution'[k] = execution[k]
    BY <1>0, <2>1, ExecutionToType
  <2>. QED
    BY <1>3, <2>1, <2>2
<1>4. ASSUME NEW m \in Life, InvokeTool(m) PROVE Right(l)
  BY <1>4, InvokedStart
<1>5. CASE Crash
  BY <1>5 DEF Crash, NoExecution
<1>6. CASE UNCHANGED execution
  BY <1>6
<1>7. UNCHANGED session => UNCHANGED execution
  OBVIOUS
<1>8. Right(l)
  BY <1>2, <1>3, <1>4, <1>5, <1>6, <1>7, StepsOfSession
<1>. QED
  BY <1>8

(* Every step of a deletion keeps the facts about the manager, too. *)
LEMMA ManagerInDeletion ==
    ASSUME DeletionInv, DeletionNext
    PROVE  /\ ManagerTypes' /\ SpawnedOnce' /\ ListIsComplete' /\ ProcessesStay
           /\ ListMoves /\ \A p \in Call : ProcessMoves(p)
<1> USE DEF DeletionInv
<1>0. StopsHaveCalls
  BY SlotsHaveCalls
<1>1. CASE Moved
  BY <1>1, ProcessesMove, ListStays DEF Moved, ListKept, ListMoves, ManagerInv
<1>2. CASE Next
  BY <1>0, <1>2, ManagerStep
<1>3. CASE UNCHANGED vars
  <2>1. UNCHANGED <<supervisor, serving, spec, spawns, registry, refresh, start, stop, watched>>
    BY <1>3
  <2>2. ManagerTypes'
    BY <2>1 DEF ManagerInv, ManagerTypes, ProcessTypes, RegistryTypes, OperationTypes
  <2>. QED
    BY <1>1, <2>1, <2>2, QuietStep DEF Moved, ManagerInv
<1>4. ASSUME NEW d \in Deleter, ListProcesses(d) PROVE Moved
  <2>1. /\ UNCHANGED <<supervisor, serving, spec, spawns, registry, start, stop, watched>>
        /\ JoinRefresh
    BY <1>4 DEF ListProcesses
  <2>. QED
    BY <2>1, QuietStep DEF Moved, ManagerInv, ManagerTypes, ProcessTypes, OperationTypes
<1>5. ASSUME NEW d \in Deleter, StopProcesses(d) \/ RemoveWorkspace(d) PROVE Moved
  BY <1>5, StopProcessesStep, RemoveWorkspaceStep DEF ManagerInv
<1>6. FinishRefreshForAll \/ RefreshFailsForAll \/ Manager \/ Crash => Next
  BY NoOtherStarts DEF FinishRefreshForAll, RefreshFailsForAll, Crash
<1>7. ASSUME NEW l \in Life, InvokeTool(l) PROVE Next \/ UNCHANGED vars
  BY <1>7, InvokedStart
<1>. QED
  BY <1>1, <1>2, <1>3, <1>4, <1>5, <1>6, <1>7, StepsOfSession

LEMMA WorkTypesStep ==
    ASSUME DeletionInv, DeletionNext
    PROVE  WorkTypes'
<1> USE DEF DeletionInv, WorkTypes
<1>1. CASE CreateSession
  BY <1>1 DEF CreateSession
<1>2. ASSUME NEW l \in Life, NEW stage \in ExecutionStage, NEW call \in Call \cup {None},
             ExecutionTo(l, stage, call), UNCHANGED <<row, lives, starts>>,
             made' \in {made, made \cup ({call} \cap Call)}, files' \in {files, TRUE}
      PROVE  WorkTypes'
  BY <1>2, ExecutionToType
<1>3. ASSUME NEW l \in Life, LoadExecution(l) \/ RegisterExecution(l) \/ ToolReturns(l)
                              \/ ExecutionEnds(l)
      PROVE  WorkTypes'
  <2>1. /\ \E stage \in {"none", "loaded", "running"} : ExecutionTo(l, stage, None)
        /\ UNCHANGED <<row, lives, starts, made, files>>
    BY <1>3 DEF LoadExecution, RegisterExecution, ToolReturns, ExecutionEnds
  <2>. QED
    BY <1>2, <2>1 DEF ExecutionStage
<1>4. ASSUME NEW l \in Life, NEW call \in Call \cup {None}, StartTool(l, call) PROVE WorkTypes'
  <2>1. /\ ExecutionTo(l, "starting", call) /\ made' = made \cup ({call} \cap Call)
        /\ UNCHANGED <<row, lives, starts, files>>
    BY <1>4 DEF StartTool
  <2>. QED
    BY <1>2, <2>1 DEF ExecutionStage
<1>5. ASSUME NEW l \in Life, InvokeTool(l) PROVE WorkTypes'
  <2>1. UNCHANGED <<row, lives, made>> /\ files' = TRUE /\ execution' \in [Life -> Execution]
    BY <1>5, InvokedStart DEF InvokeTool
  <2>2. starts' \in {starts, starts + 1}
    BY <1>5, InvokedStart DEF StartProcess
  <2>. QED
    BY <2>1, <2>2
<1>6. ASSUME NEW d \in Deleter, BeginDeletion(d) \/ FinalizeDeletion(d) \/ CloseStream(d)
      PROVE  WorkTypes'
  BY <1>6 DEF BeginDeletion, FinalizeDeletion, CloseStream
<1>7. ASSUME NEW d \in Deleter, AbortExecutions(d) \/ GraceIsOver(d) \/ ProcessesStopped(d)
                                 \/ StopFails(d) \/ RemovalFails(d)
      PROVE  WorkTypes'
  BY <1>7 DEF AbortExecutions, GraceIsOver, ProcessesStopped, StopFails, RemovalFails
<1>8. ASSUME NEW d \in Deleter, ListProcesses(d) \/ StopProcesses(d) \/ RemoveWorkspace(d)
      PROVE  WorkTypes'
  BY <1>8 DEF ListProcesses, StopProcesses, RemoveWorkspace
<1>9. CASE FinishRefreshForAll \/ RefreshFailsForAll \/ Manager
  <2>1. UNCHANGED session /\ UNCHANGED starts
    BY <1>9, NoOtherStarts DEF FinishRefreshForAll, RefreshFailsForAll, Manager
  <2>. QED
    BY <2>1
<1>10. CASE Crash
  <2>1. UNCHANGED <<row, lives, made, files, starts>> /\ execution' = [l \in Life |-> NoExecution]
    BY <1>10, NoOtherStarts DEF Crash
  <2>2. NoExecution \in Execution
    BY DEF NoExecution, Execution, ExecutionStage
  <2>. QED
    BY <2>1, <2>2
<1>. QED
  BY <1>1, <1>3, <1>4, <1>5, <1>6, <1>7, <1>8, <1>9, <1>10 DEF DeletionNext, Work, Delete

LEMMA DeletionTypesStep ==
    ASSUME DeletionInv, DeletionNext
    PROVE  DeletionTypes'
<1> USE DEF DeletionInv
<1>1. CASE UNCHANGED deletion
  BY <1>1 DEF DeletionTypes
<1>2. ASSUME NEW d \in Deleter, BeginDeletion(d) \/ Delete(d)
      PROVE  \/ \E stage \in DeletionStage : DeletionTo(d, stage)
             \/ Fails(d) \/ AbortExecutions(d)
  BY <1>2 DEF BeginDeletion, Delete, GraceIsOver, ListProcesses, StopProcesses,
              ProcessesStopped, StopFails, RemoveWorkspace, RemovalFails, FinalizeDeletion,
              CloseStream, FencedStage, Fails, DeletionStage
<1>3. ASSUME NEW d \in Deleter, BeginDeletion(d) \/ Delete(d) PROVE DeletionTypes'
  BY <1>2, <1>3, DeletionToType, FailsType, AbortType
<1>4. ASSUME NEW l \in Life, ExecutionEnds(l) PROVE DeletionTypes'
  BY <1>4, WaitsLessType DEF ExecutionEnds, DeletionTypes
<1>5. CASE FinishRefreshForAll
  <2>1. \A d \in Deleter : Listed(d) \in Deletion
    <3>1. Targets \in SUBSET Call /\ {p \in refresh.spawned : spec[p]} \in SUBSET Call
      BY DEF Targets, ManagerInv, ManagerTypes, RegistryTypes
    <3>. QED
      BY <3>1 DEF Listed, DeletionTypes, Deletion, DeletionStage
  <2>. QED
    BY <1>5, <2>1 DEF FinishRefreshForAll, DeletionTypes
<1>6. CASE RefreshFailsForAll \/ Crash
  BY <1>6, NoDeletionType DEF RefreshFailsForAll, Crash, DeletionTypes
<1>7. CreateSession \/ Manager => UNCHANGED deletion
  BY DEF CreateSession, Manager
<1>8. ASSUME NEW l \in Life
      PROVE  /\ LoadExecution(l) \/ RegisterExecution(l) \/ InvokeTool(l) \/ ToolReturns(l)
                    => UNCHANGED deletion
             /\ \A call \in Call \cup {None} : StartTool(l, call) => UNCHANGED deletion
  BY DEF LoadExecution, RegisterExecution, InvokeTool, ToolReturns, StartTool
<1>. QED
  BY <1>1, <1>3, <1>4, <1>5, <1>6, <1>7, <1>8 DEF DeletionNext, Work

(* What becomes of a call of start_process: nothing, as long as no         *)
(* execution invokes it.                                                   *)
Invokes(p) == \E l \in Life : InvokeTool(l) /\ execution[l].call = p
LEMMA CallMoves ==
    ASSUME DeletionInv, DeletionNext, NEW p \in Call
    PROVE  /\ CallIsFresh(p)'
           /\ Unstarted(p) => Unstarted(p)' \/ Invokes(p)
           /\ start'[p] = "idle" \/ start[p] # "idle" \/ Invokes(p)
           /\ spec'[p] => spec[p] \/ start[p] # "idle"
<1> USE DEF DeletionInv, CallIsFresh, Unstarted
<1> DEFINE Right == /\ CallIsFresh(p)'
                    /\ Unstarted(p) => Unstarted(p)' \/ Invokes(p)
                    /\ start'[p] = "idle" \/ start[p] # "idle" \/ Invokes(p)
                    /\ spec'[p] => spec[p] \/ start[p] # "idle"
<1>1. ManagerTypes /\ starts \in Nat /\ CallIsFresh(p)
  BY DEF ManagerInv, WorkTypes, CallsStartOnce
<1>2. CASE UNCHANGED <<start, supervisor>> /\ (spec'[p] = spec[p] \/ ~spec'[p]) /\ made \subseteq made'
  BY <1>1, <1>2
<1>3. CASE Next /\ UNCHANGED <<made, starts>>
  <2>1. StartMoves(p)
    BY <1>1, <1>3, StartMovesStep
  <2>2. start[p] \in StartStage
    BY <1>1 DEF ManagerTypes, OperationTypes
  <2>. QED
    BY <1>1, <1>3, <2>1, <2>2 DEF StartMoves
<1>4. ASSUME NEW l \in Life, InvokeTool(l), UNCHANGED made PROVE Right
  <2>1. CASE execution[l].call \notin Call
    BY <1>2, <1>4, <2>1, InvokedStart
  <2>2. CASE execution[l].call \in Call
    <3> DEFINE q == execution[l].call
    <3>1. UNCHANGED <<supervisor, spec>> /\ start' = [start EXCEPT ![q] = "refreshing"]
      BY <1>4, <2>2, InvokedStart DEF StartProcess, StartTo
    <3>2. start'[q] = "refreshing" /\ (p # q => start'[p] = start[p])
      BY <1>1, <2>2, <3>1 DEF ManagerTypes, OperationTypes
    <3>3. q \in made /\ Unstarted(q)
      BY <1>4, <2>2, InvokedStart DEF CallsStartOnce, Holds, AtTool
    <3>4. CASE p # q
      BY <1>1, <1>4, <3>1, <3>2, <3>4
    <3>5. CASE p = q
      <4>1. Invokes(p)
        BY <1>4, <3>5 DEF Invokes
      <4>. QED
        BY <1>4, <3>1, <3>2, <3>3, <3>5, <4>1
    <3>. QED
      BY <3>4, <3>5
  <2>. QED
    BY <2>1, <2>2
<1>5. ASSUME NEW d \in Deleter, RemoveWorkspace(d), UNCHANGED <<made, start, supervisor>> PROVE Right
  BY <1>1, <1>2, <1>5, RemoveWorkspaceStep
<1>6. FinishRefreshForAll \/ RefreshFailsForAll \/ Manager \/ Crash => Next /\ UNCHANGED starts
  BY NoOtherStarts DEF FinishRefreshForAll, RefreshFailsForAll, Crash
<1>7. \A l \in Life, call \in Call \cup {None} : StartTool(l, call) => made \subseteq made'
  BY DEF StartTool
<1>8. UNCHANGED vars => UNCHANGED <<start, supervisor, spec>>
  OBVIOUS
<1>9. UNCHANGED session => UNCHANGED made
  OBVIOUS
<1>10. Right
  BY <1>2, <1>3, <1>4, <1>5, <1>6, <1>7, <1>8, <1>9, StepsOfSession
<1>. QED
  BY <1>10

(* A call starts once: in the store, and so in the manager. *)
LEMMA CallsStartOnceStep ==
    ASSUME DeletionInv, DeletionNext
    PROVE  CallsStartOnce' /\ FreshStarts'
<1> USE DEF DeletionInv, CallsStartOnce, Holds, AtTool, Is
<1>0. WorkTypes
  OBVIOUS
<1>1. \A p \in Call : CallIsFresh(p)'
  BY CallMoves
<1>2. made \subseteq made' /\ \A l \in Life : InvokeTool(l) => UNCHANGED made
  BY StepsOfSession DEF StartTool, InvokeTool
<1>3. ASSUME NEW l \in Life, NEW call, StartTool(l, call)
      PROVE  call \notin made /\ (call \in Call => call \in made')
  BY <1>3 DEF StartTool
<1>4. ASSUME NEW l \in Life, NEW p \in Call, Holds(l, p)'
      PROVE  p \in made' /\ (Is(l, "starting")' => Unstarted(p)')
  <2>1. CASE execution'[l] = execution[l]
    <3>1. Holds(l, p) /\ p \in made /\ (Is(l, "starting") => Unstarted(p))
      BY <1>4, <2>1
    <3>2. ASSUME NEW m \in Life, InvokeTool(m), execution[m].call = p PROVE ~Is(l, "starting")'
      <4>1. Is(m, "starting") /\ Is(m, "invoked")'
        BY <1>0, <3>2, InvokedStart
      <4>2. l = m
        BY <3>1, <3>2, <4>1
      <4>. QED
        BY <4>1, <4>2
    <3>3. Is(l, "starting")' => Unstarted(p)'
      BY <2>1, <3>1, <3>2, CallMoves DEF Invokes
    <3>. QED
      BY <1>2, <3>1, <3>3
  <2>2. CASE execution'[l].stage = "starting" /\ UNCHANGED vars /\ StartTool(l, execution'[l].call)
    <3>1. p \notin made /\ p \in made'
      BY <1>3, <1>4, <2>2
    <3>2. Unstarted(p)
      BY <3>1 DEF CallIsFresh
    <3>. QED
      BY <2>2, <3>1, <3>2 DEF Unstarted
  <2>3. CASE InvokeTool(l)
    BY <1>0, <1>2, <1>4, <2>3, InvokedStart
  <2>. QED
    BY <1>0, <1>4, <2>1, <2>2, <2>3, ExecutionMoves
<1>5. ASSUME NEW l \in Life, NEW m \in Life, NEW p \in Call, Holds(l, p)', Holds(m, p)' PROVE l = m
  <2>1. ASSUME NEW k \in Life, Holds(k, p)'
        PROVE  \/ Holds(k, p)
               \/ p \notin made /\ \A j \in Life \ {k} : execution'[j] = execution[j]
    <3>1. CASE StartTool(k, execution'[k].call) /\ \A j \in Life \ {k} : execution'[j] = execution[j]
      BY <1>3, <2>1, <3>1
    <3>2. CASE InvokeTool(k)
      BY <1>0, <2>1, <3>2, InvokedStart
    <3>. QED
      BY <1>0, <2>1, <3>1, <3>2, ExecutionMoves
  <2>. QED
    BY <1>5, <2>1
<1>6. CallsStartOnce'
  BY <1>1, <1>4, <1>5
<1>. QED
  BY <1>1, <1>6 DEF CallIsFresh, Unstarted, FreshStarts, AboutToSpawn

(* An execution does not leave its tool while the process is starting. *)
LEMMA StartsAreHeldStep ==
    ASSUME DeletionInv, DeletionNext
    PROVE  StartsAreHeld'
<1> USE DEF DeletionInv
<1>0. WorkTypes
  OBVIOUS
<1>1. SUFFICES ASSUME NEW p \in Call, start'[p] # "idle"
               PROVE  \E l \in Life : Is(l, "invoked")' /\ execution'[l].call = p
  BY DEF StartsAreHeld
<1>2. CASE Invokes(p)
  BY <1>0, <1>2, InvokedStart DEF Invokes
<1>3. CASE start[p] # "idle"
  <2>1. PICK l \in Life : Is(l, "invoked") /\ execution[l].call = p
    BY <1>3 DEF StartsAreHeld
  <2>2. ~Crash
    BY <1>1 DEF Crash, GoDown
  <2>3. ~ToolReturns(l)
    BY <1>3, <2>1 DEF ToolReturns
  <2>4. execution'[l] = execution[l]
    BY <1>0, <2>1, <2>2, <2>3, ExecutionMoves, InvokedStart DEF Is
  <2>. QED
    BY <2>1, <2>4 DEF Is
<1>. QED
  BY <1>1, <1>2, <1>3, CallMoves

(* What becomes of a stop that a deletion waits for: a process the lists   *)
(* show is not answered for as gone.                                       *)
LEMMA SlotMoves ==
    ASSUME DeletionInv, DeletionNext, NEW d \in Deleter, NEW p \in Call
    PROVE  /\ stop'[<<d, p>>].stage # "idle" => stop'[<<d, p>>].call = p
           /\ stop'[<<d, p>>].stage = "returned" =>
                \/ stop[<<d, p>>].stage = "returned"
                \/ (refresh.stage = "listed" => p \in refresh.spawned) => ~Known(p)'
<1> USE DEF DeletionInv
<1> DEFINE k == <<d, p>>
<1> DEFINE Right ==
        /\ stop'[k].stage # "idle" => stop'[k].call = p
        /\ stop'[k].stage = "returned" =>
             \/ stop[k].stage = "returned"
             \/ (refresh.stage = "listed" => p \in refresh.spawned) => ~Known(p)'
<1>1. k \in Stopper /\ (stop[k].stage # "idle" => stop[k].call = p) /\ StopsHaveCalls
  BY StopperAssumption, SlotsHaveCalls DEF StopsInSlots
<1>2. CASE stop'[k] = stop[k]
  BY <1>1, <1>2
<1>3. CASE stop'[k] = NoStop
  BY <1>3, NoStopType
<1>4. CASE FinishRefresh
  <2>1. CASE /\ stop[k].stage = "refreshing" /\ stop'[k].call = stop[k].call
             /\ stop'[k].stage = "returned" /\ stop[k].call \in refresh.spawned
                   => ~Known(stop[k].call)
    <3>1. stop'[k].call = p /\ (stop'[k].stage = "returned" /\ p \in refresh.spawned => ~Known(p))
      BY <1>1, <2>1
    <3>2. UNCHANGED <<supervisor, spec>> /\ refresh.stage = "listed"
      BY <1>4 DEF FinishRefresh
    <3>. QED
      BY <3>1, <3>2 DEF Known, Alive
  <2>. QED
    BY <1>1, <1>2, <1>3, <1>4, <2>1, RefreshAnswers
<1>5. ASSUME NEW j \in Stopper, FindSupervisor(j) \/ FinishStop(j)
      PROVE  Right
  <2>1. stop[j].call \in Call
    BY <1>1, <1>5 DEF StopsHaveCalls, FindSupervisor, FinishStop
  <2>2. /\ stop'[j].call = stop[j].call
        /\ \A i \in Stopper \ {j} : stop'[i] = stop[i]
        /\ stop'[j].stage = "returned" => supervisor'[stop[j].call] # "alive"
    BY <1>5, <2>1, StopStep DEF Alive, ManagerInv
  <2>3. CASE j = k
    <3>1. stop[k].call = p
      BY <1>1, <1>5, <2>3 DEF FindSupervisor, FinishStop
    <3>. QED
      BY <2>2, <2>3, <3>1 DEF Known, Alive
  <2>. QED
    BY <1>1, <1>2, <2>2, <2>3
<1>6. ASSUME NEW j \in Stopper, Answer(j) PROVE Right
  <2>1. stop' = [stop EXCEPT ![j] = NoStop]
    BY <1>6 DEF Answer
  <2>. QED
    BY <1>1, <1>2, <1>3, <2>1 DEF ManagerInv, ManagerTypes, OperationTypes
<1>7. CASE RefreshFails \/ GoDown
  BY <1>1, <1>2, <1>3, <1>7 DEF RefreshFails, GoDown
<1>8. CASE UNCHANGED stop
  BY <1>2, <1>8
<1>9. CASE Manager
  <2>1. CASE Tick \/ ListSupervisors \/ Boot
    BY <1>8, <2>1 DEF Tick, ListSupervisors, Boot
  <2>2. ASSUME NEW q \in Call,
               Probe(q) \/ ExitIsSeen(q) \/ ServerListens(q) \/ ServerCloses(q) \/ SupervisorExits(q)
        PROVE  Right
    BY <1>8, <2>2 DEF Probe, ExitIsSeen, ServerListens, ServerCloses, SupervisorExits
  <2>3. ASSUME NEW q \in Call, Start(q) PROVE Right
    BY <1>8, <2>3 DEF Start, StartProcess, StartRefused, AllocatePort, WriteSpec, Spawn, SpawnFails,
                      PortAnswers, ExitsBeforeReady, GiveUpStart, StartFails
  <2>. QED
    BY <1>5, <1>6, <1>9, <2>1, <2>2, <2>3 DEF Manager, AnswerLost
<1>10. ASSUME NEW e \in Deleter, StopProcesses(e) PROVE Right
  BY <1>1, <1>2, <1>10, StopProcessesStep DEF ManagerInv, StopsInSlots
<1>11. ASSUME NEW e \in Deleter, ListProcesses(e) \/ RemoveWorkspace(e) PROVE Right
  BY <1>8, <1>11 DEF ListProcesses, RemoveWorkspace
<1>12. ASSUME NEW l \in Life, InvokeTool(l) PROVE Right
  BY <1>8, <1>12, InvokedStart DEF DeletionInv
<1>13. CASE FinishRefreshForAll \/ RefreshFailsForAll \/ Crash
  BY <1>4, <1>7, <1>13 DEF FinishRefreshForAll, RefreshFailsForAll, Crash
<1>14. UNCHANGED vars => UNCHANGED stop
  OBVIOUS
<1>15. Right
  BY <1>8, <1>9, <1>10, <1>11, <1>12, <1>13, <1>14, StepsOfSession
<1>. QED
  BY <1>15

(* What becomes of a deletion. *)
LEMMA DeletionMoves ==
    ASSUME DeletionInv, DeletionNext, NEW d \in Deleter
    PROVE  \/ /\ deletion'[d].stage = deletion[d].stage
              /\ deletion'[d].targets = deletion[d].targets /\ deletion'[d].seen = deletion[d].seen
           \/ deletion'[d].stage \notin {"listed", "stopping", "removing"}
           \/ FinishRefreshForAll /\ At(d, "listing")
           \/ StopProcesses(d)
           \/ ProcessesStopped(d)
<1> USE DEF DeletionInv
<1> DEFINE Moves(e) == \/ deletion'[e] = deletion[e]
                       \/ deletion'[e].stage \notin {"listed", "stopping", "removing"}
                       \/ StopProcesses(e)
                       \/ ProcessesStopped(e)
<1>1. CASE FinishRefreshForAll
  BY <1>1 DEF FinishRefreshForAll, Listed
<1>2. CASE RefreshFailsForAll \/ Crash
  BY <1>2, NoDeletionType DEF RefreshFailsForAll, Crash
<1>3. ASSUME NEW l \in Life, ExecutionEnds(l)
      PROVE  \/ /\ deletion'[d].stage = deletion[d].stage
                /\ deletion'[d].targets = deletion[d].targets /\ deletion'[d].seen = deletion[d].seen
             \/ deletion'[d].stage = "aborted"
  BY <1>3, WaitsLessType DEF ExecutionEnds
<1>4. ASSUME NEW e \in Deleter, BeginDeletion(e) \/ Delete(e)
      PROVE  Moves(d)
  <2>1. CASE Fails(e)
    BY <2>1, FailsType, NoDeletionType
  <2>2. ASSUME NEW stage \in DeletionStage \ {"listed", "stopping", "removing"}, DeletionTo(e, stage)
        PROVE  Moves(d)
    BY <2>2, DeletionToType
  <2>3. CASE StopProcesses(e) \/ ProcessesStopped(e)
    <3>1. \E stage \in DeletionStage : DeletionTo(e, stage)
      BY <2>3 DEF StopProcesses, ProcessesStopped, DeletionStage
    <3>. QED
      BY <2>3, <3>1, DeletionToType
  <2>4. CASE AbortExecutions(e)
    BY <2>4, AbortType
  <2>5. \/ Fails(e) \/ StopProcesses(e) \/ ProcessesStopped(e) \/ AbortExecutions(e)
        \/ \E stage \in DeletionStage \ {"listed", "stopping", "removing"} : DeletionTo(e, stage)
    BY <1>4 DEF BeginDeletion, Delete, GraceIsOver, ListProcesses, StopFails,
                RemoveWorkspace, RemovalFails, FinalizeDeletion,
                CloseStream, FencedStage, Fails, DeletionStage
  <2>. QED
    BY <2>1, <2>2, <2>3, <2>4, <2>5
<1>5. CreateSession \/ Manager => UNCHANGED deletion
  BY DEF CreateSession, Manager
<1>6. ASSUME NEW l \in Life
      PROVE  /\ LoadExecution(l) \/ RegisterExecution(l) \/ InvokeTool(l) \/ ToolReturns(l)
                    => UNCHANGED deletion
             /\ \A call \in Call \cup {None} : StartTool(l, call) => UNCHANGED deletion
  BY DEF LoadExecution, RegisterExecution, InvokeTool, ToolReturns, StartTool
<1>. QED
  BY <1>1, <1>2, <1>3, <1>4, <1>5, <1>6 DEF DeletionNext, Work

(* A deletion lists what is there, stops what it listed, and goes on when  *)
(* all of it is gone.                                                      *)
LEMMA SeenAreStoppedStep ==
    ASSUME DeletionInv, DeletionNext
    PROVE  SeenAreStopped'
<1> USE DEF DeletionInv
<1> DEFINE Right(d, p) ==
        /\ deletion'[d].stage \in {"listed", "stopping", "removing"} => supervisor'[p] # "none"
        /\ deletion'[d].stage \in {"listed", "stopping"} =>
              /\ refresh'.stage = "listed" => p \in refresh'.spawned
              /\ Known(p)' => p \in deletion'[d].targets
        /\ deletion'[d].stage = "stopping" /\ p \in deletion'[d].targets
              /\ stop'[<<d, p>>].stage = "returned" => ~Known(p)'
        /\ deletion'[d].stage = "removing" => ~Known(p)'
<1>1. /\ ListIsComplete /\ ListMoves
      /\ \A p \in Call : supervisor[p] # "none" => supervisor'[p] # "none" /\ (Known(p)' => Known(p))
  BY ManagerInDeletion DEF ProcessesStay, ManagerInv
<1>2. \A d \in Deleter : deletion[d].seen \subseteq Call
  BY DEF DeletionTypes, Deletion
<1>3. ASSUME NEW p \in Call, supervisor[p] # "none", refresh.stage = "listed" => p \in refresh.spawned
      PROVE  refresh'.stage = "listed" => p \in refresh'.spawned
  BY <1>1, <1>3 DEF ListMoves
<1>4. ASSUME NEW d \in Deleter, NEW p \in deletion[d].seen,
             deletion'[d].targets = deletion[d].targets, deletion'[d].seen = deletion[d].seen,
             \/ deletion'[d].stage = deletion[d].stage
             \/ /\ deletion[d].stage = "listed" /\ deletion'[d].stage = "stopping"
                /\ p \in deletion[d].targets => stop'[<<d, p>>].stage # "returned"
      PROVE  Right(d, p)
  <2>1. p \in Call
    BY <1>2
  <2>2. CASE deletion[d].stage \in {"listed", "stopping"}
    <3>1. supervisor[p] # "none" /\ (refresh.stage = "listed" => p \in refresh.spawned)
          /\ (Known(p) => p \in deletion[d].targets)
      BY <2>2 DEF SeenAreStopped
    <3>2. refresh'.stage = "listed" => p \in refresh'.spawned
      BY <1>3, <2>1, <3>1
    <3>3. CASE deletion'[d].stage = "stopping" /\ p \in deletion'[d].targets
               /\ stop'[<<d, p>>].stage = "returned"
      <4>1. deletion[d].stage = "stopping"
        BY <1>4, <3>3
      <4>2. \/ stop[<<d, p>>].stage = "returned" \/ ~Known(p)'
        BY <2>1, <3>1, <3>3, SlotMoves
      <4>3. stop[<<d, p>>].stage = "returned" => ~Known(p)
        BY <1>4, <3>3, <4>1 DEF SeenAreStopped
      <4>4. ~Known(p)'
        BY <1>1, <2>1, <3>1, <4>2, <4>3
      <4>. QED
        BY <1>1, <2>1, <3>1, <3>2, <4>4, <3>3
    <3>. QED
      BY <1>1, <1>4, <2>1, <2>2, <3>1, <3>2, <3>3
  <2>3. CASE deletion[d].stage = "removing"
    BY <1>1, <1>4, <2>1, <2>3 DEF SeenAreStopped
  <2>. QED
    BY <1>4, <2>2, <2>3
<1>5. ASSUME NEW d \in Deleter, FinishRefreshForAll, At(d, "listing"), NEW p \in deletion'[d].seen
      PROVE  Right(d, p)
  <2>1. /\ deletion'[d] = Listed(d)
        /\ refresh.stage = "listed" /\ refresh.todo = {} /\ refresh' = NoRefresh
        /\ UNCHANGED <<supervisor, spec>>
    BY <1>5 DEF FinishRefreshForAll, FinishRefresh
  <2>2. deletion'[d].stage = "listed" /\ deletion'[d].targets = Targets
        /\ deletion'[d].seen = {q \in refresh.spawned : spec[q]}
    BY <1>5, <2>1 DEF Listed
  <2>3. p \in refresh.spawned /\ p \in Call
    BY <2>2 DEF ManagerInv, ManagerTypes, RegistryTypes
  <2>4. supervisor[p] # "none" /\ (Known(p) => p \in refresh.listed /\ Active(p))
    BY <1>1, <2>1, <2>3 DEF ListIsComplete
  <2>5. Known(p) => p \in Targets
    BY <2>3, <2>4, SweptRecords DEF Targets, ManagerInv, ManagerTypes
  <2>. QED
    BY <2>1, <2>2, <2>4, <2>5, NoRefreshType DEF Known, Alive
<1>6. ASSUME NEW d \in Deleter, StopProcesses(d), NEW p \in deletion'[d].seen
      PROVE  Right(d, p)
  <2>1. deletion[d].stage = "listed" /\ DeletionTo(d, "stopping")
    BY <1>6 DEF StopProcesses, At
  <2>2. deletion'[d].stage = "stopping" /\ deletion'[d].targets = deletion[d].targets
        /\ deletion'[d].seen = deletion[d].seen
    BY <2>1, DeletionToType DEF DeletionStage
  <2>3. p \in Call /\ (p \in deletion[d].targets => stop'[<<d, p>>].stage # "returned")
    BY <1>2, <1>6, <2>2, StopProcessesStep DEF ManagerInv
  <2>. QED
    BY <1>4, <2>1, <2>2, <2>3
<1>7. ASSUME NEW d \in Deleter, ProcessesStopped(d), NEW p \in deletion'[d].seen
      PROVE  Right(d, p)
  <2>1. deletion[d].stage = "stopping" /\ AllStopped(d) /\ DeletionTo(d, "removing")
        /\ UNCHANGED <<supervisor, spec>>
    BY <1>7 DEF ProcessesStopped, At
  <2>2. deletion'[d].stage = "removing" /\ deletion'[d].seen = deletion[d].seen
    BY <2>1, DeletionToType DEF DeletionStage
  <2>3. supervisor[p] # "none" /\ ~Known(p)
    BY <1>7, <2>1, <2>2 DEF SeenAreStopped, AllStopped, Returned
  <2>. QED
    BY <2>1, <2>2, <2>3 DEF Known, Alive
<1>8. ASSUME NEW d \in Deleter, NEW p \in deletion'[d].seen
      PROVE  Right(d, p)
  <2>1. CASE /\ deletion'[d].stage = deletion[d].stage
             /\ deletion'[d].targets = deletion[d].targets /\ deletion'[d].seen = deletion[d].seen
    BY <1>4, <1>8, <2>1
  <2>. QED
    BY <1>5, <1>6, <1>7, <1>8, <2>1, DeletionMoves
<1>. QED
  BY <1>8 DEF SeenAreStopped, Known, Alive

LEMMA DeletionInitially == DeletionInit => DeletionInv
<1> SUFFICES ASSUME DeletionInit PROVE DeletionInv
  OBVIOUS
<1>1. ProcessesInv
  BY ProcessesInit DEF DeletionInit
<1>2. WorkTypes /\ DeletionTypes
  <2>1. NoExecution \in Execution
    BY DEF NoExecution, Execution, ExecutionStage
  <2>. QED
    BY <2>1, NoDeletionType DEF DeletionInit, WorkTypes, DeletionTypes, Init
<1>3. CallsStartOnce /\ StartsAreHeld
  BY DEF DeletionInit, CallsStartOnce, StartsAreHeld, Init, Unstarted, CallIsFresh, Holds, AtTool,
         Is, NoExecution
<1>4. StopsInSlots
  BY StopperAssumption, NoStopType DEF DeletionInit, StopsInSlots, Init
<1>5. SeenAreStopped
  BY NoDeletionType DEF DeletionInit, SeenAreStopped
<1>. QED
  BY <1>1, <1>2, <1>3, <1>4, <1>5 DEF ProcessesInv, DeletionInv

LEMMA DeletionInvariance == DeletionSpec => []DeletionInv
<1>1. DeletionInv /\ DeletionNext => DeletionInv'
  <2> SUFFICES ASSUME DeletionInv, DeletionNext PROVE DeletionInv'
    OBVIOUS
  <2>1. StopsInSlots'
    BY SlotMoves DEF StopsInSlots
  <2>. QED
    BY <2>1, ManagerInDeletion, WorkTypesStep, DeletionTypesStep, CallsStartOnceStep,
       StartsAreHeldStep, SeenAreStoppedStep DEF DeletionInv, ManagerInv
<1>2. DeletionInv /\ UNCHANGED allVars => DeletionInv'
  <2> SUFFICES ASSUME DeletionInv, UNCHANGED allVars PROVE DeletionInv'
    OBVIOUS
  <2>1. ManagerInv'
    BY DEF DeletionInv, ManagerInv, ManagerTypes, ProcessTypes, RegistryTypes, OperationTypes,
           FreshStarts, AboutToSpawn, SpawnedOnce, ListIsComplete, Known, Alive, Active
  <2>2. WorkTypes' /\ DeletionTypes'
    BY DEF DeletionInv, WorkTypes, DeletionTypes
  <2>3. CallsStartOnce' /\ StartsAreHeld' /\ StopsInSlots'
    BY DEF DeletionInv, CallsStartOnce, StartsAreHeld, Unstarted, CallIsFresh, Holds, AtTool, Is,
           StopsInSlots
  <2>4. SeenAreStopped'
    BY DEF DeletionInv, SeenAreStopped, Known, Alive
  <2>. QED
    BY <2>1, <2>2, <2>3, <2>4 DEF DeletionInv
<1>. QED
  BY <1>1, <1>2, DeletionInitially, PTL DEF DeletionSpec

(* No process that a deletion saw when it made its list loses its files,   *)
(* and its launch spec, while it lives: whoever else starts, stops or      *)
(* lists processes meanwhile, and whichever of these fails.                *)
THEOREM NoFilesOfTheLiving == DeletionSpec => []ListedProcessesAreStopped
<1>1. DeletionInv => ListedProcessesAreStopped
  BY DEF DeletionInv, SeenAreStopped, ListedProcessesAreStopped, At, Known
<1>. QED
  BY <1>1, DeletionInvariance, PTL

(* Removing a workspace removes the specs that keep a call from spawning   *)
(* again, and yet none does: the store lets it start once.                 *)
THEOREM CallsSpawnOnceForGood == DeletionSpec => []OneProcessPerCall
<1>1. DeletionInv => OneProcessPerCall
  BY DEF DeletionInv, ManagerInv, SpawnedOnce, OneProcessPerCall
<1>. QED
  BY <1>1, DeletionInvariance, PTL

-----------------------------------------------------------------------------
(* What is left when the row is gone.  Two requests that overlap may lead  *)
(* astray when the session is created again in between: one of them fences *)
(* the new session, and the other takes the fence for its own.             *)

Alone == MaxLives <= 1 \/ \A d, e \in Deleter : d = e

PastAbort == {"aborted", "listing", "listed", "stopping", "removing", "finalizing"}

(* An execution that is at a tool is waited for, and the workspace goes,   *)
(* before the row does; behind the fence neither comes back.               *)
FenceHolds(d) ==
    /\ At(d, "aborting") /\ row # "active" =>
          \A l \in Life : AtTool(l) => l \in deletion[d].waits
    /\ deletion[d].stage \in PastAbort /\ row # "active" => \A l \in Life : ~AtTool(l)
    /\ At(d, "finalizing") /\ row # "active" => ~files /\ \A p \in Call : ~spec[p]
    /\ ~At(d, "idle") /\ MaxLives <= 1 => row # "active" /\ lives > 0

FenceInv ==
    /\ NothingIsLeft
    /\ row # "none" => lives > 0
    /\ \A d \in Deleter : FenceHolds(d)

LEMMA RowMoves ==
    ASSUME DeletionNext
    PROVE  \/ UNCHANGED <<row, lives>>
           \/ CreateSession
           \/ \E d \in Deleter : BeginDeletion(d) \/ FinalizeDeletion(d)
<1>1. ASSUME NEW d \in Deleter, Delete(d) PROVE FinalizeDeletion(d) \/ UNCHANGED <<row, lives>>
  BY <1>1 DEF Delete, AbortExecutions, GraceIsOver, ListProcesses, StopProcesses,
              ProcessesStopped, StopFails, RemoveWorkspace, RemovalFails, CloseStream
<1>2. CASE Work
  BY <1>2 DEF Work, LoadExecution, RegisterExecution, StartTool, InvokeTool, ToolReturns,
              ExecutionEnds
<1>3. FinishRefreshForAll \/ RefreshFailsForAll \/ Manager \/ Crash => UNCHANGED <<row, lives>>
  BY DEF FinishRefreshForAll, RefreshFailsForAll, Manager, Crash
<1>. QED
  BY <1>1, <1>2, <1>3 DEF DeletionNext

(* As long as nobody is at a tool nothing is added to the workspace. *)
LEMMA TracesStay ==
    ASSUME DeletionInv, DeletionNext, \A l \in Life : ~AtTool(l)
    PROVE  (files' => files) /\ \A p \in Call : spec'[p] => spec[p]
<1>1. \A p \in Call : start[p] = "idle"
  BY DEF DeletionInv, StartsAreHeld, AtTool
<1>2. \A l \in Life : ~InvokeTool(l)
  BY DEF InvokeTool, AtTool
<1>3. files' => files
  <2>1. CASE Work
    BY <1>2, <2>1 DEF Work, CreateSession, LoadExecution, RegisterExecution, StartTool,
                      ToolReturns, ExecutionEnds
  <2>2. ASSUME NEW d \in Deleter, BeginDeletion(d) \/ Delete(d) PROVE files' => files
    BY <2>2 DEF BeginDeletion, Delete, AbortExecutions, GraceIsOver, ListProcesses, StopProcesses,
                ProcessesStopped, StopFails, RemoveWorkspace, RemovalFails, FinalizeDeletion,
                CloseStream
  <2>3. FinishRefreshForAll \/ RefreshFailsForAll \/ Manager \/ Crash => UNCHANGED files
    BY DEF FinishRefreshForAll, RefreshFailsForAll, Manager, Crash
  <2>. QED
    BY <2>1, <2>2, <2>3 DEF DeletionNext
<1>. QED
  BY <1>1, <1>3, CallMoves

(* How a deletion gets from stage to stage. *)
LEMMA StageMoves ==
    ASSUME DeletionInv, DeletionNext, NEW d \in Deleter
    PROVE  \/ deletion'[d] = deletion[d]
           \/ deletion'[d].stage = "idle"
           \/ deletion[d].stage # "idle" /\ deletion'[d].stage = "closing"
           \/ BeginDeletion(d) /\ deletion'[d].stage = "fenced"
           \/ AbortExecutions(d)
           \/ \E l \in Life : ExecutionEnds(l) /\ deletion'[d] = WaitsLess(d, l)
           \/ /\ RemoveWorkspace(d) /\ deletion[d].stage = "removing"
              /\ deletion'[d].stage = "finalizing"
           \/ deletion[d].stage \in PastAbort /\ deletion'[d].stage \in PastAbort \ {"finalizing"}
<1> USE DEF PastAbort, At
<1> DEFINE Right ==
           \/ deletion'[d] = deletion[d]
           \/ deletion'[d].stage = "idle"
           \/ deletion[d].stage # "idle" /\ deletion'[d].stage = "closing"
           \/ BeginDeletion(d) /\ deletion'[d].stage = "fenced"
           \/ AbortExecutions(d)
           \/ \E l \in Life : ExecutionEnds(l) /\ deletion'[d] = WaitsLess(d, l)
           \/ /\ RemoveWorkspace(d) /\ deletion[d].stage = "removing"
              /\ deletion'[d].stage = "finalizing"
           \/ deletion[d].stage \in PastAbort /\ deletion'[d].stage \in PastAbort \ {"finalizing"}
<1>1. DeletionTypes
  BY DEF DeletionInv
<1>2. ASSUME NEW e \in Deleter, BeginDeletion(e) \/ Delete(e), e # d PROVE deletion'[d] = deletion[d]
  <2>1. \/ \E stage \in DeletionStage : DeletionTo(e, stage)
        \/ Fails(e) \/ AbortExecutions(e)
    BY <1>2 DEF BeginDeletion, Delete, GraceIsOver, ListProcesses, StopProcesses,
                ProcessesStopped, StopFails, RemoveWorkspace, RemovalFails, FinalizeDeletion,
                CloseStream, FencedStage, Fails, DeletionStage
  <2>. QED
    BY <1>1, <1>2, <2>1, DeletionToType, FailsType, AbortType
<1>3. CASE Fails(d)
  BY <1>1, <1>3, FailsType, NoDeletionType
<1>4. ASSUME NEW stage \in DeletionStage, DeletionTo(d, stage) PROVE deletion'[d].stage = stage
  BY <1>1, <1>4, DeletionToType
<1>5. GraceIsOver(d) \/ StopFails(d) \/ RemovalFails(d) \/ CloseStream(d) => Fails(d)
  BY DEF GraceIsOver, StopFails, RemovalFails, CloseStream, Fails
<1>6. CASE BeginDeletion(d)
  BY <1>4, <1>6 DEF BeginDeletion, FencedStage, DeletionStage
<1>7. CASE RemoveWorkspace(d)
  BY <1>4, <1>7 DEF RemoveWorkspace, DeletionStage
<1>8. CASE FinalizeDeletion(d)
  <2>1. deletion[d].stage = "finalizing" /\ deletion'[d].stage = "closing"
    BY <1>4, <1>8 DEF FinalizeDeletion, DeletionStage
  <2>. QED
    BY <2>1
<1>9. CASE ListProcesses(d) \/ StopProcesses(d) \/ ProcessesStopped(d)
  <2>1. /\ deletion[d].stage \in {"aborted", "listed", "stopping"}
        /\ \E stage \in {"listing", "stopping", "removing"} : DeletionTo(d, stage)
    BY <1>9 DEF ListProcesses, StopProcesses, ProcessesStopped
  <2>2. deletion'[d].stage \in {"listing", "stopping", "removing"}
    BY <1>4, <2>1 DEF DeletionStage
  <2>. QED
    BY <2>1, <2>2
<1>10. CASE FinishRefreshForAll
  <2>1. deletion'[d] = Listed(d)
    BY <1>10 DEF FinishRefreshForAll
  <2>2. \/ Listed(d) = deletion[d]
        \/ deletion[d].stage = "listing" /\ Listed(d).stage = "listed"
    BY DEF Listed
  <2>. QED
    BY <2>1, <2>2
<1>11. CASE RefreshFailsForAll \/ Crash
  BY <1>11, NoDeletionType DEF RefreshFailsForAll, Crash
<1>12. ASSUME NEW l \in Life, ExecutionEnds(l) PROVE Right
  BY <1>12 DEF ExecutionEnds
<1>13. CreateSession \/ Manager => UNCHANGED deletion
  BY DEF CreateSession, Manager
<1>14. ASSUME NEW l \in Life
       PROVE  /\ LoadExecution(l) \/ RegisterExecution(l) \/ InvokeTool(l) \/ ToolReturns(l)
                     => UNCHANGED deletion
              /\ \A call \in Call \cup {None} : StartTool(l, call) => UNCHANGED deletion
  BY DEF LoadExecution, RegisterExecution, InvokeTool, ToolReturns, StartTool
<1>15. ASSUME NEW e \in Deleter, BeginDeletion(e) \/ Delete(e) PROVE Right
  <2>1. CASE e # d
    BY <1>2, <1>15, <2>1
  <2>2. CASE e = d
    BY <1>3, <1>5, <1>6, <1>7, <1>8, <1>9, <1>15, <2>2 DEF Delete
  <2>. QED
    BY <2>1, <2>2
<1>16. Right
  BY <1>10, <1>11, <1>12, <1>13, <1>14, <1>15 DEF DeletionNext, Work
<1>. QED
  BY <1>16

LEMMA FenceStep ==
    ASSUME Alone, DeletionInv, FenceInv, DeletionNext
    PROVE  FenceInv'
<1> USE DEF FenceInv, NothingIsLeft
<1>1. /\ lives \in Nat /\ MaxLives \in Nat /\ DeletionTypes /\ WorkTypes
      /\ row \in {"none", "active", "archived"}
  BY LivesAssumption DEF DeletionInv, WorkTypes
<1>2. /\ CreateSession => /\ row = "none" /\ row' = "active" /\ lives < MaxLives
                          /\ lives' = lives + 1 /\ UNCHANGED <<execution, files, spec, deletion>>
      /\ \A d \in Deleter : BeginDeletion(d) =>
            /\ deletion[d].stage = "idle" /\ lives > 0 /\ UNCHANGED <<lives, execution, files, spec>>
            /\ row' = IF row = "active" THEN "archived" ELSE row
      /\ \A d \in Deleter : FinalizeDeletion(d) =>
            /\ deletion[d].stage = "finalizing" /\ UNCHANGED <<lives, execution, files, spec>>
            /\ row' = IF row = "archived" THEN "none" ELSE row
  BY DEF CreateSession, BeginDeletion, FinalizeDeletion, At
<1>3. ASSUME NEW l \in Life, AtTool(l)'
      PROVE  AtTool(l) \/ (HasSession(l) /\ StartTool(l, execution'[l].call))
  BY <1>1, <1>3, ExecutionMoves, InvokedStart DEF AtTool, Is
<1>4. ASSUME row # "none", row' = "none"
      PROVE  UNCHANGED <<execution, files, spec>> /\ ~files /\ (\A p \in Call : ~spec[p])
             /\ \A l \in Life : ~AtTool(l)
  <2>1. PICK d \in Deleter : FinalizeDeletion(d)
    BY <1>2, <1>4, RowMoves
  <2>2. deletion[d].stage = "finalizing" /\ row = "archived" /\ UNCHANGED <<execution, files, spec>>
    BY <1>1, <1>2, <1>4, <2>1
  <2>3. FenceHolds(d)
    OBVIOUS
  <2>. QED
    BY <2>2, <2>3 DEF FenceHolds, PastAbort, At
<1>5. ASSUME row' = "none" PROVE ~files' /\ \A p \in Call : ~spec'[p]
  <2>1. CASE row = "none"
    BY <1>5, <2>1, TracesStay
  <2>2. CASE row # "none"
    BY <1>4, <1>5, <2>2
  <2>. QED
    BY <2>1, <2>2
<1>6. ASSUME NEW l \in Life, AtTool(l)' PROVE row' # "none" /\ l = lives'
  <2>1. CASE AtTool(l)
    <3>1. row # "none" /\ l = lives
      BY <2>1
    <3>2. lives' = lives
      BY <1>2, <3>1, RowMoves
    <3>3. row' # "none"
      BY <1>4, <2>1, <3>1
    <3>. QED
      BY <3>1, <3>2, <3>3
  <2>2. CASE HasSession(l) /\ StartTool(l, execution'[l].call)
    BY <2>2 DEF HasSession, StartTool
  <2>. QED
    BY <1>3, <1>6, <2>1, <2>2
<1>7. row' # "none" => lives' > 0
  BY <1>1, <1>2, RowMoves
<1>8. ASSUME NEW d \in Deleter, deletion[d].stage # "idle", row' # "active" PROVE row # "active"
  <2>1. ASSUME NEW e \in Deleter, BeginDeletion(e) PROVE row # "active"
    <3>1. CASE MaxLives <= 1
      BY <1>8, <3>1 DEF FenceHolds, At
    <3>2. CASE \A a, b \in Deleter : a = b
      BY <1>2, <1>8, <2>1, <3>2
    <3>. QED
      BY <3>1, <3>2 DEF Alone
  <2>. QED
    BY <1>2, <1>8, <2>1, RowMoves
<1>9. ASSUME NEW l \in Life, AtTool(l)', row # "active" PROVE AtTool(l)
  BY <1>3, <1>9 DEF HasSession
<1>10. ASSUME NEW d \in Deleter, deletion'[d].stage = "aborting", row' # "active",
              NEW l \in Life, AtTool(l)'
       PROVE  l \in deletion'[d].waits
  <2>1. ASSUME deletion[d].stage = "aborting" PROVE l \in deletion[d].waits
    BY <1>8, <1>9, <1>10, <2>1 DEF FenceHolds, At
  <2>2. CASE AbortExecutions(d)
    <3>1. AtTool(l) /\ deletion'[d].waits = {m \in Life : Registered(m)}
      BY <1>1, <1>10, <2>2, AbortType DEF AbortExecutions, AtTool, Is
    <3>. QED
      BY <3>1 DEF Registered
  <2>3. ASSUME NEW m \in Life, ExecutionEnds(m), deletion'[d] = WaitsLess(d, m)
        PROVE  l \in deletion'[d].waits
    <3>1. deletion[d].stage = "aborting" /\ deletion'[d].waits = deletion[d].waits \ {m}
      BY <1>1, <1>10, <2>3, WaitsLessType
    <3>2. l # m
      BY <1>1, <1>10, <2>3, ExecutionToType DEF ExecutionEnds, WorkTypes, ExecutionStage, AtTool, Is
    <3>. QED
      BY <2>1, <3>1, <3>2
  <2>. QED
    BY <1>10, <2>1, <2>2, <2>3, StageMoves DEF PastAbort
<1>11. ASSUME NEW d \in Deleter, deletion'[d].stage \in PastAbort, row' # "active",
              NEW l \in Life, AtTool(l)'
       PROVE  FALSE
  <2>1. ASSUME deletion[d].stage \in PastAbort PROVE FALSE
    <3>1. row # "active"
      BY <1>8, <1>11, <2>1 DEF PastAbort
    <3>. QED
      BY <1>9, <1>11, <2>1, <3>1 DEF FenceHolds
  <2>2. CASE AbortExecutions(d)
    <3>1. AtTool(l)
      BY <1>11, <2>2 DEF AbortExecutions, AtTool, Is
    <3>2. {m \in Life : Registered(m)} # {}
      BY <3>1 DEF Registered
    <3>. QED
      BY <1>1, <1>11, <2>2, <3>2, AbortType DEF PastAbort
  <2>3. ASSUME NEW m \in Life, ExecutionEnds(m), deletion'[d] = WaitsLess(d, m) PROVE FALSE
    <3>1. l # m
      BY <1>1, <1>11, <2>3, ExecutionToType DEF ExecutionEnds, WorkTypes, ExecutionStage, AtTool, Is
    <3>2. deletion[d].stage = "aborting" /\ deletion[d].waits \ {m} = {}
      BY <1>1, <1>11, <2>1, <2>3, WaitsLessType
    <3>3. l \in deletion[d].waits
      BY <1>8, <1>9, <1>11, <3>2 DEF FenceHolds, At
    <3>. QED
      BY <3>1, <3>2, <3>3
  <2>. QED
    BY <1>11, <2>1, <2>2, <2>3, StageMoves DEF PastAbort
<1>12. ASSUME NEW d \in Deleter, deletion'[d].stage = "finalizing", row' # "active"
       PROVE  ~files' /\ \A p \in Call : ~spec'[p]
  <2>1. CASE deletion[d].stage = "finalizing"
    <3>1. row # "active"
      BY <1>8, <1>12, <2>1
    <3>2. ~files /\ (\A p \in Call : ~spec[p]) /\ \A l \in Life : ~AtTool(l)
      BY <2>1, <3>1 DEF FenceHolds, At, PastAbort
    <3>. QED
      BY <3>2, TracesStay
  <2>2. CASE RemoveWorkspace(d)
    BY <2>2 DEF RemoveWorkspace
  <2>3. ASSUME NEW m \in Life, deletion'[d] = WaitsLess(d, m) PROVE deletion[d].stage = "finalizing"
    BY <1>1, <1>12, <2>3, WaitsLessType
  <2>4. ~AbortExecutions(d)
    BY <1>1, <1>12, AbortType
  <2>. QED
    BY <1>12, <2>1, <2>2, <2>3, <2>4, StageMoves DEF PastAbort
<1>13. ASSUME NEW d \in Deleter, deletion'[d].stage # "idle", MaxLives <= 1
       PROVE  row' # "active" /\ lives' > 0
  <2>1. CASE deletion[d].stage # "idle"
    <3>1. row # "active" /\ lives > 0
      BY <1>13, <2>1 DEF FenceHolds, At
    <3>2. ~CreateSession
      BY <1>1, <1>2, <1>13, <3>1
    <3>. QED
      BY <1>2, <3>1, <3>2, RowMoves
  <2>2. CASE BeginDeletion(d)
    BY <1>2, <2>2
  <2>3. AbortExecutions(d) => deletion[d].stage # "idle"
    BY DEF AbortExecutions, At
  <2>4. ASSUME NEW m \in Life, deletion'[d] = WaitsLess(d, m) PROVE deletion[d].stage # "idle"
    BY <1>1, <1>13, <2>4, WaitsLessType
  <2>. QED
    BY <1>13, <2>1, <2>2, <2>3, <2>4, StageMoves DEF PastAbort
<1>14. ASSUME NEW d \in Deleter PROVE FenceHolds(d)'
  BY <1>10, <1>11, <1>12, <1>13 DEF FenceHolds, At
<1>. QED
  BY <1>5, <1>6, <1>7, <1>14

(* When the row of a session is gone, its workspace is empty, no execution *)
(* is at a tool, and none that lingers comes to be at one, not even in a   *)
(* session that is created again under the id: whatever failed on the way, *)
(* at whatever step the runtime went down and however late an execution    *)
(* registered; for a session that is created once, however often its       *)
(* deletion is requested, and else for requests that do not overlap.       *)
THEOREM DeletedSessionsAreClean ==
    ASSUME MaxLives <= 1 \/ \A d, e \in Deleter : d = e
    PROVE  DeletionSpec => []NothingIsLeft
<1>1. Alone
  BY DEF Alone
<1>2. DeletionInit => FenceInv
  <2> SUFFICES ASSUME DeletionInit PROVE FenceInv
    OBVIOUS
  <2>1. /\ row = "none" /\ ~files /\ (\A p \in Call : ~spec[p])
        /\ \A d \in Deleter : deletion[d].stage = "idle"
    BY NoDeletionType DEF DeletionInit, Init
  <2>2. \A l \in Life : ~AtTool(l)
    BY DEF DeletionInit, AtTool, Is, NoExecution
  <2>. QED
    BY <2>1, <2>2 DEF FenceInv, FenceHolds, NothingIsLeft, At, PastAbort
<1>3. DeletionInv /\ FenceInv /\ DeletionNext => FenceInv'
  BY <1>1, FenceStep
<1>4. FenceInv /\ UNCHANGED allVars => FenceInv'
  BY DEF FenceInv, FenceHolds, NothingIsLeft, At, AtTool, Is
<1>5. FenceInv => NothingIsLeft
  BY DEF FenceInv
<1>. QED
  BY <1>2, <1>3, <1>4, <1>5, DeletionInvariance, PTL DEF DeletionSpec
==============================================================================
