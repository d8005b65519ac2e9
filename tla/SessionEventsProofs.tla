------------------------- MODULE SessionEventsProofs -------------------------
(* Theorems about SessionEvents, for every number of tasks, of plans and   *)
(* of connections.  What the client shows of a task is right at the end    *)
(* because every change of a task is on its way to it as long as it does   *)
(* not show it, and because nothing on its way is ahead of the store.      *)
EXTENDS SessionEvents, SequenceTheorems, TLAPS

USE DEF OpenRun, ClosedRun, Active, Over, Run, Row, NoTask, store, vars

-----------------------------------------------------------------------------
(* Types. *)

RowType == [status : {"none"} \cup Active \cup Over, version : 0..4]
RunsType == [Run -> {"none"} \cup OpenRun \cup ClosedRun]
PlanType == [task : Task \cup {None}, version : 0..MaxPlanUpdates]
ViewType == [task : [Task -> RowType], run : [Task -> RunsType], plan : PlanType]

TaskEvent == [type : {"task"}, task : Task, row : RowType]
RunEvent == [type : {"run"}, task : Task, run : Run, status : OpenRun \cup ClosedRun]
PlanEvent == [type : {"plan"}, plan : PlanType] \cup [type : {"cleared"}, task : Task]
Event == TaskEvent \cup RunEvent \cup PlanEvent

StoreTypes ==
    /\ task \in [Task -> RowType]
    /\ run \in [Task -> RunsType]
    /\ plan \in PlanType

OutboxTypes == outbox \in [Actor -> Seq(Event)] /\ \A a \in Actor : Len(outbox[a]) <= 3

ClientTypes ==
    /\ client \in [stage : {"away", "subscribed", "loading", "following"},
                   view : ViewType, connections : 0..MaxConnections]
    /\ shown \in ViewType

Types ==
    /\ StoreTypes
    /\ OutboxTypes
    /\ ClientTypes
    /\ announced \subseteq Task \X Run

(* The version of a task follows from its status and its runs. *)
RowInOrder(t) ==
    /\ task[t].status \in {"none", "created"} => task[t].version = 0
    /\ task[t].status = "running" =>
          task[t].version = 1 \/ (task[t].version = 3 /\ run[t][1] = "paused")
    /\ task[t].status = "waiting" => task[t].version = 2 /\ run[t][1] = "paused"

RowsInOrder == \A t \in Task : RowInOrder(t)

-----------------------------------------------------------------------------
(* What is on its way to the client. *)

Events(s) == {s[i] : i \in 1 .. Len(s)}
Pending(a) == Events(outbox[a])

(* A state the task is in or was in. *)
Known(row, t) ==
    \/ row = NoTask
    \/ /\ row.status # "none"
       /\ task[t].status # "none"
       /\ row.version <= task[t].version
       /\ row.version = task[t].version => row = task[t]

Committed ==
    \A t \in Task :
        /\ Known(shown.task[t], t)
        /\ Known(client.view.task[t], t)
        /\ \A a \in Actor : \A e \in Pending(a) : e.type = "task" /\ e.task = t => Known(e.row, t)

(* Someone has yet to tell of what the task is now. *)
ToBeTold(t) == \E a \in Actor : TaskUpserted(t, task[t]) \in Pending(a)

(* The client shows a task as it is, or will. *)
Current ==
    \A t \in Task :
        /\ client.stage = "loading" =>
              client.view.task[t] = task[t] \/ shown.task[t] = task[t] \/ ToBeTold(t)
        /\ client.stage = "following" => shown.task[t] = task[t] \/ ToBeTold(t)

EventsInv ==
    /\ Types
    /\ RowsInOrder
    /\ Committed
    /\ Current

-----------------------------------------------------------------------------
(* Sequences of events. *)

LEMMA EventsOfTail ==
    ASSUME NEW s \in Seq(Event), s # <<>>
    PROVE  /\ Head(s) \in Event /\ Tail(s) \in Seq(Event)
           /\ Len(Tail(s)) = Len(s) - 1
           /\ Events(s) = {Head(s)} \cup Events(Tail(s))
<1>1. /\ Head(s) \in Event /\ Tail(s) \in Seq(Event) /\ Len(Tail(s)) = Len(s) - 1
      /\ \A i \in 1 .. Len(Tail(s)) : Tail(s)[i] = s[i + 1]
  BY HeadTailProperties
<1>2. Head(s) = s[1] /\ Len(s) \in Nat \ {0}
  BY EmptySeq, LenProperties
<1>3. \A i \in 2 .. Len(s) : i - 1 \in 1 .. Len(Tail(s)) /\ Tail(s)[i - 1] = s[i]
  BY <1>1, <1>2
<1>4. \A i \in 1 .. Len(Tail(s)) : i + 1 \in 1 .. Len(s)
  BY <1>1, <1>2
<1>5. ASSUME NEW i \in 1 .. Len(s) PROVE s[i] \in {Head(s)} \cup Events(Tail(s))
  <2>1. CASE i = 1
    BY <1>2, <2>1
  <2>2. CASE i # 1
    <3>1. i \in 2 .. Len(s)
      BY <1>2, <2>2
    <3>. QED
      BY <1>3, <3>1 DEF Events
  <2>. QED
    BY <2>1, <2>2
<1>6. ASSUME NEW i \in 1 .. Len(Tail(s)) PROVE Tail(s)[i] \in Events(s)
  BY <1>1, <1>4 DEF Events
<1>7. Head(s) \in Events(s)
  BY <1>2 DEF Events
<1>. QED
  BY <1>1, <1>5, <1>6, <1>7 DEF Events

LEMMA EventsOfNone == Events(<<>>) = {}
  BY DEF Events

LEMMA OneEvent ==
    ASSUME NEW e \in Event
    PROVE  /\ <<e>> \in Seq(Event) /\ Len(<<e>>) = 1 /\ Events(<<e>>) = {e}
  BY DEF Events

LEMMA TwoEvents ==
    ASSUME NEW d \in Event, NEW e \in Event
    PROVE  /\ <<d, e>> \in Seq(Event) /\ Len(<<d, e>>) = 2 /\ Events(<<d, e>>) = {d, e}
  BY DEF Events

LEMMA EventsOfBoth ==
    ASSUME NEW s \in Seq(Event), NEW u \in Seq(Event)
    PROVE  /\ s \o u \in Seq(Event) /\ Len(s \o u) = Len(s) + Len(u)
           /\ Events(s \o u) = Events(s) \cup Events(u)
<1>1. /\ s \o u \in Seq(Event) /\ Len(s \o u) = Len(s) + Len(u)
      /\ \A i \in 1 .. Len(s) + Len(u) :
            (s \o u)[i] = IF i <= Len(s) THEN s[i] ELSE u[i - Len(s)]
  BY ConcatProperties
<1>2. Len(s) \in Nat /\ Len(u) \in Nat
  BY LenProperties
<1>3. ASSUME NEW i \in 1 .. Len(s \o u) PROVE (s \o u)[i] \in Events(s) \cup Events(u)
  <2>1. CASE i <= Len(s)
    BY <1>1, <1>2, <2>1 DEF Events
  <2>2. CASE ~(i <= Len(s))
    <3>1. i - Len(s) \in 1 .. Len(u) /\ (s \o u)[i] = u[i - Len(s)]
      BY <1>1, <1>2, <2>2
    <3>. QED
      BY <3>1 DEF Events
  <2>. QED
    BY <2>1, <2>2
<1>4. ASSUME NEW i \in 1 .. Len(s) PROVE s[i] \in Events(s \o u)
  <2>1. i \in 1 .. Len(s \o u) /\ (s \o u)[i] = s[i]
    BY <1>1, <1>2
  <2>. QED
    BY <2>1 DEF Events
<1>5. ASSUME NEW i \in 1 .. Len(u) PROVE u[i] \in Events(s \o u)
  <2>1. i + Len(s) \in 1 .. Len(s \o u) /\ (s \o u)[i + Len(s)] = u[i]
    BY <1>1, <1>2
  <2>. QED
    BY <2>1 DEF Events
<1>. QED
  BY <1>1, <1>3, <1>4, <1>5 DEF Events

LEMMA EventsOfThree ==
    ASSUME NEW s \in Seq(Event), NEW u \in Seq(Event), NEW v \in Seq(Event),
           Len(s) <= 1, Len(u) <= 1, Len(v) <= 1
    PROVE  /\ s \o u \o v \in Seq(Event) /\ Len(s \o u \o v) <= 3
           /\ Events(s \o u \o v) = Events(s) \cup Events(u) \cup Events(v)
<1>1. /\ s \o u \in Seq(Event) /\ Len(s \o u) = Len(s) + Len(u)
      /\ Events(s \o u) = Events(s) \cup Events(u)
  BY EventsOfBoth
<1>2. /\ s \o u \o v \in Seq(Event) /\ Len(s \o u \o v) = Len(s \o u) + Len(v)
      /\ Events(s \o u \o v) = Events(s \o u) \cup Events(v)
  BY <1>1, EventsOfBoth
<1>3. Len(s) \in Nat /\ Len(u) \in Nat /\ Len(v) \in Nat
  BY LenProperties
<1>. QED
  BY <1>1, <1>2, <1>3

LEMMA EventsAreEvents ==
    ASSUME NEW t \in Task
    PROVE  /\ \A row \in RowType : TaskUpserted(t, row) \in Event
           /\ \A r \in Run, status \in OpenRun \cup ClosedRun : RunUpserted(t, r, status) \in Event
           /\ \A p \in PlanType : PlanUpdated(p) \in Event
           /\ PlanCleared(t) \in Event
  BY DEF TaskUpserted, RunUpserted, PlanUpdated, PlanCleared, Event, TaskEvent, RunEvent,
         PlanEvent

(* The events of s tell of the present state of t and of no other task. *)
Telling(s, t, row) ==
    /\ s \in Seq(Event) /\ Len(s) <= 3
    /\ \A e \in Events(s) : e.type = "task" => e.task = t /\ e.row = row

(* What the end of a task tells of its runs: of one, or of none. *)
RunsTold(t) ==
    {<<>>} \cup {<<RunUpserted(t, r, status)>> : r \in Run, status \in OpenRun \cup ClosedRun}

LEMMA FinishEventsTell ==
    ASSUME NEW t \in Task, NEW row \in RowType,
           NEW runs \in RunsTold(t)
    PROVE  /\ Telling(FinishEvents(t, runs, row), t, row)
           /\ TaskUpserted(t, row) \in Events(FinishEvents(t, runs, row))
<1> DEFINE upserted == <<TaskUpserted(t, row)>>
           cleared == IF plan.task = t THEN <<PlanCleared(t)>> ELSE <<>>
<1>1. /\ runs \in Seq(Event) /\ Len(runs) <= 1
      /\ \A e \in Events(runs) : e.type = "run"
  <2>1. CASE runs = <<>>
    BY <2>1, EventsOfNone, EmptySeq
  <2>2. CASE \E r \in Run, status \in OpenRun \cup ClosedRun : runs = <<RunUpserted(t, r, status)>>
    <3>1. PICK r \in Run, status \in OpenRun \cup ClosedRun : runs = <<RunUpserted(t, r, status)>>
      BY <2>2
    <3>2. RunUpserted(t, r, status) \in Event
      BY EventsAreEvents
    <3>3. RunUpserted(t, r, status).type = "run"
      BY DEF RunUpserted
    <3>. QED
      BY <3>1, <3>2, <3>3, OneEvent
  <2>. QED
    BY <2>1, <2>2 DEF RunsTold
<1>2. /\ upserted \in Seq(Event) /\ Len(upserted) <= 1 /\ Events(upserted) = {TaskUpserted(t, row)}
  BY EventsAreEvents, OneEvent
<1>3. /\ cleared \in Seq(Event) /\ Len(cleared) <= 1
      /\ \A e \in Events(cleared) : e.type = "cleared"
  <2>1. /\ <<PlanCleared(t)>> \in Seq(Event) /\ Len(<<PlanCleared(t)>>) = 1
        /\ Events(<<PlanCleared(t)>>) = {PlanCleared(t)} /\ PlanCleared(t).type = "cleared"
    BY EventsAreEvents, OneEvent DEF PlanCleared
  <2>2. <<>> \in Seq(Event) /\ Len(<<>>) = 0 /\ Events(<<>>) = {}
    BY EventsOfNone, EmptySeq
  <2>. QED
    BY <2>1, <2>2
<1>4. FinishEvents(t, runs, row) = (runs \o upserted) \o cleared
  BY DEF FinishEvents
<1>5. /\ TaskUpserted(t, row).type = "task" /\ TaskUpserted(t, row).task = t
      /\ TaskUpserted(t, row).row = row
  BY DEF TaskUpserted
<1> HIDE DEF upserted, cleared
<1> DEFINE all == runs \o upserted \o cleared
<1>6. FinishEvents(t, runs, row) = all
  BY <1>4
<1>7. /\ all \in Seq(Event) /\ Len(all) <= 3
      /\ Events(all) = Events(runs) \cup Events(upserted) \cup Events(cleared)
  <2>1. runs \in Seq(Event) /\ upserted \in Seq(Event) /\ cleared \in Seq(Event)
    BY <1>1, <1>2, <1>3
  <2>2. Len(runs) <= 1 /\ Len(upserted) <= 1 /\ Len(cleared) <= 1
    BY <1>1, <1>2, <1>3
  <2>. QED
    BY <2>1, <2>2, EventsOfThree
<1> HIDE DEF all
<1>. QED
  BY <1>1, <1>2, <1>3, <1>5, <1>6, <1>7 DEF Telling

-----------------------------------------------------------------------------
(* The commands of the store. *)

(* A command moves one task, or none, and tells of it. *)
LEMMA CommandStep ==
    ASSUME EventsInv, NEW t \in Task, NEW a \in Actor, NEW s, Announces(a, s), Quiet,
           StoreTypes', RowsInOrder',
           \A u \in Task \ {t} : task'[u] = task[u],
           Telling(s, t, task'[t]),
           task'[t].status # "none" \/ task'[t] = task[t],
           \/ task'[t] = task[t]
           \/ /\ task[t] = NoTask \/ task'[t].version > task[t].version
              /\ TaskUpserted(t, task'[t]) \in Events(s)
    PROVE  EventsInv'
<1> USE DEF EventsInv, Types
<1>1. /\ OutboxTypes' /\ Pending(a)' = Events(s) /\ Pending(a) = {}
      /\ \A b \in Actor \ {a} : Pending(b)' = Pending(b)
  BY EventsOfNone DEF OutboxTypes, Announces, Idle, Pending, Telling
<1>2. Types'
  BY <1>1 DEF Quiet, ClientTypes
<1>3. /\ client' = client /\ shown' = shown
      /\ \A u \in Task : shown.task[u] \in RowType /\ client.view.task[u] \in RowType
      /\ \A u \in Task : task[u] \in RowType /\ task'[u] \in RowType
  BY DEF Quiet, ClientTypes, ViewType, StoreTypes
<1>4. ASSUME NEW u \in Task, NEW row \in RowType, Known(row, u)
      PROVE  Known(row, u)'
  BY <1>3, <1>4 DEF Known, RowType
<1>5. \A b \in Actor : \A e \in Pending(b) : e.type = "task" => e.row \in RowType
  <2>1. ASSUME NEW b \in Actor, NEW e \in Pending(b) PROVE e \in Event
    BY ElementOfSeq DEF Pending, Events, OutboxTypes
  <2>. QED
    BY <2>1 DEF Event, TaskEvent, RunEvent, PlanEvent
<1>6. Committed'
  <2>1. ASSUME NEW u \in Task, NEW b \in Actor, NEW e \in Pending(b)', e.type = "task", e.task = u
        PROVE  Known(e.row, u)'
    <3>1. CASE b = a
      <4>1. u = t /\ e.row = task'[t]
        BY <1>1, <2>1, <3>1 DEF Telling
      <4>2. task'[t].status = "none" => task'[t] = NoTask
        BY <1>3 DEF RowsInOrder, RowInOrder, RowType
      <4>. QED
        BY <1>3, <4>1, <4>2 DEF Known, RowType
    <3>2. CASE b # a
      BY <1>1, <1>4, <1>5, <2>1, <3>2 DEF Committed
    <3>. QED
      BY <3>1, <3>2
  <2>. QED
    BY <1>3, <1>4, <2>1 DEF Committed
<1>7. Current'
  <2>1. ASSUME NEW u \in Task, ToBeTold(u), task'[u] = task[u] PROVE ToBeTold(u)'
    BY <1>1, <2>1 DEF ToBeTold
  <2>2. task'[t] = task[t] \/ ToBeTold(t)'
    BY <1>1 DEF ToBeTold
  <2>. QED
    BY <1>3, <2>1, <2>2 DEF Current
<1>. QED
  BY <1>2, <1>6, <1>7

LEMMA NewRow ==
    ASSUME StoreTypes, NEW t \in Task, NEW row \in RowType,
           task' = [task EXCEPT ![t] = row]
    PROVE  /\ task' \in [Task -> RowType] /\ task'[t] = row
           /\ \A u \in Task \ {t} : task'[u] = task[u]
  BY DEF StoreTypes

LEMMA CreateTaskStep ==
    ASSUME EventsInv, NEW t \in Task, CreateTask(t)
    PROVE  EventsInv'
<1> USE DEF EventsInv, Types
<1> DEFINE row == Row("created", 0)
<1>1. row \in RowType /\ row.status = "created" /\ row.version = 0
  BY DEF RowType
<1>2. task' \in [Task -> RowType] /\ task'[t] = row /\ \A u \in Task \ {t} : task'[u] = task[u]
  BY <1>1, NewRow DEF CreateTask
<1>3. StoreTypes' /\ RowsInOrder'
  BY <1>1, <1>2 DEF CreateTask, StoreTypes, RowsInOrder, RowInOrder
<1>4. Telling(<<TaskUpserted(t, row)>>, t, row) /\ TaskUpserted(t, row) \in Events(<<TaskUpserted(t, row)>>)
  <2>1. TaskUpserted(t, row) \in Event
    BY <1>1, EventsAreEvents
  <2>. QED
    BY <2>1, OneEvent DEF Telling, TaskUpserted
<1>5. <<t, "create">> \in Actor /\ Announces(<<t, "create">>, <<TaskUpserted(t, row)>>) /\ Quiet
  BY DEF CreateTask, CreateEvents, Actor
<1>6. task[t] = NoTask
  BY DEF CreateTask
<1> HIDE DEF row
<1>. QED
  BY <1>1, <1>2, <1>3, <1>4, <1>5, <1>6, CommandStep

(* The run and the task are told of, in either order. *)
LEMMA TellRunAndTask ==
    ASSUME NEW t \in Task, NEW row \in RowType, NEW r \in Run, NEW status \in OpenRun
    PROVE  \A s \in {<<TaskUpserted(t, row), RunUpserted(t, r, status)>>,
                     <<RunUpserted(t, r, status), TaskUpserted(t, row)>>} :
                Telling(s, t, row) /\ TaskUpserted(t, row) \in Events(s)
<1>1. TaskUpserted(t, row) \in Event /\ RunUpserted(t, r, status) \in Event
  BY EventsAreEvents
<1>2. RunUpserted(t, r, status).type = "run"
  BY DEF RunUpserted
<1>3. TaskUpserted(t, row).task = t /\ TaskUpserted(t, row).row = row
  BY DEF TaskUpserted
<1>4. ASSUME NEW d \in Event, NEW e \in Event, {d, e} = {TaskUpserted(t, row), RunUpserted(t, r, status)}
      PROVE  Telling(<<d, e>>, t, row) /\ TaskUpserted(t, row) \in Events(<<d, e>>)
  <2>1. /\ <<d, e>> \in Seq(Event) /\ Len(<<d, e>>) = 2
        /\ Events(<<d, e>>) = {TaskUpserted(t, row), RunUpserted(t, r, status)}
    BY <1>4, TwoEvents
  <2>. QED
    BY <1>2, <1>3, <2>1 DEF Telling
<1>. QED
  BY <1>1, <1>4

LEMMA NextRowType ==
    ASSUME StoreTypes, NEW t \in Task, NEW status \in Active \cup Over, task[t].version <= 3
    PROVE  /\ NextRow(t, status) \in RowType /\ NextRow(t, status).status = status
           /\ NextRow(t, status).version = task[t].version + 1
           /\ NextRow(t, status).version > task[t].version
  BY DEF NextRow, StoreTypes, RowType

LEMMA StartTaskRunStep ==
    ASSUME EventsInv, NEW t \in Task, StartTaskRun(t)
    PROVE  EventsInv'
<1> USE DEF EventsInv, Types
<1> DEFINE row == NextRow(t, "running")
<1>1. task[t].status = "created" /\ task[t].version = 0
  BY DEF StartTaskRun, RowsInOrder, RowInOrder
<1>2. row \in RowType /\ row.status = "running" /\ row.version = 1 /\ row.version > task[t].version
  BY <1>1, NextRowType
<1>3. task' = [task EXCEPT ![t] = row]
  BY DEF StartTaskRun
<1>4. task' \in [Task -> RowType] /\ task'[t] = row /\ \A u \in Task \ {t} : task'[u] = task[u]
  BY <1>2, <1>3, NewRow
<1>5. Announces(<<t, "create">>, <<TaskUpserted(t, task'[t]), RunUpserted(t, 1, "running")>>)
  BY DEF StartTaskRun
<1>6. /\ run' \in [Task -> RunsType] /\ \A u \in Task \ {t} : run'[u] = run[u]
      /\ UNCHANGED plan
  BY DEF StartTaskRun, StoreTypes, RunsType
<1>7. StoreTypes' /\ RowsInOrder'
  <2>1. StoreTypes'
    BY <1>4, <1>6 DEF StoreTypes
  <2>2. \A u \in Task \ {t} : task'[u] = task[u] /\ run'[u][1] = run[u][1]
    BY <1>4, <1>6
  <2>3. task'[t].status = "running" /\ task'[t].version = 1
    BY <1>2, <1>4
  <2>4. RowsInOrder'
    <3>1. ASSUME NEW u \in Task, u # t PROVE RowInOrder(u)'
      BY <2>2, <3>1 DEF RowsInOrder, RowInOrder
    <3>2. RowInOrder(t)'
      BY <2>3 DEF RowInOrder
    <3>. QED
      BY <3>1, <3>2 DEF RowsInOrder
  <2>. QED
    BY <2>1, <2>4
<1>8. <<t, "create">> \in Actor /\ Quiet
  BY DEF StartTaskRun, Actor
<1> HIDE DEF row
<1>9. \A s \in {<<TaskUpserted(t, row), RunUpserted(t, 1, "running")>>} :
          Telling(s, t, row) /\ TaskUpserted(t, row) \in Events(s)
  BY <1>2, TellRunAndTask
<1>. QED
  BY <1>2, <1>4, <1>5, <1>7, <1>8, <1>9, CommandStep

LEMMA WaitForUserInputStep ==
    ASSUME EventsInv, NEW t \in Task, WaitForUserInput(t)
    PROVE  EventsInv'
<1> USE DEF EventsInv, Types
<1> DEFINE row == NextRow(t, "waiting")
<1>1. task[t].status = "running" /\ run[t][1] = "running" /\ task[t].version = 1
  BY DEF WaitForUserInput, Executes, RowsInOrder, RowInOrder
<1>2. row \in RowType /\ row.status = "waiting" /\ row.version = 2 /\ row.version > task[t].version
  BY <1>1, NextRowType
<1>3. task' = [task EXCEPT ![t] = row]
  BY DEF WaitForUserInput
<1>4. task' \in [Task -> RowType] /\ task'[t] = row /\ \A u \in Task \ {t} : task'[u] = task[u]
  BY <1>2, <1>3, NewRow
<1>5. Announces(<<t, "execute">>, <<RunUpserted(t, 1, "paused"), TaskUpserted(t, task'[t])>>)
  BY DEF WaitForUserInput
<1>6. /\ run' \in [Task -> RunsType] /\ \A u \in Task \ {t} : run'[u] = run[u]
      /\ run'[t][1] = "paused" /\ UNCHANGED plan
  BY DEF WaitForUserInput, StoreTypes, RunsType
<1>7. StoreTypes' /\ RowsInOrder'
  BY <1>2, <1>4, <1>6 DEF StoreTypes, RowsInOrder, RowInOrder
<1>8. <<t, "execute">> \in Actor /\ Quiet
  BY DEF WaitForUserInput, Actor
<1> HIDE DEF row
<1>9. \A s \in {<<RunUpserted(t, 1, "paused"), TaskUpserted(t, row)>>} :
          Telling(s, t, row) /\ TaskUpserted(t, row) \in Events(s)
  BY <1>2, TellRunAndTask
<1>. QED
  BY <1>2, <1>4, <1>5, <1>7, <1>8, <1>9, CommandStep

LEMMA AnswerUserInputStep ==
    ASSUME EventsInv, NEW t \in Task, AnswerUserInput(t)
    PROVE  EventsInv'
<1> USE DEF EventsInv, Types
<1> DEFINE row == NextRow(t, "running")
<1>1. task[t].status = "waiting" /\ run[t][1] = "paused" /\ task[t].version = 2
  BY DEF AnswerUserInput, RowsInOrder, RowInOrder
<1>2. row \in RowType /\ row.status = "running" /\ row.version = 3 /\ row.version > task[t].version
  BY <1>1, NextRowType
<1>3. task' = [task EXCEPT ![t] = row]
  BY DEF AnswerUserInput
<1>4. task' \in [Task -> RowType] /\ task'[t] = row /\ \A u \in Task \ {t} : task'[u] = task[u]
  BY <1>2, <1>3, NewRow
<1>5. Announces(<<t, "answer">>, <<TaskUpserted(t, task'[t]), RunUpserted(t, 2, "running")>>)
  BY DEF AnswerUserInput
<1>6. /\ run' \in [Task -> RunsType] /\ \A u \in Task \ {t} : run'[u] = run[u]
      /\ run'[t][1] = run[t][1] /\ UNCHANGED plan
  BY DEF AnswerUserInput, StoreTypes, RunsType
<1>7. StoreTypes' /\ RowsInOrder'
  BY <1>1, <1>2, <1>4, <1>6 DEF StoreTypes, RowsInOrder, RowInOrder
<1>8. <<t, "answer">> \in Actor /\ Quiet
  BY DEF AnswerUserInput, Actor
<1> HIDE DEF row
<1>9. \A s \in {<<TaskUpserted(t, row), RunUpserted(t, 2, "running")>>} :
          Telling(s, t, row) /\ TaskUpserted(t, row) \in Events(s)
  BY <1>2, TellRunAndTask
<1>. QED
  BY <1>2, <1>4, <1>5, <1>7, <1>8, <1>9, CommandStep

LEMMA RepeatRequestStep ==
    ASSUME EventsInv, NEW t \in Task, RepeatRequest(t)
    PROVE  EventsInv'
<1> USE DEF EventsInv, Types
<1>1. UNCHANGED store /\ Quiet /\ Announces(<<t, "repeat">>, <<TaskUpserted(t, task[t])>>)
  BY DEF RepeatRequest
<1>2. StoreTypes' /\ RowsInOrder' /\ <<t, "repeat">> \in Actor
  BY <1>1 DEF StoreTypes, RowsInOrder, RowInOrder, Actor
<1>3. Telling(<<TaskUpserted(t, task[t])>>, t, task[t])
  <2>1. TaskUpserted(t, task[t]) \in Event
    BY EventsAreEvents DEF StoreTypes
  <2>. QED
    BY <2>1, OneEvent DEF Telling, TaskUpserted
<1>. QED
  BY <1>1, <1>2, <1>3, CommandStep

LEMMA UpdatePlanStep ==
    ASSUME EventsInv, NEW t \in Task, UpdatePlan(t)
    PROVE  EventsInv'
<1> USE DEF EventsInv, Types
<1>1. /\ UNCHANGED <<task, run>> /\ Quiet
      /\ Announces(<<t, "execute">>, <<PlanUpdated(plan')>>)
  BY DEF UpdatePlan
<1>2. plan' \in PlanType
  BY BoundsAssumption DEF UpdatePlan, StoreTypes, PlanType
<1>3. StoreTypes' /\ RowsInOrder' /\ <<t, "execute">> \in Actor
  BY <1>1, <1>2 DEF StoreTypes, RowsInOrder, RowInOrder, Actor
<1>4. Telling(<<PlanUpdated(plan')>>, t, task[t])
  <2>1. PlanUpdated(plan') \in Event /\ PlanUpdated(plan').type = "plan"
    BY <1>2, EventsAreEvents DEF PlanUpdated
  <2>. QED
    BY <2>1, OneEvent DEF Telling
<1>. QED
  BY <1>1, <1>3, <1>4, CommandStep

(* The end of a task: its run, its row and its plan. *)
LEMMA EndingStep ==
    ASSUME EventsInv, NEW t \in Task, NEW a \in Actor, NEW status \in Over,
           task[t].status \in Active, Ends(t, status), Quiet,
           run' \in [Task -> RunsType], \A u \in Task \ {t} : run'[u] = run[u],
           NEW runs \in RunsTold(t),
           Announces(a, FinishEvents(t, runs, task'[t]))
    PROVE  EventsInv'
<1> USE DEF EventsInv, Types
<1> DEFINE row == NextRow(t, status)
<1>1. task[t].version <= 3
  BY DEF RowsInOrder, RowInOrder, StoreTypes, RowType
<1>2. row \in RowType /\ row.status = status /\ row.version > task[t].version
  BY <1>1, NextRowType
<1>3. task' = [task EXCEPT ![t] = row]
  BY DEF Ends
<1> HIDE DEF row
<1>4. task' \in [Task -> RowType] /\ task'[t] = row /\ \A u \in Task \ {t} : task'[u] = task[u]
  BY <1>2, <1>3, NewRow
<1>5. plan' \in PlanType
  BY BoundsAssumption DEF Ends, NoPlan, PlanType, StoreTypes
<1>6. StoreTypes' /\ RowsInOrder'
  <2>1. StoreTypes'
    BY <1>4, <1>5 DEF StoreTypes
  <2>2. \A u \in Task \ {t} : task'[u] = task[u] /\ run'[u][1] = run[u][1]
    BY <1>4
  <2>3. task'[t].status \in Over
    BY <1>2, <1>4
  <2>. QED
    BY <2>1, <2>2, <2>3 DEF RowsInOrder, RowInOrder
<1>7. /\ Telling(FinishEvents(t, runs, row), t, row)
      /\ TaskUpserted(t, row) \in Events(FinishEvents(t, runs, row))
  BY <1>2, FinishEventsTell
<1>8. row.status # "none"
  BY <1>2
<1>. QED
  BY <1>2, <1>4, <1>6, <1>7, <1>8, CommandStep

LEMMA CompleteTaskStep ==
    ASSUME EventsInv, NEW t \in Task, CompleteTask(t)
    PROVE  EventsInv'
<1> USE DEF EventsInv, Types
<1>1. PICK r \in Run :
        /\ Executes(t, r)
        /\ run' = [run EXCEPT ![t][r] = "completed"]
        /\ Ends(t, "completed")
        /\ Announces(<<t, "execute">>,
                     FinishEvents(t, <<RunUpserted(t, r, "completed")>>, task'[t]))
        /\ Quiet
  BY DEF CompleteTask
<1>2. run' \in [Task -> RunsType] /\ \A u \in Task \ {t} : run'[u] = run[u]
  BY <1>1 DEF StoreTypes, RunsType
<1>3. <<t, "execute">> \in Actor /\ task[t].status \in Active
  BY <1>1 DEF Actor, Executes
<1>4. <<RunUpserted(t, r, "completed")>> \in RunsTold(t) /\ "completed" \in Over
  BY DEF RunsTold
<1>. QED
  BY <1>1, <1>2, <1>3, <1>4, EndingStep

LEMMA CancelTaskStep ==
    ASSUME EventsInv, NEW t \in Task, CancelTask(t)
    PROVE  EventsInv'
<1> USE DEF EventsInv, Types
<1> DEFINE open == {r \in Run : run[t][r] \in OpenRun}
<1>1. /\ task[t].status \in Active /\ Ends(t, "cancelled") /\ Quiet
      /\ run' = [run EXCEPT ![t] = [r \in Run |-> IF r \in open THEN "cancelled" ELSE @[r]]]
  BY DEF CancelTask
<1>2. run' \in [Task -> RunsType] /\ \A u \in Task \ {t} : run'[u] = run[u]
  BY <1>1 DEF StoreTypes, RunsType
<1>3. PICK runs \in RunsTold(t) : Announces(<<t, "cancel">>, FinishEvents(t, runs, task'[t]))
  <2>1. PICK runs \in IF open = {} THEN {<<>>} ELSE {<<RunUpserted(t, r, "cancelled")>> : r \in open} :
           Announces(<<t, "cancel">>, FinishEvents(t, runs, task'[t]))
    BY DEF CancelTask
  <2>2. runs \in RunsTold(t)
    <3>1. CASE open = {}
      BY <2>1, <3>1 DEF RunsTold
    <3>2. CASE open # {}
      <4>1. PICK r \in open : runs = <<RunUpserted(t, r, "cancelled")>>
        BY <2>1, <3>2
      <4>2. r \in Run /\ "cancelled" \in OpenRun \cup ClosedRun
        OBVIOUS
      <4>. QED
        BY <4>1, <4>2 DEF RunsTold
    <3>. QED
      BY <3>1, <3>2
  <2>. QED
    BY <2>1, <2>2
<1>4. <<t, "cancel">> \in Actor /\ "cancelled" \in Over
  BY DEF Actor
<1>. QED
  BY <1>1, <1>2, <1>3, <1>4, EndingStep

-----------------------------------------------------------------------------
(* The stream and the client. *)

LEMMA NewerRow ==
    ASSUME NEW a \in RowType, NEW b \in RowType
    PROVE  Newer(a, b) \in {a, b}
  BY DEF Newer

(* Of two known rows, the newer is the row of the task if one of them is. *)
LEMMA NewerIsCurrent ==
    ASSUME NEW t \in Task, task[t] \in RowType, NEW a \in RowType, NEW b \in RowType,
           Known(a, t), Known(b, t), a = task[t] \/ b = task[t]
    PROVE  Newer(a, b) = task[t]
  BY DEF Newer, Known, RowType

LEMMA PendingEvents ==
    ASSUME OutboxTypes, NEW a \in Actor, NEW e \in Pending(a)
    PROVE  e \in Event
  BY ElementOfSeq DEF Pending, Events, OutboxTypes

LEMMA ShowTypes ==
    ASSUME ClientTypes, NEW e \in Event, Show(e)
    PROVE  shown' \in ViewType
<1>1. /\ shown.plan \in PlanType
      /\ \A t \in Task : ClearPlan(t) \in PlanType
  BY BoundsAssumption DEF ClientTypes, ViewType, ClearPlan, NoPlan, PlanType
<1>2. CASE e \in TaskEvent
  <2>1. /\ e.type = "task" /\ e.task \in Task /\ e.row \in RowType
    BY <1>2 DEF TaskEvent
  <2>2. Newer(e.row, shown.task[e.task]) \in RowType
    BY <2>1, NewerRow DEF ClientTypes, ViewType
  <2>3. shown' = [shown EXCEPT !.task[e.task] = Newer(e.row, @),
                               !.plan = IF e.row.status \in Over THEN ClearPlan(e.task) ELSE @]
    BY <2>1 DEF Show
  <2>. QED
    BY <1>1, <2>1, <2>2, <2>3 DEF ClientTypes, ViewType
<1>3. CASE e \in RunEvent
  <2>1. /\ e.type = "run" /\ e.task \in Task /\ e.run \in Run /\ e.status \in OpenRun \cup ClosedRun
    BY <1>3 DEF RunEvent
  <2>2. shown' = [shown EXCEPT !.run[e.task][e.run] = e.status]
    BY <2>1 DEF Show
  <2>. QED
    BY <2>1, <2>2 DEF ClientTypes, ViewType, RunsType
<1>4. CASE e \in [type : {"plan"}, plan : PlanType]
  <2>1. e.type = "plan" /\ ShowPlan(e.plan) \in PlanType
    BY <1>1, <1>4 DEF ShowPlan
  <2>2. shown' = [shown EXCEPT !.plan = ShowPlan(e.plan)]
    BY <2>1 DEF Show
  <2>. QED
    BY <2>1, <2>2 DEF ClientTypes, ViewType
<1>5. CASE e \in [type : {"cleared"}, task : Task]
  <2>1. e.type = "cleared" /\ ClearPlan(e.task) \in PlanType
    BY <1>1, <1>5
  <2>2. shown' = [shown EXCEPT !.plan = ClearPlan(e.task)]
    BY <2>1 DEF Show
  <2>. QED
    BY <2>1, <2>2 DEF ClientTypes, ViewType
<1>. QED
  BY <1>2, <1>3, <1>4, <1>5 DEF Event, PlanEvent

(* An event changes what is shown of its task only, and never to an older row. *)
LEMMA ShowTask ==
    ASSUME ClientTypes, NEW e \in Event, Show(e), NEW t \in Task
    PROVE  /\ e.type = "task" /\ e.task = t => shown'.task[t] = Newer(e.row, shown.task[t])
           /\ ~(e.type = "task" /\ e.task = t) => shown'.task[t] = shown.task[t]
<1>1. CASE e \in TaskEvent
  <2>1. /\ e.type = "task" /\ e.task \in Task
    BY <1>1 DEF TaskEvent
  <2>2. shown' = [shown EXCEPT !.task[e.task] = Newer(e.row, @),
                               !.plan = IF e.row.status \in Over THEN ClearPlan(e.task) ELSE @]
    BY <2>1 DEF Show
  <2>3. shown'.task = [shown.task EXCEPT ![e.task] = Newer(e.row, @)]
    BY <2>2 DEF ClientTypes, ViewType
  <2>. QED
    BY <2>1, <2>3 DEF ClientTypes, ViewType
<1>2. CASE e \notin TaskEvent
  <2>1. e.type \in {"run", "plan", "cleared"}
    BY <1>2 DEF Event, RunEvent, PlanEvent
  <2>2. shown'.task = shown.task
    BY <2>1 DEF Show, ClientTypes, ViewType
  <2>. QED
    BY <2>1, <2>2
<1>. QED
  BY <1>1, <1>2

LEMMA PublishStep ==
    ASSUME EventsInv, NEW a \in Actor, Publish(a)
    PROVE  EventsInv'
<1> USE DEF EventsInv, Types
<1> DEFINE e == Head(outbox[a])
<1>1. /\ outbox[a] \in Seq(Event) /\ outbox[a] # <<>>
      /\ UNCHANGED <<task, run, plan, client>> /\ outbox' = [outbox EXCEPT ![a] = Tail(@)]
      /\ announced' = announced \cup EndsTold(e)
      /\ IF client.stage = "away" THEN UNCHANGED shown ELSE Show(e)
  BY DEF Publish, Idle, OutboxTypes
<1>2. /\ e \in Event /\ Tail(outbox[a]) \in Seq(Event)
      /\ Len(Tail(outbox[a])) = Len(outbox[a]) - 1
      /\ Pending(a) = {e} \cup Events(Tail(outbox[a]))
  BY <1>1, EventsOfTail DEF Pending
<1> HIDE DEF e
<1>3. OutboxTypes'
  <2>1. Len(outbox[a]) <= 3 /\ Len(outbox[a]) \in Nat
    BY <1>1, LenProperties DEF OutboxTypes
  <2>2. Len(Tail(outbox[a])) <= 3
    BY <1>2, <2>1
  <2>. QED
    BY <1>1, <1>2, <2>2 DEF OutboxTypes
<1>4. /\ Pending(a)' = Events(Tail(outbox[a])) /\ \A b \in Actor \ {a} : Pending(b)' = Pending(b)
  BY <1>1 DEF Pending, OutboxTypes
<1>5. \A b \in Actor : Pending(b)' \subseteq Pending(b) /\ Pending(b) \subseteq Pending(b)' \cup {e}
  BY <1>2, <1>4
<1>6. Types'
  <2>1. shown' \in ViewType
    BY <1>1, <1>2, ShowTypes DEF ClientTypes
  <2>2. EndsTold(e) \subseteq Task \X Run
    BY <1>2 DEF EndsTold, Event, TaskEvent, RunEvent, PlanEvent
  <2>3. StoreTypes' /\ ClientTypes'
    BY <1>1, <2>1 DEF StoreTypes, ClientTypes
  <2>. QED
    BY <1>1, <1>3, <2>2, <2>3
<1>7. RowsInOrder'
  BY <1>1 DEF RowsInOrder, RowInOrder
<1>8. \A t \in Task : \A row \in RowType : Known(row, t)' <=> Known(row, t)
  BY <1>1 DEF Known
<1>9. ASSUME NEW t \in Task
      PROVE  /\ shown.task[t] \in RowType /\ client.view.task[t] \in RowType
             /\ task[t] \in RowType /\ shown'.task[t] \in RowType
  BY <1>6 DEF ClientTypes, ViewType, StoreTypes
<1>10. ASSUME NEW t \in Task, e.type = "task", e.task = t
       PROVE  e.row \in RowType /\ Known(e.row, t)
  BY <1>2, <1>10 DEF Event, TaskEvent, RunEvent, PlanEvent, Committed
<1>11. ASSUME NEW t \in Task
       PROVE  \/ shown'.task[t] = shown.task[t]
              \/ /\ e.type = "task" /\ e.task = t
                 /\ shown'.task[t] = Newer(e.row, shown.task[t])
  BY <1>1, <1>2, ShowTask
<1>12. Committed'
  <2>1. ASSUME NEW t \in Task PROVE Known(shown.task[t], t)'
    <3>1. shown'.task[t] = shown.task[t] \/ (e.type = "task" /\ e.task = t /\ shown'.task[t] = e.row)
      BY <1>9, <1>10, <1>11, NewerRow
    <3>2. Known(shown'.task[t], t)
      BY <1>10, <3>1 DEF Committed
    <3>. QED
      BY <1>1, <3>2 DEF Known
  <2>2. ASSUME NEW t \in Task PROVE Known(client.view.task[t], t)'
    BY <1>1 DEF Known, Committed
  <2>3. ASSUME NEW t \in Task, NEW b \in Actor, NEW d \in Pending(b)', d.type = "task", d.task = t
        PROVE  Known(d.row, t)'
    <3>1. Known(d.row, t)
      BY <1>5, <2>3 DEF Committed
    <3>. QED
      BY <1>1, <3>1 DEF Known
  <2>. QED
    BY <2>1, <2>2, <2>3 DEF Committed
<1>13. Current'
  <2>1. ASSUME NEW t \in Task, shown.task[t] = task[t] PROVE shown'.task[t] = task[t]
    BY <1>9, <1>10, <1>11, <2>1, NewerIsCurrent DEF Committed
  <2>2. ASSUME NEW t \in Task, ToBeTold(t), client.stage # "away"
        PROVE  shown'.task[t] = task[t] \/ ToBeTold(t)'
    <3>1. CASE e = TaskUpserted(t, task[t])
      <4>1. e.type = "task" /\ e.task = t /\ e.row = task[t]
        BY <3>1 DEF TaskUpserted
      <4>2. shown'.task[t] = Newer(e.row, shown.task[t])
        BY <1>1, <1>2, <2>2, <4>1, ShowTask
      <4>. QED
        BY <1>9, <1>10, <4>1, <4>2, NewerIsCurrent DEF Committed
    <3>2. CASE e # TaskUpserted(t, task[t])
      BY <1>1, <1>5, <2>2, <3>2 DEF ToBeTold
    <3>. QED
      BY <3>1, <3>2
  <2>. QED
    BY <1>1, <2>1, <2>2 DEF Current
<1>. QED
  BY <1>6, <1>7, <1>12, <1>13

(* The client away, loading or following: the store and the events stay as they are. *)
LEMMA ClientStep ==
    ASSUME EventsInv, UNCHANGED <<store, outbox, announced>>, ClientTypes',
           \A t \in Task : /\ Known(shown'.task[t], t) /\ Known(client'.view.task[t], t)
                           /\ client'.stage = "loading" => client'.view.task[t] = task[t]
                           /\ client'.stage = "following" => shown'.task[t] = task[t] \/ ToBeTold(t)
    PROVE  EventsInv'
<1> USE DEF EventsInv, Types
<1>1. /\ UNCHANGED <<task, run, plan, outbox>>
      /\ \A a \in Actor : Pending(a)' = Pending(a)
      /\ \A t \in Task : ToBeTold(t)' <=> ToBeTold(t)
  BY DEF Pending, ToBeTold
<1>2. Types' /\ RowsInOrder'
  BY <1>1 DEF StoreTypes, OutboxTypes, RowsInOrder, RowInOrder
<1>3. Committed'
  BY <1>1 DEF Committed, Known
<1>4. Current'
  BY <1>1 DEF Current
<1>. QED
  BY <1>2, <1>3, <1>4

LEMMA NothingType ==
    /\ Nothing \in ViewType /\ Nothing.run \in [Task -> RunsType]
    /\ Nothing.task \in [Task -> RowType] /\ NoPlan \in PlanType
    /\ \A t \in Task : Nothing.task[t] = NoTask
<1>1. NoTask \in RowType /\ NoPlan \in PlanType
  BY BoundsAssumption DEF RowType, NoPlan, PlanType
<1>2. [r \in Run |-> "none"] \in RunsType
  BY DEF RunsType
<1>. QED
  BY <1>1, <1>2 DEF Nothing, ViewType

LEMMA NothingIsKnown ==
    ASSUME NEW t \in Task
    PROVE  Known(Nothing.task[t], t)
  BY NothingType DEF Known

LEMMA SubscribeStep == EventsInv /\ Subscribe => EventsInv'
<1> SUFFICES ASSUME EventsInv, Subscribe PROVE EventsInv'
  OBVIOUS
<1>1. /\ UNCHANGED <<store, outbox, announced>> /\ shown' = Nothing
      /\ client'.stage = "subscribed" /\ client'.view = client.view
      /\ client' = [client EXCEPT !.stage = "subscribed", !.connections = @ + 1]
      /\ client.connections < MaxConnections
  BY DEF Subscribe, EventsInv, Types, ClientTypes
<1>2. client.connections + 1 \in 0..MaxConnections
  BY <1>1, BoundsAssumption DEF EventsInv, Types, ClientTypes
<1>3. ClientTypes'
  BY <1>1, <1>2, NothingType DEF EventsInv, Types, ClientTypes
<1>. QED
  BY <1>1, <1>3, NothingIsKnown, ClientStep DEF EventsInv, Committed

LEMMA LoadViewStep == EventsInv /\ LoadView => EventsInv'
<1> SUFFICES ASSUME EventsInv, LoadView PROVE EventsInv'
  OBVIOUS
<1>1. /\ UNCHANGED <<store, outbox, shown, announced>>
      /\ client' = [client EXCEPT !.stage = "loading", !.view = Store]
      /\ client'.stage = "loading" /\ client'.view = Store
  BY DEF LoadView, EventsInv, Types, ClientTypes
<1>2. Store \in ViewType /\ Store.task = task
  BY DEF Store, ViewType, EventsInv, Types, StoreTypes
<1>3. ClientTypes'
  BY <1>1, <1>2 DEF EventsInv, Types, ClientTypes
<1>4. ASSUME NEW t \in Task PROVE Known(task[t], t)
  <2>1. task[t] \in RowType /\ RowInOrder(t)
    BY DEF EventsInv, Types, StoreTypes, RowsInOrder
  <2>2. task[t].status = "none" => task[t] = NoTask
    BY <2>1 DEF RowType, RowInOrder
  <2>. QED
    BY <2>1, <2>2 DEF Known, RowType
<1>. QED
  BY <1>1, <1>2, <1>3, <1>4, ClientStep DEF EventsInv, Committed

LEMMA ShowViewStep == EventsInv /\ ShowView => EventsInv'
<1> SUFFICES ASSUME EventsInv, ShowView PROVE EventsInv'
  OBVIOUS
<1> DEFINE rows == [t \in Task |-> Newer(client.view.task[t], shown.task[t])]
           runs == [t \in Task |-> [r \in Run |->
                        IF shown.run[t][r] = "none" THEN client.view.run[t][r] ELSE shown.run[t][r]]]
           shownPlan == IF shown.plan = NoPlan THEN client.view.plan ELSE shown.plan
<1>1. /\ UNCHANGED <<store, outbox, announced>> /\ client.stage = "loading"
      /\ client' = [client EXCEPT !.stage = "following", !.view = Nothing]
      /\ client'.stage = "following" /\ client'.view = Nothing
      /\ shown' = [task |-> rows, run |-> runs, plan |-> shownPlan]
  BY DEF ShowView, EventsInv, Types, ClientTypes
<1>2. \A t \in Task : /\ shown.task[t] \in RowType /\ client.view.task[t] \in RowType
                      /\ task[t] \in RowType
                      /\ shown.run[t] \in RunsType /\ client.view.run[t] \in RunsType
  BY DEF EventsInv, Types, ClientTypes, StoreTypes, ViewType
<1>3. rows \in [Task -> RowType] /\ runs \in [Task -> RunsType] /\ shownPlan \in PlanType
  <2>1. rows \in [Task -> RowType]
    BY <1>2, NewerRow
  <2>2. \A t \in Task : runs[t] \in RunsType
    BY <1>2 DEF RunsType
  <2>3. shownPlan \in PlanType
    BY DEF EventsInv, Types, ClientTypes, ViewType
  <2>. QED
    BY <2>1, <2>2, <2>3
<1>4. \A t \in Task : rows[t] = Newer(client.view.task[t], shown.task[t])
  OBVIOUS
<1> HIDE DEF rows, runs, shownPlan
<1>5. ClientTypes' /\ shown'.task = rows
  BY <1>1, <1>3, NothingType DEF EventsInv, Types, ClientTypes, ViewType
<1>6. ASSUME NEW t \in Task PROVE Known(rows[t], t) /\ (rows[t] = task[t] \/ ToBeTold(t))
  <2>1. Known(client.view.task[t], t) /\ Known(shown.task[t], t)
    BY DEF EventsInv, Committed
  <2>2. Known(rows[t], t)
    BY <1>2, <1>4, <2>1, NewerRow
  <2>3. client.view.task[t] = task[t] \/ shown.task[t] = task[t] \/ ToBeTold(t)
    BY <1>1 DEF EventsInv, Current
  <2>. QED
    BY <1>2, <1>4, <2>1, <2>2, <2>3, NewerIsCurrent
<1>. QED
  BY <1>1, <1>5, <1>6, NothingIsKnown, ClientStep

LEMMA DisconnectStep == EventsInv /\ Disconnect => EventsInv'
<1> SUFFICES ASSUME EventsInv, Disconnect PROVE EventsInv'
  OBVIOUS
<1>1. /\ UNCHANGED <<store, outbox, announced>> /\ shown' = Nothing
      /\ client' = [client EXCEPT !.stage = "away", !.view = Nothing]
      /\ client'.stage = "away" /\ client'.view = Nothing
  BY DEF Disconnect, EventsInv, Types, ClientTypes
<1>2. ClientTypes'
  BY <1>1, NothingType DEF EventsInv, Types, ClientTypes
<1>. QED
  BY <1>1, <1>2, NothingIsKnown, ClientStep

-----------------------------------------------------------------------------
(* Theorems *)

LEMMA EventsInvInit == Init => EventsInv
<1> SUFFICES ASSUME Init PROVE EventsInv
  OBVIOUS
<1>1. /\ task = Nothing.task /\ run = Nothing.run /\ plan = NoPlan
      /\ client = [stage |-> "away", view |-> Nothing, connections |-> 0]
      /\ shown = Nothing /\ announced = {}
      /\ \A a \in Actor : outbox[a] = <<>> /\ outbox \in [Actor -> Seq(Event)]
  BY EmptySeq DEF Init
<1>2. StoreTypes /\ RowsInOrder
  BY <1>1, NothingType DEF StoreTypes, RowsInOrder, RowInOrder
<1>3. OutboxTypes
  <2>1. outbox \in [Actor -> Seq(Event)] /\ Len(<<>>) = 0
    BY EmptySeq DEF Init
  <2>. QED
    BY <1>1, <2>1 DEF OutboxTypes
<1>4. ClientTypes
  BY <1>1, NothingType, BoundsAssumption DEF ClientTypes
<1>5. \A a \in Actor : Pending(a) = {}
  BY <1>1, EventsOfNone DEF Pending
<1>6. Committed
  BY <1>1, <1>5, NothingIsKnown DEF Committed
<1>7. Current
  BY <1>1 DEF Current
<1>. QED
  BY <1>1, <1>2, <1>3, <1>4, <1>6, <1>7 DEF EventsInv, Types

LEMMA EventsInvNext == EventsInv /\ [Next]_vars => EventsInv'
<1> SUFFICES ASSUME EventsInv, [Next]_vars PROVE EventsInv'
  OBVIOUS
<1>1. CASE UNCHANGED vars
  <2>1. UNCHANGED <<task, run, plan, outbox, client, shown, announced>>
    BY <1>1
  <2>. QED
    BY <2>1 DEF EventsInv, Types, StoreTypes, OutboxTypes, ClientTypes, RowsInOrder, RowInOrder,
                Committed, Current, Known, ToBeTold, Pending
<1>2. ASSUME NEW t \in Task,
             \/ CreateTask(t) \/ StartTaskRun(t) \/ RepeatRequest(t)
             \/ UpdatePlan(t) \/ WaitForUserInput(t) \/ AnswerUserInput(t)
             \/ CompleteTask(t) \/ CancelTask(t)
      PROVE  EventsInv'
  BY <1>2, CreateTaskStep, StartTaskRunStep, RepeatRequestStep, UpdatePlanStep,
     WaitForUserInputStep, AnswerUserInputStep, CompleteTaskStep, CancelTaskStep
<1>3. ASSUME NEW a \in Actor, Publish(a) PROVE EventsInv'
  BY <1>3, PublishStep
<1>4. CASE Subscribe \/ LoadView \/ ShowView \/ Disconnect
  BY <1>4, SubscribeStep, LoadViewStep, ShowViewStep, DisconnectStep
<1>. QED
  BY <1>1, <1>2, <1>3, <1>4 DEF Next

LEMMA EventsInvariance == Spec => []EventsInv
  BY EventsInvInit, EventsInvNext, PTL DEF Spec

(* Every variable keeps its type, and the stream tells the end of runs only. *)
THEOREM TypeCorrect == Spec => []TypeOK
<1>1. EventsInv => TypeOK
  <2> SUFFICES ASSUME EventsInv PROVE TypeOK
    OBVIOUS
  <2>1. Store \in ViewType /\ shown \in ViewType /\ client.view \in ViewType
    BY DEF EventsInv, Types, StoreTypes, ClientTypes, Store, ViewType
  <2>2. ASSUME NEW s \in ViewType
        PROVE  /\ \A t \in Task :
                    /\ s.task[t].status \in {"none"} \cup Active \cup Over
                    /\ s.task[t].version \in 0..4
                    /\ \A r \in Run : s.run[t][r] \in {"none"} \cup OpenRun \cup ClosedRun
               /\ s.plan.task \in Task \cup {None} /\ s.plan.version \in 0..MaxPlanUpdates
    BY DEF ViewType, RowType, RunsType, PlanType
  <2>3. /\ \A a \in Actor : Len(outbox[a]) <= 3
        /\ client.stage \in {"away", "subscribed", "loading", "following"}
        /\ client.connections \in 0..MaxConnections
        /\ announced \subseteq Task \X Run
    BY DEF EventsInv, Types, OutboxTypes, ClientTypes
  <2>. QED
    BY <2>1, <2>2, <2>3 DEF TypeOK
<1>. QED
  BY <1>1, EventsInvariance, PTL

(* In whatever order the events of different flows come, and wherever among *)
(* them the view is read, a client that subscribed before it loaded the     *)
(* view shows every task as the store has it once all events are out.       *)
THEOREM ClientCatchesUp == Spec => []TasksAreShown
<1>1. EventsInv => TasksAreShown
  <2> SUFFICES ASSUME EventsInv, client.stage = "following", AllPublished PROVE shown.task = task
    BY DEF TasksAreShown
  <2>1. \A t \in Task : ~ToBeTold(t)
    BY EventsOfNone DEF ToBeTold, Pending, AllPublished, Idle
  <2>2. \A t \in Task : shown.task[t] = task[t]
    BY <2>1 DEF EventsInv, Current
  <2>. QED
    BY <2>2 DEF EventsInv, Types, StoreTypes, ClientTypes, ViewType
<1>. QED
  BY <1>1, EventsInvariance, PTL

(* No client shows a state of a task that its commands have not committed. *)
THEOREM ClientIsNeverAhead == Spec => []ShownIsCommitted
<1>1. EventsInv => ShownIsCommitted
  <2> SUFFICES ASSUME EventsInv, NEW t \in Task
               PROVE  shown.task[t].version <= task[t].version
    BY DEF ShownIsCommitted
  <2>1. task[t] \in RowType /\ Known(shown.task[t], t)
    BY DEF EventsInv, Types, StoreTypes, Committed
  <2>. QED
    BY <2>1 DEF Known, RowType
<1>. QED
  BY <1>1, EventsInvariance, PTL
==============================================================================
