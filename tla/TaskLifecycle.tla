---------------------------- MODULE TaskLifecycle ----------------------------
(***************************************************************************)
(* What the runtime promises the clients of a session, without tables,     *)
(* clocks, owners or versions.  A session works on one task at a time.  A  *)
(* task is executed by one run at a time, and a run that has let go of its *)
(* task never gets it back.  The run may stop to ask questions; the last   *)
(* answer hands the task to a new run, and no question is asked twice.  A  *)
(* task ends once, and everything in a session ends when the session does. *)
(***************************************************************************)
CONSTANTS Session, Task, Run, Question, None

VARIABLES
    stage,      \* of a session: "new", "open" or "closed"
    home,       \* of a task: its session
    status,     \* of a task
    executor,   \* of a task: the run that executes it, or None
    granted,    \* the runs that were ever made an executor
    asked,      \* of a task: the questions it waits for
    retired     \* the questions that were answered, expired or withdrawn

lifecycleVars == <<stage, home, status, executor, granted, asked, retired>>

Live == {"created", "running", "waiting_for_user"}
Ended == {"completed", "failed", "cancelled"}

TypeOK ==
    /\ stage \in [Session -> {"new", "open", "closed"}]
    /\ home \in [Task -> Session \cup {None}]
    /\ status \in [Task -> {"absent"} \cup Live \cup Ended]
    /\ executor \in [Task -> Run \cup {None}]
    /\ granted \subseteq Run
    /\ asked \in [Task -> SUBSET Question]
    /\ retired \subseteq Question

Init ==
    /\ stage = [s \in Session |-> "new"]
    /\ home = [t \in Task |-> None]
    /\ status = [t \in Task |-> "absent"]
    /\ executor = [t \in Task |-> None]
    /\ granted = {}
    /\ asked = [t \in Task |-> {}]
    /\ retired = {}

(* The questions anybody is still asked. *)
Asked == UNION {asked[t] : t \in Task}

Open(s) ==
    /\ stage[s] = "new"
    /\ stage' = [stage EXCEPT ![s] = "open"]
    /\ UNCHANGED <<home, status, executor, granted, asked, retired>>

Submit(t, s) ==
    /\ stage[s] = "open"
    /\ status[t] = "absent"
    /\ \A u \in Task : home[u] = s => status[u] \notin Live
    /\ home' = [home EXCEPT ![t] = s]
    /\ status' = [status EXCEPT ![t] = "created"]
    /\ UNCHANGED <<stage, executor, granted, asked, retired>>

(* The run r, never used before, takes the task over. *)
Grant(t, r) ==
    /\ r \notin granted
    /\ status' = [status EXCEPT ![t] = "running"]
    /\ executor' = [executor EXCEPT ![t] = r]
    /\ granted' = granted \cup {r}

Begin(t, r) ==
    /\ status[t] = "created"
    /\ Grant(t, r)
    /\ UNCHANGED <<stage, home, asked, retired>>

Ask(t, Q) ==
    /\ status[t] = "running"
    /\ Q # {}
    /\ Q \cap (Asked \cup retired) = {}
    /\ status' = [status EXCEPT ![t] = "waiting_for_user"]
    /\ executor' = [executor EXCEPT ![t] = None]
    /\ asked' = [asked EXCEPT ![t] = Q]
    /\ UNCHANGED <<stage, home, granted, retired>>

Answer(t, q) ==
    /\ status[t] = "waiting_for_user"
    /\ q \in asked[t]
    /\ asked' = [asked EXCEPT ![t] = @ \ {q}]
    /\ retired' = retired \cup {q}
    /\ \/ /\ asked[t] # {q}
          /\ UNCHANGED <<status, executor, granted>>
       \/ /\ asked[t] = {q}
          /\ \E r \in Run : Grant(t, r)
    /\ UNCHANGED <<stage, home>>

(* Tasks end together only when their session does. *)
EndAll(T, outcome) ==
    /\ status' = [t \in Task |-> IF t \in T THEN outcome ELSE status[t]]
    /\ executor' = [t \in Task |-> IF t \in T THEN None ELSE executor[t]]
    /\ asked' = [t \in Task |-> IF t \in T THEN {} ELSE asked[t]]
    /\ retired' = retired \cup UNION {asked[t] : t \in T}
    /\ UNCHANGED <<home, granted>>

(* Only a running task completes; it may fail or be cancelled from any     *)
(* state in which it is live.                                              *)
End(t, outcome) ==
    /\ status[t] \in Live
    /\ outcome = "completed" => status[t] = "running"
    /\ EndAll({t}, outcome)
    /\ UNCHANGED stage

Close(s) ==
    /\ stage[s] = "open"
    /\ stage' = [stage EXCEPT ![s] = "closed"]
    /\ EndAll({t \in Task : home[t] = s /\ status[t] \in Live}, "cancelled")

Next ==
    \/ \E s \in Session : Open(s) \/ Close(s) \/ \E t \in Task : Submit(t, s)
    \/ \E t \in Task :
        \/ \E r \in Run : Begin(t, r)
        \/ \E Q \in SUBSET Question : Ask(t, Q)
        \/ \E q \in Question : Answer(t, q)
        \/ \E outcome \in Ended : End(t, outcome)

Spec == Init /\ [][Next]_lifecycleVars

-----------------------------------------------------------------------------
(* What follows from the promise. *)

(* Two runs never execute tasks of one session at the same time, and none  *)
(* executes anything in a session that is closed.                          *)
OneExecutorPerSession ==
    /\ \A t, u \in Task :
         executor[t] # None /\ executor[u] # None /\ home[t] = home[u] => t = u
    /\ \A t \in Task : executor[t] # None => stage[home[t]] = "open"
==============================================================================
