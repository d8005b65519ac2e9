----------------------------- MODULE ModelCalls -----------------------------
(***************************************************************************)
(* The record of every call of the language model: AuditedChatModel writes *)
(* a row before it asks the provider and settles it afterwards; the scan   *)
(* of a starting process settles the rows of runs that are over or have    *)
(* lost their lease.  Both add to the usage of the session.                *)
(*                                                                         *)
(* The two transactions take the same row locks in different orders, so a  *)
(* step here is a statement: it waits for the lock of its row, and what it *)
(* wrote is seen by the others after the commit (read committed).  The     *)
(* database aborts one of two transactions that wait for each other.       *)
(* Starting a call, and what the commands of a task do to its run, lock    *)
(* one row only and stay single steps.                                     *)
(***************************************************************************)
EXTENDS Naturals, FiniteSets

CONSTANTS
    Session,
    Call,           \* model calls, each with its model_call_id and output id
    SessionOf,
    Streaming,      \* the calls made with stream, the others with invoke
    MaxScans        \* bound: how many processes start

ASSUME SessionOfAssumption == SessionOf \in [Call -> Session]
ASSUME StreamingAssumption == Streaming \subseteq Call
ASSUME BoundAssumption == MaxScans \in Nat

VARIABLES
    active,         \* is the session active, or archived
    run,            \* the run of each call
    status,         \* agent_model_calls.status
    disposition,    \* agent_model_calls.output_disposition
    counted,        \* agent_model_usage_stats.total_model_calls
    model,          \* what AuditedChatModel does with each call
    tx,             \* the lock its transaction waits for
    scan,           \* the transaction of abandonStartedModelCalls
    scans           \* counter for the bound

store == <<active, run, status, disposition, counted>>
vars == <<store, model, tx, scan, scans>>

Settled == {"completed", "failed", "cancelled"}
Calls(s) == {c \in Call : SessionOf[c] = s}

(* outcome: what is being written; attempt: where AuditedChatModel writes. *)
NoModel == [stage |-> "idle", outcome |-> "completed", attempt |-> "try"]
NoScan == [stage |-> "down", orphans |-> {}, todo |-> {}, taken |-> {},
           counted |-> {}, touched |-> {}]

Init ==
    /\ active = [s \in Session |-> TRUE]
    /\ run = [c \in Call |-> "owned"]
    /\ status = [c \in Call |-> "none"]
    /\ disposition = [c \in Call |-> "none"]
    /\ counted = [s \in Session |-> 0]
    /\ model = [c \in Call |-> NoModel]
    /\ tx = [c \in Call |-> "none"]
    /\ scan = NoScan
    /\ scans = 0

-----------------------------------------------------------------------------
(* Who holds which lock *)

HoldsSession(c) == tx[c] \in {"call", "usage", "commit"}
HoldsCall(c) == tx[c] \in {"usage", "commit"}
HoldsUsage(c) == tx[c] = "commit"

SessionFree(s) == s \notin scan.touched /\ ~\E c \in Calls(s) : HoldsSession(c)
CallFree(c) == c \notin scan.taken /\ ~HoldsCall(c)
UsageFree(s) == /\ scan.counted \cap Calls(s) = {}
                /\ ~\E c \in Calls(s) : HoldsUsage(c)

-----------------------------------------------------------------------------
(* The runs and the session, as the commands of the task change them.  The *)
(* owner of a lapsed run may renew it while its clock is behind.           *)

RunChanges(c, from, to) ==
    /\ run[c] = from
    /\ run' = [run EXCEPT ![c] = to]
    /\ UNCHANGED <<active, status, disposition, counted, model, tx, scan, scans>>

RunEnds(c) == \E from \in {"owned", "lapsed"} :
    SessionFree(SessionOf[c]) /\ RunChanges(c, from, "ended")

Archive(s) ==
    /\ active[s] /\ SessionFree(s)
    /\ active' = [active EXCEPT ![s] = FALSE]
    /\ run' = [c \in Call |-> IF SessionOf[c] = s THEN "ended" ELSE run[c]]
    /\ UNCHANGED <<status, disposition, counted, model, tx, scan, scans>>

-----------------------------------------------------------------------------
(* AuditedChatModel *)

(* startCall: fenced.  The answer may be lost: the row stays, the call is  *)
(* not made.                                                               *)
StartCall(c) ==
    /\ model[c].stage = "idle"
    /\ SessionFree(SessionOf[c])
    /\ active[SessionOf[c]] /\ run[c] = "owned"
    /\ status' = [status EXCEPT ![c] = "started"]
    /\ disposition' = [disposition EXCEPT ![c] = "pending"]
    /\ \E stage \in {"asking", "gone"} : model' = [model EXCEPT ![c].stage = stage]
    /\ UNCHANGED <<active, run, counted, tx, scan, scans>>

(* The provider has answered, or failed or was aborted, or the consumer of *)
(* a stream stops: completeCall is called.                                 *)
Settles(c, outcome, attempt) ==
    /\ model' = [model EXCEPT ![c] =
                    [stage |-> "settling", outcome |-> outcome, attempt |-> attempt]]
    /\ tx' = [tx EXCEPT ![c] = "session"]

Failures == {"failed", "cancelled"}
ProviderIsDone(c) ==
    /\ model[c].stage = "asking"
    /\ \/ Settles(c, "completed", "try")
       \/ \E outcome \in Failures : Settles(c, outcome, "catch")
       \/ c \in Streaming /\ Settles(c, "cancelled", "finally")
    /\ UNCHANGED <<store, scan, scans>>

(* completeCall failed.  The catch settles the call once more, and so does *)
(* the finally of a stream; then the error is thrown.                      *)
GivesUp(c) == /\ model' = [model EXCEPT ![c].stage = "threw"]
              /\ tx' = [tx EXCEPT ![c] = "none"]
SettlingFails(c) ==
    CASE model[c].attempt = "try" ->
            \E outcome \in Failures : Settles(c, outcome, "catch")
      [] model[c].attempt = "catch" /\ c \in Streaming -> Settles(c, "cancelled", "finally")
      [] OTHER -> GivesUp(c)

(* completeModelCall, statement by statement *)

LockSession(c) ==
    /\ tx[c] = "session"
    /\ SessionFree(SessionOf[c])
    /\ IF active[SessionOf[c]]
       THEN tx' = [tx EXCEPT ![c] = "call"] /\ UNCHANGED model
       ELSE SettlingFails(c)
    /\ UNCHANGED <<store, scan, scans>>

MaySettle(c) == status[c] = "started"
LockCall(c) ==
    /\ tx[c] = "call"
    /\ CallFree(c)
    /\ IF MaySettle(c)
       THEN tx' = [tx EXCEPT ![c] = "usage"] /\ UNCHANGED model
       ELSE SettlingFails(c)
    /\ UNCHANGED <<store, scan, scans>>

LockUsage(c) ==
    /\ tx[c] = "usage"
    /\ UsageFree(SessionOf[c])
    /\ tx' = [tx EXCEPT ![c] = "commit"]
    /\ UNCHANGED <<store, model, scan, scans>>

(* The commit.  The connection may break before its answer arrives.        *)
Committed(c) ==
    /\ status' = [status EXCEPT ![c] = model[c].outcome]
    /\ counted' = [counted EXCEPT ![SessionOf[c]] = @ + 1]
    /\ UNCHANGED <<active, run, disposition, scan, scans>>

CommitCall(c) ==
    /\ tx[c] = "commit"
    /\ Committed(c)
    /\ tx' = [tx EXCEPT ![c] = "none"]
    /\ model' = [model EXCEPT ![c].stage =
                    IF model[c].outcome = "completed" THEN "answered" ELSE "threw"]

CommitUnanswered(c) ==
    /\ tx[c] = "commit"
    /\ Committed(c)
    /\ SettlingFails(c)

ConnectionBreaks(c) ==
    /\ tx[c] # "none"
    /\ SettlingFails(c)
    /\ UNCHANGED <<store, scan, scans>>

(* The process ends; its transaction is rolled back. *)
WorkerDies(c) ==
    /\ model[c].stage \in {"asking", "settling", "answered"}
    /\ model' = [model EXCEPT ![c].stage = "gone"]
    /\ tx' = [tx EXCEPT ![c] = "none"]
    /\ UNCHANGED <<store, scan, scans>>

(* The loop has the whole output: it rejects it, or accepts it before it   *)
(* is stored.  Neither is fenced.                                          *)
JudgedWhen_Any(c) == model[c].stage \in {"answered", "threw"}
JudgedWhen(c) == model[c].stage = "answered"
JudgeOutput(c) ==
    /\ JudgedWhen(c)
    /\ \E verdict \in {"accepted", "rejected"} :
         disposition' = [disposition EXCEPT ![c] = verdict]
    /\ model' = [model EXCEPT ![c].stage = "judged"]
    /\ UNCHANGED <<active, run, status, counted, tx, scan, scans>>

Model(c) ==
    \/ StartCall(c) \/ ProviderIsDone(c)
    \/ LockSession(c) \/ LockCall(c) \/ LockUsage(c)
    \/ CommitCall(c) \/ CommitUnanswered(c) \/ ConnectionBreaks(c)
    \/ WorkerDies(c) \/ JudgeOutput(c)

-----------------------------------------------------------------------------
(* abandonStartedModelCalls, once in the life of a process *)

Orphan(c) == status[c] = "started" /\ run[c] # "owned"
BeginScan ==
    /\ scan.stage = "down"
    /\ scans < MaxScans
    /\ scans' = scans + 1
    /\ LET orphans == {c \in Call : Orphan(c)}
       IN  scan' = [NoScan EXCEPT !.stage = "locking", !.orphans = orphans, !.todo = orphans]
    /\ UNCHANGED <<store, model, tx>>

(* The update waits for the row and looks at it again. *)
Takes_Unchecked(c) == TRUE
Takes(c) == status[c] = "started"
TakeOrphan(c) ==
    /\ scan.stage = "locking"
    /\ c \in scan.todo
    /\ CallFree(c)
    /\ scan' = [scan EXCEPT !.todo = @ \ {c},
                            !.taken = IF Takes(c) THEN @ \cup {c} ELSE @]
    /\ UNCHANGED <<store, model, tx, scans>>

Waits_SkipLocked == \E c \in scan.todo : CallFree(c)
Waits == scan.todo # {}
AllTaken ==
    /\ scan.stage = "locking"
    /\ ~Waits
    /\ scan' = [scan EXCEPT !.stage = "counting"]
    /\ UNCHANGED <<store, model, tx, scans>>

(* The usage of each call, and only then the sessions. *)
CountOrphan(c) ==
    /\ scan.stage = "counting"
    /\ c \in scan.taken \ scan.counted
    /\ ~\E d \in Calls(SessionOf[c]) : HoldsUsage(d)
    /\ scan' = [scan EXCEPT !.counted = @ \cup {c}]
    /\ UNCHANGED <<store, model, tx, scans>>

TouchSession(s) ==
    /\ scan.stage = "counting"
    /\ scan.counted = scan.taken
    /\ s \notin scan.touched
    /\ Calls(s) \cap scan.taken # {}
    /\ ~\E c \in Calls(s) : HoldsSession(c)
    /\ scan' = [scan EXCEPT !.touched = @ \cup {s}]
    /\ UNCHANGED <<store, model, tx, scans>>

CommitScan ==
    /\ scan.stage = "counting"
    /\ scan.counted = scan.taken
    /\ scan.touched = {SessionOf[c] : c \in scan.taken}
    /\ status' = [c \in Call |-> IF c \in scan.taken THEN "failed" ELSE status[c]]
    /\ counted' = [s \in Session |-> counted[s] + Cardinality(scan.taken \cap Calls(s))]
    /\ scan' = [NoScan EXCEPT !.stage = "up", !.orphans = scan.orphans]
    /\ UNCHANGED <<active, run, disposition, model, tx, scans>>

(* The scan fails, and with it the start of the process. *)
ScanFailed_LocksKept == [scan EXCEPT !.stage = "down"]
ScanFailed == NoScan
ScanFails ==
    /\ scan.stage \in {"locking", "counting"}
    /\ scan' = ScanFailed
    /\ UNCHANGED <<store, model, tx, scans>>

ProcessEnds ==
    /\ scan.stage = "up"
    /\ scan' = NoScan
    /\ UNCHANGED <<store, model, tx, scans>>

Scan ==
    \/ BeginScan \/ AllTaken \/ CommitScan
    \/ \E c \in Call : TakeOrphan(c) \/ CountOrphan(c)
    \/ \E s \in Session : TouchSession(s)

-----------------------------------------------------------------------------
(* A call that holds its session and waits for a row the scan has locked,  *)
(* while the scan will have to touch that session.                         *)

Deadlocked(c) ==
    /\ \/ tx[c] = "call" /\ c \in scan.taken
       \/ tx[c] = "usage" /\ scan.counted \cap Calls(SessionOf[c]) # {}
    /\ Calls(SessionOf[c]) \cap scan.taken # {}

AbortVictim ==
    \E c \in Call :
        /\ Deadlocked(c)
        /\ \/ SettlingFails(c) /\ UNCHANGED scan
           \/ scan' = ScanFailed /\ UNCHANGED <<model, tx>>
        /\ UNCHANGED <<store, scans>>

Next ==
    \/ \E c \in Call : Model(c) \/ RunEnds(c)
                       \/ RunChanges(c, "owned", "lapsed") \/ RunChanges(c, "lapsed", "owned")
    \/ \E s \in Session : Archive(s)
    \/ Scan \/ ScanFails \/ ProcessEnds \/ AbortVictim

Spec == Init /\ [][Next]_vars

(* As long as some statement can run, one does, and the database finds     *)
(* deadlocks.                                                              *)
Statement ==
    \/ AllTaken \/ CommitScan
    \/ \E c \in Call : TakeOrphan(c) \/ CountOrphan(c)
                       \/ LockSession(c) \/ LockCall(c) \/ LockUsage(c) \/ CommitCall(c)
    \/ \E s \in Session : TouchSession(s)
Fairness == WF_vars(Statement) /\ WF_vars(AbortVictim)
FairSpec == Spec /\ Fairness

-----------------------------------------------------------------------------
(* Properties *)

TypeOK ==
    /\ active \in [Session -> BOOLEAN]
    /\ run \in [Call -> {"owned", "lapsed", "ended"}]
    /\ status \in [Call -> {"none", "started"} \cup Settled]
    /\ disposition \in [Call -> {"none", "pending", "accepted", "rejected"}]
    /\ counted \in [Session -> Nat]
    /\ model \in [Call -> [stage : {"idle", "asking", "settling", "answered", "threw",
                                    "judged", "gone"},
                           outcome : Settled, attempt : {"try", "catch", "finally"}]]
    /\ tx \in [Call -> {"none", "session", "call", "usage", "commit"}]
    /\ scan \in [stage : {"down", "locking", "counting", "up"}, orphans : SUBSET Call,
                 todo : SUBSET Call, taken : SUBSET Call, counted : SUBSET Call,
                 touched : SUBSET Session]
    /\ scans \in 0 .. MaxScans

(* The usage of a session counts each of its settled calls once, whoever   *)
(* settles it: its model, a later attempt of it, or the scan of another    *)
(* process that works at the same time.                                    *)
EachCallCountedOnce ==
    \A s \in Session : counted[s] = Cardinality({c \in Calls(s) : status[c] \in Settled})

(* An output the loop accepted is that of a call recorded as completed.    *)
AcceptedIsCompleted ==
    \A c \in Call : disposition[c] = "accepted" => status[c] = "completed"

(* A process that is up has left none of the orphans it found when it      *)
(* started, not even one that another transaction was working on.          *)
ScanSettlesOrphans ==
    scan.stage = "up" => \A c \in scan.orphans : status[c] \in Settled

(* No transaction waits for ever. *)
TransactionsEnd ==
    /\ \A c \in Call : model[c].stage = "settling" ~> model[c].stage # "settling"
    /\ scan.stage \in {"locking", "counting"} ~> scan.stage \notin {"locking", "counting"}
=============================================================================
