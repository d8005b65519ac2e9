----------------------------- MODULE TaskStoreDocs -----------------------------
(* Sentences of docs/ about the tables that the commands do not keep.      *)
EXTENDS TaskStore

(* docs/01-database-and-state-machines.md, section 4: a run is "paused"    *)
(* only while its task waits for the user.  answerUserInput leaves the     *)
(* paused run as it is and inserts another one.                            *)
PausedRunsWaitForUser ==
    \A r \in Run :
        runStatus[r] = "paused" => taskStatus[runTask[r]] = "waiting_for_user"

(* docs/02-execution-recovery-and-hitl.md, section 5: a question that has  *)
(* expired ends its task and starts no run.  answerUserInput compares no   *)
(* deadline, and the scan that expires questions runs once, at startup.    *)
ExpiredQuestionsStartNoRun ==
    [][\A c \in Call :
         /\ reqStatus[c] = "pending"
         /\ reqStatus'[c] = "answered"
         => reqExpiry[c] = None \/ now < reqExpiry[c]]_vars
==============================================================================
