--------------------------- MODULE ModelCallsProofs ---------------------------
(* Theorems about ModelCalls, for every value of its constants: the calls  *)
(* of a session may be infinitely many and any number of processes start.  *)
EXTENDS ModelCalls, FiniteSetTheorems, TLAPS

USE DEF store, vars

-----------------------------------------------------------------------------
(* The inductive invariant. *)

(* What the place of AuditedChatModel says of the row: a transaction is    *)
(* under way exactly while it settles, the row exists once it has asked,   *)
(* and it has the output only of a call that is recorded as completed.     *)
CallInv ==
    \A c \in Call :
        /\ tx[c] = "none" <=> model[c].stage # "settling"
        /\ model[c].stage = "idle" => status[c] = "none"
        /\ model[c].stage = "answered" => status[c] = "completed"
        /\ disposition[c] = "accepted" => status[c] = "completed"

(* Nobody settles a row somebody else has locked: the row a transaction    *)
(* holds is still the one it looked at, and nobody else holds it.          *)
LockInv ==
    /\ \A c \in Call : HoldsCall(c) => status[c] = "started" /\ c \notin scan.taken
    /\ \A c \in scan.taken : status[c] = "started"

(* An orphan of the scan is settled, locked by it, or on its list.         *)
ScanInv ==
    /\ \A c \in scan.orphans :
          \/ status[c] \in Settled
          \/ status[c] = "started" /\ c \in scan.todo \cup scan.taken
    /\ scan.todo \subseteq scan.orphans
    /\ scan.taken \subseteq scan.orphans
    /\ scan.stage = "counting" => scan.todo = {}
    /\ scan.stage = "up" => scan.todo = {} /\ scan.taken = {}

SettledCalls(s) == {c \in Calls(s) : status[c] \in Settled}

(* EachCallCountedOnce, of calls that were made and are finitely many.     *)
CountInv ==
    /\ IsFiniteSet({c \in Call : status[c] # "none"})
    /\ \A s \in Session : counted[s] = Cardinality(SettledCalls(s))

Inv == TypeOK /\ CallInv /\ LockInv /\ ScanInv /\ CountInv

LEMMA InitInv == Init => Inv
<1> SUFFICES ASSUME Init PROVE Inv
  OBVIOUS
<1> USE DEF Init, NoModel, NoScan
<1>1. TypeOK
  BY BoundAssumption DEF TypeOK, Settled
<1>2. CallInv /\ LockInv /\ ScanInv
  BY DEF CallInv, LockInv, ScanInv, HoldsCall
<1>3. CountInv
  <2>1. {c \in Call : status[c] # "none"} = {}
    OBVIOUS
  <2>2. ASSUME NEW s \in Session PROVE SettledCalls(s) = {}
    BY DEF SettledCalls, Calls, Settled
  <2>. QED
    BY <2>1, <2>2, FS_EmptySet DEF CountInv
<1>. QED
  BY <1>1, <1>2, <1>3 DEF Inv

-----------------------------------------------------------------------------
(* What a step leaves alone, and what it may do. *)

(* A step that neither makes nor settles a call counts none. *)
LEMMA NothingCounted ==
    ASSUME CountInv, UNCHANGED <<status, counted>>
    PROVE  CountInv'
<1>1. {c \in Call : status[c] # "none"}' = {c \in Call : status[c] # "none"}
  OBVIOUS
<1>2. \A s \in Session : SettledCalls(s)' = SettledCalls(s)
  BY DEF SettledCalls
<1>. QED
  BY <1>1, <1>2 DEF CountInv

ModelRecords == [stage : {"idle", "asking", "settling", "answered", "threw", "judged", "gone"},
                 outcome : Settled, attempt : {"try", "catch", "finally"}]

(* A settling that fails leaves its transaction, for another or for good.  *)
LEMMA SettlingFailsEffect ==
    ASSUME TypeOK, NEW c \in Call, SettlingFails(c)
    PROVE  /\ model' \in [Call -> ModelRecords]
           /\ tx' \in [Call -> {"none", "session", "call", "usage", "commit"}]
           /\ \A d \in Call : d # c => model'[d] = model[d] /\ tx'[d] = tx[d]
           /\ \/ model'[c].stage = "settling" /\ tx'[c] = "session"
              \/ model'[c].stage = "threw" /\ tx'[c] = "none"
<1>1. CASE GivesUp(c)
  BY <1>1 DEF GivesUp, TypeOK, ModelRecords
<1>2. CASE \E outcome \in Settled, attempt \in {"try", "catch", "finally"} :
             Settles(c, outcome, attempt)
  <2>1. PICK outcome \in Settled, attempt \in {"try", "catch", "finally"} :
          Settles(c, outcome, attempt)
    BY <1>2
  <2>. QED
    BY <2>1 DEF Settles, TypeOK, ModelRecords
<1>. QED
  BY <1>1, <1>2 DEF SettlingFails, Failures, Settled

(* Locks are released or kept, and the rows stay as they are. *)
LEMMA LocksReleased ==
    ASSUME Inv, UNCHANGED <<store, scan, scans>>, NEW c \in Call, tx[c] # "none",
           SettlingFails(c)
    PROVE  Inv'
<1> USE DEF Inv
<1>1. TypeOK'
  BY SettlingFailsEffect DEF TypeOK, ModelRecords
<1>2. CallInv'
  BY SettlingFailsEffect DEF CallInv
<1>3. LockInv'
  BY SettlingFailsEffect DEF LockInv, HoldsCall
<1>4. ScanInv'
  BY DEF ScanInv
<1>5. CountInv'
  BY NothingCounted
<1>. QED
  BY <1>1, <1>2, <1>3, <1>4, <1>5

-----------------------------------------------------------------------------
(* The runs, the session and AuditedChatModel. *)

LEMMA RunsStep ==
    ASSUME Inv, \/ \E c \in Call, from, to \in {"owned", "lapsed", "ended"} : RunChanges(c, from, to)
                \/ \E s \in Session : Archive(s)
    PROVE  Inv'
<1> USE DEF Inv, RunChanges, Archive
<1>1. TypeOK'
  <2>1. CASE \E c \in Call, from, to \in {"owned", "lapsed", "ended"} : RunChanges(c, from, to)
    <3>1. PICK c \in Call, to \in {"owned", "lapsed", "ended"} : run' = [run EXCEPT ![c] = to]
      BY <2>1
    <3>. QED
      BY <2>1, <3>1 DEF TypeOK
  <2>2. CASE \E s \in Session : Archive(s)
    <3>1. active' \in [Session -> BOOLEAN]
      BY <2>2 DEF TypeOK
    <3>2. run' \in [Call -> {"owned", "lapsed", "ended"}]
      BY <2>2 DEF TypeOK
    <3>. QED
      BY <2>2, <3>1, <3>2 DEF TypeOK
  <2>. QED
    BY <2>1, <2>2
<1>2. CallInv' /\ LockInv' /\ ScanInv'
  BY DEF CallInv, LockInv, ScanInv, HoldsCall
<1>3. CountInv'
  BY NothingCounted
<1>. QED
  BY <1>1, <1>2, <1>3

LEMMA StartCallStep ==
    ASSUME Inv, NEW c \in Call, StartCall(c)
    PROVE  Inv'
<1> USE DEF Inv, StartCall
<1>1. TypeOK'
  BY DEF TypeOK
<1>2. CallInv' /\ LockInv' /\ ScanInv'
  BY DEF TypeOK, CallInv, LockInv, ScanInv, HoldsCall, Settled
<1>3. CountInv'
  <2>1. {d \in Call : status[d] # "none"}' = {d \in Call : status[d] # "none"} \cup {c}
    BY DEF TypeOK
  <2>2. \A s \in Session : SettledCalls(s)' = SettledCalls(s)
    BY DEF SettledCalls, Calls, Settled, TypeOK, CallInv
  <2>. QED
    BY <2>1, <2>2, FS_AddElement DEF CountInv
<1>. QED
  BY <1>1, <1>2, <1>3

LEMMA ProviderIsDoneStep ==
    ASSUME Inv, NEW c \in Call, ProviderIsDone(c)
    PROVE  Inv'
<1> USE DEF Inv, ProviderIsDone, Settles
<1>1. TypeOK'
  <2>1. PICK outcome \in Settled, attempt \in {"try", "catch", "finally"} :
          Settles(c, outcome, attempt)
    BY DEF Failures, Settled
  <2>2. /\ model' \in [Call -> ModelRecords]
        /\ tx' \in [Call -> {"none", "session", "call", "usage", "commit"}]
    BY <2>1 DEF TypeOK, ModelRecords
  <2>. QED
    BY <2>2 DEF TypeOK, ModelRecords
<1>2. CallInv'
  BY DEF TypeOK, CallInv
<1>3. LockInv'
  BY DEF TypeOK, LockInv, HoldsCall
<1>4. ScanInv'
  BY DEF ScanInv
<1>5. CountInv'
  BY NothingCounted
<1>. QED
  BY <1>1, <1>2, <1>3, <1>4, <1>5

LEMMA LockSessionStep ==
    ASSUME Inv, NEW c \in Call, LockSession(c)
    PROVE  Inv'
<1>1. CASE SettlingFails(c)
  BY <1>1, LocksReleased DEF LockSession
<1>2. CASE tx' = [tx EXCEPT ![c] = "call"] /\ UNCHANGED model
  <2> USE <1>2 DEF Inv, LockSession
  <2>1. TypeOK'
    BY DEF TypeOK
  <2>2. CallInv' /\ LockInv' /\ ScanInv'
    BY DEF TypeOK, CallInv, LockInv, ScanInv, HoldsCall
  <2>3. CountInv'
    BY NothingCounted
  <2>. QED
    BY <2>1, <2>2, <2>3
<1>. QED
  BY <1>1, <1>2 DEF LockSession

LEMMA LockCallStep ==
    ASSUME Inv, NEW c \in Call, LockCall(c)
    PROVE  Inv'
<1>1. CASE SettlingFails(c)
  BY <1>1, LocksReleased DEF LockCall
<1>2. CASE MaySettle(c) /\ tx' = [tx EXCEPT ![c] = "usage"] /\ UNCHANGED model
  <2> USE <1>2 DEF Inv, LockCall
  <2>1. TypeOK'
    BY DEF TypeOK
  <2>2. CallInv' /\ LockInv' /\ ScanInv'
    BY DEF TypeOK, CallInv, LockInv, ScanInv, HoldsCall, CallFree, MaySettle
  <2>3. CountInv'
    BY NothingCounted
  <2>. QED
    BY <2>1, <2>2, <2>3
<1>. QED
  BY <1>1, <1>2 DEF LockCall

LEMMA LockUsageStep ==
    ASSUME Inv, NEW c \in Call, LockUsage(c)
    PROVE  Inv'
<1> USE DEF Inv, LockUsage
<1>1. TypeOK'
  BY DEF TypeOK
<1>2. CallInv' /\ LockInv' /\ ScanInv'
  BY DEF TypeOK, CallInv, LockInv, ScanInv, HoldsCall
<1>3. CountInv'
  BY NothingCounted
<1>. QED
  BY <1>1, <1>2, <1>3

(* The commit settles a call nobody had settled, and counts it. *)
LEMMA CommittedCounts ==
    ASSUME Inv, NEW c \in Call, tx[c] = "commit", Committed(c)
    PROVE  CountInv'
<1> USE DEF Inv
<1>0. status[c] = "started" /\ model[c].outcome \in Settled /\ SessionOf[c] \in Session
  BY SessionOfAssumption DEF LockInv, HoldsCall, TypeOK
<1>1. {d \in Call : status[d] # "none"}' = {d \in Call : status[d] # "none"}
  BY <1>0 DEF TypeOK, Committed, Settled
<1>2. ASSUME NEW s \in Session PROVE counted'[s] = Cardinality(SettledCalls(s)')
  <2>1. CASE s = SessionOf[c]
    <3>1. SettledCalls(s)' = SettledCalls(s) \cup {c} /\ c \notin SettledCalls(s)
      BY <1>0, <2>1 DEF SettledCalls, Calls, Committed, TypeOK, Settled
    <3>2. IsFiniteSet(SettledCalls(s))
      <4>1. SettledCalls(s) \in SUBSET {d \in Call : status[d] # "none"}
        BY DEF SettledCalls, Calls, Settled
      <4>. QED
        BY <4>1, FS_Subset DEF CountInv
    <3>3. Cardinality(SettledCalls(s)') = Cardinality(SettledCalls(s)) + 1
      BY <3>1, <3>2, FS_AddElement
    <3>. QED
      BY <2>1, <3>3 DEF Committed, CountInv, TypeOK
  <2>2. CASE s # SessionOf[c]
    <3>1. SettledCalls(s)' = SettledCalls(s)
      BY <2>2 DEF SettledCalls, Calls, Committed, TypeOK
    <3>. QED
      BY <2>2, <3>1 DEF Committed, CountInv, TypeOK
  <2>. QED
    BY <2>1, <2>2
<1>. QED
  BY <1>1, <1>2 DEF CountInv

LEMMA CommittedTypes ==
    ASSUME Inv, NEW c \in Call, tx[c] = "commit", Committed(c)
    PROVE  /\ status' \in [Call -> {"none", "started"} \cup Settled]
           /\ counted' \in [Session -> Nat]
<1> USE DEF Inv
<1>1. model[c].outcome \in Settled /\ SessionOf[c] \in Session
  BY SessionOfAssumption DEF TypeOK
<1>2. status' \in [Call -> {"none", "started"} \cup Settled]
  BY <1>1 DEF TypeOK, Committed
<1>3. counted[SessionOf[c]] + 1 \in Nat
  BY <1>1 DEF TypeOK
<1>4. counted' \in [Session -> Nat]
  BY <1>3 DEF TypeOK, Committed
<1>. QED
  BY <1>2, <1>4

LEMMA CommitCallStep ==
    ASSUME Inv, NEW c \in Call, CommitCall(c)
    PROVE  Inv'
<1> USE DEF Inv, CommitCall
<1>0. status[c] = "started" /\ model[c].outcome \in Settled /\ c \notin scan.taken
  BY DEF LockInv, HoldsCall, TypeOK
<1>1. TypeOK'
  <2>1. /\ status' \in [Call -> {"none", "started"} \cup Settled]
        /\ counted' \in [Session -> Nat]
    BY CommittedTypes
  <2>2. tx' \in [Call -> {"none", "session", "call", "usage", "commit"}]
    BY DEF TypeOK
  <2>3. model' \in [Call -> ModelRecords]
    <3> DEFINE stage == IF model[c].outcome = "completed" THEN "answered" ELSE "threw"
    <3>1. stage \in {"answered", "threw"}
      OBVIOUS
    <3>2. model' = [model EXCEPT ![c].stage = stage]
      OBVIOUS
    <3> HIDE DEF stage
    <3>. QED
      BY <3>1, <3>2 DEF TypeOK, ModelRecords
  <2>. QED
    BY <2>1, <2>2, <2>3 DEF TypeOK, ModelRecords, Committed
<1>2. CallInv' /\ LockInv' /\ ScanInv'
  BY <1>0 DEF TypeOK, CallInv, LockInv, ScanInv, HoldsCall, Committed, Settled
<1>3. CountInv'
  BY CommittedCounts
<1>. QED
  BY <1>1, <1>2, <1>3

LEMMA CommitUnansweredStep ==
    ASSUME Inv, NEW c \in Call, CommitUnanswered(c)
    PROVE  Inv'
<1> USE DEF Inv, CommitUnanswered
<1>0. status[c] = "started" /\ model[c].outcome \in Settled /\ c \notin scan.taken
  BY DEF LockInv, HoldsCall, TypeOK
<1>1. TypeOK'
  <2>1. /\ status' \in [Call -> {"none", "started"} \cup Settled]
        /\ counted' \in [Session -> Nat]
    BY CommittedTypes
  <2>. QED
    BY <2>1, SettlingFailsEffect DEF TypeOK, ModelRecords, Committed
<1>2. CallInv' /\ LockInv' /\ ScanInv'
  BY <1>0, SettlingFailsEffect
  DEF TypeOK, CallInv, LockInv, ScanInv, HoldsCall, Committed, Settled
<1>3. CountInv'
  BY CommittedCounts
<1>. QED
  BY <1>1, <1>2, <1>3

LEMMA WorkerDiesStep ==
    ASSUME Inv, NEW c \in Call, WorkerDies(c)
    PROVE  Inv'
<1> USE DEF Inv, WorkerDies
<1>1. TypeOK'
  BY DEF TypeOK
<1>2. CallInv'
  BY DEF TypeOK, CallInv
<1>3. LockInv'
  BY DEF TypeOK, LockInv, HoldsCall
<1>4. ScanInv'
  BY DEF ScanInv
<1>5. CountInv'
  BY NothingCounted
<1>. QED
  BY <1>1, <1>2, <1>3, <1>4, <1>5

LEMMA JudgeOutputStep ==
    ASSUME Inv, NEW c \in Call, JudgeOutput(c)
    PROVE  Inv'
<1> USE DEF Inv, JudgeOutput, JudgedWhen
<1>1. TypeOK'
  BY DEF TypeOK
<1>2. CallInv'
  BY DEF TypeOK, CallInv
<1>3. LockInv'
  BY DEF TypeOK, LockInv, HoldsCall
<1>4. ScanInv'
  BY DEF ScanInv
<1>5. CountInv'
  BY NothingCounted
<1>. QED
  BY <1>1, <1>2, <1>3, <1>4, <1>5

LEMMA ModelStep ==
    ASSUME Inv, NEW c \in Call, Model(c)
    PROVE  Inv'
<1>1. CASE ConnectionBreaks(c)
  BY <1>1, LocksReleased DEF ConnectionBreaks
<1>. QED
  BY <1>1, StartCallStep, ProviderIsDoneStep, LockSessionStep, LockCallStep,
     LockUsageStep, CommitCallStep, CommitUnansweredStep, WorkerDiesStep,
     JudgeOutputStep DEF Model

-----------------------------------------------------------------------------
(* abandonStartedModelCalls. *)

ScanRecords == [stage : {"down", "locking", "counting", "up"}, orphans : SUBSET Call,
                todo : SUBSET Call, taken : SUBSET Call, counted : SUBSET Call,
                touched : SUBSET Session]

(* The scan, field by field. *)
LEMMA ScanFields ==
    ASSUME TypeOK
    PROVE  /\ scan = [stage |-> scan.stage, orphans |-> scan.orphans, todo |-> scan.todo,
                      taken |-> scan.taken, counted |-> scan.counted, touched |-> scan.touched]
           /\ scan.stage \in {"down", "locking", "counting", "up"}
           /\ scan.orphans \subseteq Call /\ scan.todo \subseteq Call
           /\ scan.taken \subseteq Call /\ scan.counted \subseteq Call
           /\ scan.touched \subseteq Session
  BY DEF TypeOK

(* What the scan does before its commit it does to itself alone. *)
LEMMA ScanAlone ==
    ASSUME Inv, UNCHANGED <<store, model, tx>>,
           scan' \in ScanRecords, scans' \in 0 .. MaxScans, ScanInv',
           \A c \in scan'.taken : c \in scan.taken \/ (status[c] = "started" /\ CallFree(c))
    PROVE  Inv'
<1> USE DEF Inv
<1>1. TypeOK'
  BY DEF TypeOK, ScanRecords
<1>2. CallInv'
  BY DEF CallInv
<1>3. LockInv'
  BY DEF LockInv, HoldsCall, CallFree
<1>4. CountInv'
  BY NothingCounted
<1>. QED
  BY <1>1, <1>2, <1>3, <1>4

LEMMA BeginScanStep ==
    ASSUME Inv, BeginScan
    PROVE  Inv'
<1> DEFINE orphans == {c \in Call : Orphan(c)}
<1>1. scan' = [stage |-> "locking", orphans |-> orphans, todo |-> orphans,
               taken |-> {}, counted |-> {}, touched |-> {}]
  BY DEF BeginScan, NoScan
<1>2. scan' \in ScanRecords
  BY <1>1 DEF ScanRecords
<1>3. scans' \in 0 .. MaxScans
  BY BoundAssumption DEF Inv, TypeOK, BeginScan
<1>4. UNCHANGED <<store, model, tx>>
  BY DEF BeginScan
<1>5. ScanInv'
  BY <1>1, <1>4 DEF ScanInv, Orphan
<1>6. scan'.taken = {}
  BY <1>1
<1>. QED
  BY <1>2, <1>3, <1>4, <1>5, <1>6, ScanAlone

LEMMA TakeOrphanStep ==
    ASSUME Inv, NEW c \in Call, TakeOrphan(c)
    PROVE  Inv'
<1> DEFINE taken == IF status[c] = "started" THEN scan.taken \cup {c} ELSE scan.taken
<1>0. TypeOK /\ ScanInv
  BY DEF Inv
<1>1. scan' = [stage |-> scan.stage, orphans |-> scan.orphans, todo |-> scan.todo \ {c},
               taken |-> taken, counted |-> scan.counted, touched |-> scan.touched]
  BY <1>0, ScanFields DEF TakeOrphan, Takes
<1>2. scan' \in ScanRecords
  BY <1>0, <1>1, ScanFields DEF ScanRecords
<1>3. UNCHANGED <<store, model, tx, scans>> /\ CallFree(c) /\ scan.stage = "locking"
  BY DEF TakeOrphan
<1>4. scans' \in 0 .. MaxScans
  BY <1>0, <1>3 DEF TypeOK
<1>5. ScanInv'
  <2> HIDE DEF taken
  <2>1. /\ scan'.stage = "locking" /\ scan'.orphans = scan.orphans
        /\ scan'.todo = scan.todo \ {c} /\ scan'.taken = taken
    BY <1>1, <1>3
  <2>2. c \in scan.todo
    BY DEF TakeOrphan
  <2>. QED
    BY <1>0, <1>3, <2>1, <2>2 DEF ScanInv, taken
<1>6. \A d \in scan'.taken : d \in scan.taken \/ (status[d] = "started" /\ CallFree(d))
  BY <1>1, <1>3
<1>. QED
  BY <1>2, <1>3, <1>4, <1>5, <1>6, ScanAlone

(* The other statements change neither a list nor what is taken. *)
LEMMA ScanGoesOn ==
    ASSUME Inv, UNCHANGED <<store, model, tx, scans>>, scan.stage \in {"locking", "counting"},
           NEW done \in SUBSET Call, NEW touched \in SUBSET Session, scan.stage = "locking" => scan.todo = {},
           scan' = [stage |-> "counting", orphans |-> scan.orphans, todo |-> scan.todo,
                    taken |-> scan.taken, counted |-> done, touched |-> touched]
    PROVE  Inv'
<1>0. TypeOK /\ ScanInv
  BY DEF Inv
<1>1. scan' \in ScanRecords
  BY <1>0, ScanFields DEF ScanRecords
<1>2. scans' \in 0 .. MaxScans
  BY <1>0 DEF TypeOK
<1>3. /\ scan'.stage = "counting" /\ scan'.orphans = scan.orphans
      /\ scan'.todo = scan.todo /\ scan'.taken = scan.taken
  OBVIOUS
<1>4. ScanInv'
  BY <1>0, <1>3 DEF ScanInv
<1>. QED
  BY <1>1, <1>2, <1>3, <1>4, ScanAlone

LEMMA AllTakenStep ==
    ASSUME Inv, AllTaken
    PROVE  Inv'
<1>0. TypeOK
  BY DEF Inv
<1>1. scan' = [stage |-> "counting", orphans |-> scan.orphans, todo |-> scan.todo,
               taken |-> scan.taken, counted |-> scan.counted, touched |-> scan.touched]
  BY <1>0, ScanFields DEF AllTaken
<1>. QED
  BY <1>0, <1>1, ScanFields, ScanGoesOn DEF AllTaken, Waits

LEMMA CountOrphanStep ==
    ASSUME Inv, NEW c \in Call, CountOrphan(c)
    PROVE  Inv'
<1>0. TypeOK
  BY DEF Inv
<1>1. scan' = [stage |-> "counting", orphans |-> scan.orphans, todo |-> scan.todo,
               taken |-> scan.taken, counted |-> scan.counted \cup {c},
               touched |-> scan.touched]
  BY <1>0, ScanFields DEF CountOrphan
<1>2. scan.counted \cup {c} \in SUBSET Call /\ scan.touched \in SUBSET Session
  BY <1>0, ScanFields
<1>. QED
  BY <1>1, <1>2, ScanGoesOn DEF CountOrphan

LEMMA TouchSessionStep ==
    ASSUME Inv, NEW s \in Session, TouchSession(s)
    PROVE  Inv'
<1>0. TypeOK
  BY DEF Inv
<1>1. scan' = [stage |-> "counting", orphans |-> scan.orphans, todo |-> scan.todo,
               taken |-> scan.taken, counted |-> scan.counted,
               touched |-> scan.touched \cup {s}]
  BY <1>0, ScanFields DEF TouchSession
<1>2. scan.counted \in SUBSET Call /\ scan.touched \cup {s} \in SUBSET Session
  BY <1>0, ScanFields
<1>. QED
  BY <1>1, <1>2, ScanGoesOn DEF TouchSession

(* The scan settles the calls it has locked, and counts each of them. *)
LEMMA CommitScanStep ==
    ASSUME Inv, CommitScan
    PROVE  Inv'
<1> USE DEF Inv
<1>1. scan' = [stage |-> "up", orphans |-> scan.orphans, todo |-> {}, taken |-> {},
               counted |-> {}, touched |-> {}]
  BY DEF CommitScan, NoScan
<1>2. \A c \in Call : status'[c] = IF c \in scan.taken THEN "failed" ELSE status[c]
  BY DEF CommitScan
<1>3. {c \in Call : status[c] # "none"}' = {c \in Call : status[c] # "none"}
  BY <1>2 DEF LockInv
<1>4. ASSUME NEW s \in Session
      PROVE  /\ counted'[s] = Cardinality(SettledCalls(s)')
             /\ counted'[s] \in Nat
  <2> DEFINE T == scan.taken \cap Calls(s)
  <2>1. SettledCalls(s)' = SettledCalls(s) \cup T /\ SettledCalls(s) \cap T = {}
    BY <1>2 DEF SettledCalls, Calls, LockInv, Settled
  <2>2. IsFiniteSet(SettledCalls(s)) /\ IsFiniteSet(T)
    <3>1. SettledCalls(s) \in SUBSET {c \in Call : status[c] # "none"}
      BY DEF SettledCalls, Calls, Settled
    <3>2. T \in SUBSET {c \in Call : status[c] # "none"}
      BY DEF Calls, LockInv
    <3>. QED
      BY <3>1, <3>2, FS_Subset DEF CountInv
  <2>3. Cardinality(SettledCalls(s)') = Cardinality(SettledCalls(s)) + Cardinality(T)
    <3>1. Cardinality({}) = 0
      BY FS_EmptySet
    <3>2. Cardinality(SettledCalls(s)) \in Nat /\ Cardinality(T) \in Nat
      BY <2>2, FS_CardinalityType
    <3>3. Cardinality(SettledCalls(s) \cup T) =
            Cardinality(SettledCalls(s)) + Cardinality(T) - Cardinality(SettledCalls(s) \cap T)
      BY <2>2, FS_Union
    <3>4. Cardinality(SettledCalls(s) \cap T) = 0
      BY <2>1, <3>1
    <3>. QED
      BY <2>1, <3>2, <3>3, <3>4
  <2>4. counted'[s] = counted[s] + Cardinality(T)
    BY DEF CommitScan
  <2>5. Cardinality(T) \in Nat /\ counted[s] \in Nat
    BY <2>2, FS_CardinalityType DEF TypeOK
  <2>. QED
    BY <2>3, <2>4, <2>5 DEF CountInv
<1>5. TypeOK'
  BY <1>1, <1>4 DEF CommitScan, TypeOK, Settled
<1>6. UNCHANGED <<active, run, disposition, model, tx, scans>>
  BY DEF CommitScan
<1>7. CallInv'
  BY <1>2, <1>6 DEF CallInv, LockInv
<1>8. LockInv'
  BY <1>1, <1>2, <1>6 DEF LockInv, HoldsCall
<1>9. ScanInv'
  <2>1. /\ scan'.stage = "up" /\ scan'.orphans = scan.orphans
        /\ scan'.todo = {} /\ scan'.taken = {}
    BY <1>1
  <2>3. scan.todo = {}
    BY DEF ScanInv, CommitScan
  <2>2. scan.orphans \subseteq Call
    BY ScanFields
  <2>. QED
    BY <1>2, <2>1, <2>2, <2>3 DEF ScanInv, Settled
<1>10. CountInv'
  BY <1>3, <1>4 DEF CountInv
<1>. QED
  BY <1>5, <1>7, <1>8, <1>9, <1>10

LEMMA ScanStopsStep ==
    ASSUME Inv, scan' = NoScan, UNCHANGED <<store, model, tx, scans>>
    PROVE  Inv'
<1>1. scan' \in ScanRecords /\ scan'.taken = {}
  BY DEF ScanRecords, NoScan
<1>2. scans' \in 0 .. MaxScans
  BY DEF Inv, TypeOK
<1>3. ScanInv'
  BY DEF ScanInv, NoScan
<1>. QED
  BY <1>1, <1>2, <1>3, ScanAlone

LEMMA ScanStep ==
    ASSUME Inv, Scan \/ ScanFails \/ ProcessEnds
    PROVE  Inv'
  BY BeginScanStep, TakeOrphanStep, AllTakenStep, CountOrphanStep, TouchSessionStep,
     CommitScanStep, ScanStopsStep DEF Scan, ScanFails, ScanFailed, ProcessEnds

LEMMA AbortVictimStep ==
    ASSUME Inv, AbortVictim
    PROVE  Inv'
<1>1. PICK c \in Call :
        /\ Deadlocked(c)
        /\ \/ SettlingFails(c) /\ UNCHANGED scan
           \/ scan' = ScanFailed /\ UNCHANGED <<model, tx>>
        /\ UNCHANGED <<store, scans>>
  BY DEF AbortVictim
<1>2. tx[c] # "none"
  BY <1>1 DEF Deadlocked
<1>. QED
  BY <1>1, <1>2, LocksReleased, ScanStopsStep DEF ScanFailed

LEMMA NextInv == Inv /\ [Next]_vars => Inv'
<1> SUFFICES ASSUME Inv, [Next]_vars PROVE Inv'
  OBVIOUS
<1>1. CASE \E c \in Call : Model(c)
  BY <1>1, ModelStep
<1>2. CASE \/ \E c \in Call : \/ RunEnds(c)
                              \/ RunChanges(c, "owned", "lapsed")
                              \/ RunChanges(c, "lapsed", "owned")
           \/ \E s \in Session : Archive(s)
  BY <1>2, RunsStep DEF RunEnds
<1>3. CASE Scan \/ ScanFails \/ ProcessEnds
  BY <1>3, ScanStep
<1>4. CASE AbortVictim
  BY <1>4, AbortVictimStep
<1>5. CASE UNCHANGED vars
  <2>1. TypeOK' /\ CallInv' /\ LockInv' /\ ScanInv'
    BY <1>5 DEF Inv, TypeOK, CallInv, LockInv, ScanInv, HoldsCall
  <2>. QED
    BY <1>5, <2>1, NothingCounted DEF Inv
<1>. QED
  BY <1>1, <1>2, <1>3, <1>4, <1>5 DEF Next

-----------------------------------------------------------------------------
(* What holds throughout. *)

(* What the rows say of one another, of the locks and of the scan.         *)
THEOREM AuditInvariance == Spec => []Inv
  BY InitInv, NextInv, PTL DEF Spec

(* The usage of a session counts each of its settled calls once, whether   *)
(* completeModelCall, an attempt after a lost reply or                     *)
(* abandonStartedModelCalls settled it.                                    *)
THEOREM CallsAreCountedOnce == Spec => []EachCallCountedOnce
<1>1. Inv => EachCallCountedOnce
  BY DEF Inv, CountInv, SettledCalls, EachCallCountedOnce
<1>. QED
  BY <1>1, AuditInvariance, PTL

(* An output the loop accepted is that of a call recorded as completed,    *)
(* though setOutputDisposition takes no lock and passes no fence.          *)
THEOREM AcceptedCallsAreCompleted == Spec => []AcceptedIsCompleted
<1>1. Inv => AcceptedIsCompleted
  BY DEF Inv, CallInv, AcceptedIsCompleted
<1>. QED
  BY <1>1, AuditInvariance, PTL

(* A process that is up has left none of the orphans it found.             *)
THEOREM OrphansAreSettled == Spec => []ScanSettlesOrphans
<1>1. Inv => ScanSettlesOrphans
  BY DEF Inv, ScanInv, ScanSettlesOrphans
<1>. QED
  BY <1>1, AuditInvariance, PTL

-----------------------------------------------------------------------------
(* What no step does. *)

SettledStays == \A c \in Call : status[c] \in Settled => status'[c] = status[c]

(* A row that is settled stays settled as it is, whoever comes late: a     *)
(* later attempt of its model, another process's scan, a restarted call.   *)
THEOREM SettledForGood == Spec => [][SettledStays]_vars
<1>1. ASSUME Inv, Next PROVE SettledStays
  <2> USE <1>1 DEF Inv, TypeOK, SettledStays, Settled
  <2>1. ASSUME NEW c \in Call, StartCall(c) PROVE SettledStays
    BY <2>1 DEF StartCall, CallInv
  <2>2. ASSUME NEW c \in Call, tx[c] = "commit", Committed(c) PROVE SettledStays
    BY <2>2 DEF Committed, LockInv, HoldsCall
  <2>3. CASE CommitScan
    BY <2>3 DEF CommitScan, LockInv
  <2>4. CASE UNCHANGED status
    BY <2>4
  <2>. QED
    BY <1>1, <2>1, <2>2, <2>3, <2>4
    DEF Next, Model, ProviderIsDone, LockSession, LockCall, LockUsage, CommitCall,
        CommitUnanswered, ConnectionBreaks, WorkerDies, JudgeOutput, RunEnds, RunChanges,
        Archive, Scan, BeginScan, AllTaken, TakeOrphan, CountOrphan, TouchSession,
        ScanFails, ProcessEnds, AbortVictim
<1>. QED
  BY <1>1, AuditInvariance, PTL DEF Spec
=============================================================================
