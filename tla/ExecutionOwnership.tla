------------------------- MODULE ExecutionOwnership -------------------------
(***************************************************************************)
(* How a worker keeps the lease of the run it executes, and what it        *)
(* believes of that lease: the timer of ExecutionOwnershipService, the     *)
(* renewals it sends, their replies, and the row of the run.               *)
(*                                                                         *)
(* A renewal is late anywhere: on its way, in the store, in the reply.  A  *)
(* connection that breaks tells the worker that the renewal failed; the    *)
(* store may have executed it, may execute it later (an orphan), or never. *)
(*                                                                         *)
(* An operator named X_Fault is X with that fault; no definition uses it.  *)
(***************************************************************************)
EXTENDS Integers

CONSTANTS
    Lease,      \* ownershipTimeoutMs
    Interval,   \* ownershipRefreshMs
    Delay,      \* how late the event loop may fire a timer that is due
    Outage,     \* bound: from this time on the store answers nothing
    MaxTime     \* bound on the clock

(* The constructor of TaskExecutor refuses other intervals. *)
ASSUME IntervalAssumption == Interval \in Nat \ {0} /\ Lease \in Nat /\ Interval < Lease
ASSUME DelayAssumption == Delay \in Nat
ASSUME BoundsAssumption == Outage \in Nat /\ MaxTime \in Nat

VARIABLES
    running,            \* row: the run is running and this worker owns it
    lease,              \* row: ownership_expires_at_ms
    confirmedUntil,     \* worker: the lease it knows it was granted
    refreshes,          \* worker: renewals sent whose promise is not settled
    orphans,            \* renewals the worker gave up, which may have been late
    nextTimer,          \* worker: when the interval is due
    stopped,            \* worker: the execution ended or was aborted
    ownershipLost,      \* worker: it fenced itself
    now

row == <<running, lease>>
worker == <<confirmedUntil, nextTimer, stopped, ownershipLost>>
vars == <<row, worker, refreshes, orphans, now>>

Reply == {"none", "renewed", "refused", "broken"}

TypeOK ==
    /\ running \in BOOLEAN
    /\ lease \in Nat
    /\ confirmedUntil \in Nat
    /\ refreshes \subseteq [at : Nat, reply : Reply]
    /\ orphans \subseteq [at : Nat, executed : BOOLEAN]
    /\ nextTimer \in Nat
    /\ stopped \in BOOLEAN
    /\ ownershipLost \in BOOLEAN
    /\ now \in Nat

Executing == ~stopped /\ ~ownershipLost

(* The executor read the run while its lease was alive; since then anyone  *)
(* may have closed it.                                                     *)
Init ==
    /\ running \in BOOLEAN
    /\ lease = Lease
    /\ confirmedUntil = Lease
    /\ refreshes = {}
    /\ orphans = {}
    /\ now \in 0 .. (Lease - 1)
    /\ nextTimer = now + Interval
    /\ stopped = FALSE
    /\ ownershipLost = FALSE

-----------------------------------------------------------------------------
(* The interval. *)

BelievesExpired_UnlessRefreshing == now >= confirmedUntil /\ refreshes = {}

BelievesExpired == now >= confirmedUntil

MayRefresh == refreshes = {}

TimerDue ==
    /\ Executing
    /\ now >= nextTimer

TimerFindsLeaseExpired ==
    /\ TimerDue
    /\ BelievesExpired
    /\ ownershipLost' = TRUE
    /\ UNCHANGED <<row, confirmedUntil, nextTimer, stopped, refreshes, orphans, now>>

(* The request carries a second reading of the clock. *)
TimerSendsRefresh ==
    /\ TimerDue
    /\ ~BelievesExpired
    /\ MayRefresh
    /\ \E at \in {now, now + 1} :
          /\ at <= MaxTime
          /\ now' = at
          /\ refreshes' = refreshes \cup {[at |-> at, reply |-> "none"]}
    /\ nextTimer' = now + Interval
    /\ UNCHANGED <<row, confirmedUntil, stopped, ownershipLost, orphans>>

TimerWhileRefreshing ==
    /\ TimerDue
    /\ ~BelievesExpired
    /\ ~MayRefresh
    /\ nextTimer' = now + Interval
    /\ UNCHANGED <<row, confirmedUntil, stopped, ownershipLost, refreshes, orphans, now>>

-----------------------------------------------------------------------------
(* The store. *)

Grants(at) == running /\ lease > at

Settle(m, reply) ==
    refreshes' = (refreshes \ {m}) \cup {[m EXCEPT !.reply = reply]}

(* renewTaskRunOwnershipCommand.  The reply may be lost on its way back. *)
StoreRenews(m) ==
    /\ m.reply = "none"
    /\ now < Outage
    /\ Grants(m.at)
    /\ lease' = m.at + Lease
    /\ \E reply \in {"renewed", "broken"} : Settle(m, reply)
    /\ UNCHANGED <<running, worker, orphans, now>>

StoreRefuses(m) ==
    /\ m.reply = "none"
    /\ now < Outage
    /\ ~Grants(m.at)
    /\ \E reply \in {"refused", "broken"} : Settle(m, reply)
    /\ UNCHANGED <<row, worker, orphans, now>>

(* The connection breaks before the store has executed the statement. *)
ConnectionBreaks(m) ==
    /\ m.reply = "none"
    /\ Settle(m, "broken")
    /\ orphans' = orphans \cup {[at |-> m.at, executed |-> FALSE]}
    /\ UNCHANGED <<row, worker, now>>

OrphanExecutes(o) ==
    /\ ~o.executed
    /\ now < Outage
    /\ Grants(o.at)
    /\ lease' = o.at + Lease
    /\ orphans' = (orphans \ {o}) \cup {[o EXCEPT !.executed = TRUE]}
    /\ UNCHANGED <<running, worker, refreshes, now>>

(* Another command ends the run: this worker's own last one, a             *)
(* cancellation, a deletion or a reconciliation.                           *)
RunCloses ==
    /\ running
    /\ running' = FALSE
    /\ UNCHANGED <<lease, worker, refreshes, orphans, now>>

-----------------------------------------------------------------------------
(* The replies. *)

Received(m) == m.reply # "none" /\ refreshes' = refreshes \ {m}

GrantedUntil_FromReply(m) == now + Lease

GrantedUntil(m) == m.at + Lease

RefreshSucceeds(m) ==
    /\ Executing
    /\ m.reply = "renewed"
    /\ Received(m)
    /\ confirmedUntil' = GrantedUntil(m)
    /\ UNCHANGED <<row, nextTimer, stopped, ownershipLost, orphans, now>>

FailureTolerated(m) == m.reply = "broken" /\ m.at < confirmedUntil

RefreshFails(m) ==
    /\ Executing
    /\ m.reply # "renewed"
    /\ Received(m)
    /\ ownershipLost' = ~FailureTolerated(m)
    /\ UNCHANGED <<row, confirmedUntil, nextTimer, stopped, orphans, now>>

RefreshIgnored(m) ==
    /\ ~Executing
    /\ Received(m)
    /\ UNCHANGED <<row, worker, orphans, now>>

(* The execution ends, or its signal is aborted for another reason. *)
Stop ==
    /\ Executing
    /\ stopped' = TRUE
    /\ UNCHANGED <<row, confirmedUntil, nextTimer, ownershipLost, refreshes, orphans, now>>

(* Time does not pass a timer that should have been fired by now. *)
Tick ==
    /\ now < MaxTime
    /\ Executing => now < nextTimer + Delay
    /\ now' = now + 1
    /\ UNCHANGED <<row, worker, refreshes, orphans>>

-----------------------------------------------------------------------------

Timer == TimerFindsLeaseExpired \/ TimerSendsRefresh \/ TimerWhileRefreshing

Returns == \E m \in refreshes : RefreshSucceeds(m) \/ RefreshFails(m) \/ RefreshIgnored(m)

Store ==
    \/ \E m \in refreshes : StoreRenews(m) \/ StoreRefuses(m) \/ ConnectionBreaks(m)
    \/ \E o \in orphans : OrphanExecutes(o)
    \/ RunCloses

Next == Tick \/ Timer \/ Returns \/ Store \/ Stop

(* Timers that are due fire and time passes.  Nothing is owed by the store *)
(* or the network.                                                         *)
Spec == Init /\ [][Next]_vars /\ WF_vars(Timer) /\ WF_vars(Tick)

-----------------------------------------------------------------------------

(* A worker that executes a run the store still has as its own believes in *)
(* a lease no longer than the one in the row, unless the last renewal the  *)
(* row saw is one whose connection broke: the lease counts from the time a *)
(* renewal is sent, and renewals do not overtake one another.              *)
BeliefWithinGrant ==
    Executing /\ running =>
        \/ confirmedUntil <= lease
        \/ \E o \in orphans : o.executed /\ lease = o.at + Lease

(* A worker cut off from the store, by a request that never returns as by  *)
(* one that fails, stops itself one interval after its lease at the latest *)
(* (docs/02-execution-recovery-and-hitl.md, section 2).                    *)
OverrunBounded == Executing => now <= confirmedUntil + Interval + Delay

(* The belief never goes back, and the row goes back only by a renewal     *)
(* whose connection broke: no reply and no renewal overtakes a later one.  *)
RenewalsInOrder ==
    [][ /\ confirmedUntil' >= confirmedUntil
        /\ lease' < lease => orphans' # orphans ]_vars

(* When the store stays away, every worker ends by itself. *)
WorkerStopsInOutage == <>~Executing
==============================================================================
