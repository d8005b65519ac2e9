---------------------- MODULE ExecutionOwnershipProofs ----------------------
(* Theorems about the lease of a run, for every lease, interval and delay. *)
EXTENDS ExecutionOwnership, TLAPS

(* The newest write of the row is that of a renewal its worker gave up. *)
OrphanWroteLast == \E o \in orphans : o.executed /\ lease = o.at + Lease

(* The timer was set while the lease was believed in, and is not overdue. *)
TimerInv == Executing => /\ now <= nextTimer + Delay
                         /\ nextTimer <= confirmedUntil + Interval

(* One renewal at a time, and it is newer than everything granted so far. *)
OrderInv ==
    /\ confirmedUntil <= now + Lease
    /\ lease <= now + Lease
    /\ \A o \in orphans : o.at <= now
    /\ \A m \in refreshes :
          /\ m.at <= now
          /\ confirmedUntil <= m.at + Lease
          /\ lease <= m.at + Lease
          /\ \A o \in orphans : o.at <= m.at
          /\ \A n \in refreshes : n = m

(* What the worker believes, or is about to, the row has granted. *)
GrantInv ==
    /\ Executing => confirmedUntil <= lease \/ OrphanWroteLast
    /\ \A m \in refreshes :
          m.reply = "renewed" => m.at + Lease <= lease \/ OrphanWroteLast

Inv == TypeOK /\ TimerInv /\ OrderInv /\ GrantInv

LEMMA InitInv == Init => Inv
<1> SUFFICES ASSUME Init PROVE Inv
  OBVIOUS
<1>1. Lease \in Nat /\ Interval \in Nat /\ Delay \in Nat /\ now \in Nat /\ now < Lease
  BY IntervalAssumption, DelayAssumption DEF Init
<1>2. refreshes = {} /\ orphans = {} /\ nextTimer = now + Interval
      /\ lease = Lease /\ confirmedUntil = Lease
  BY DEF Init
<1>3. TypeOK
  <2>1. lease \in Nat /\ confirmedUntil \in Nat /\ nextTimer \in Nat
    BY <1>1, <1>2
  <2>2. running \in BOOLEAN /\ stopped \in BOOLEAN /\ ownershipLost \in BOOLEAN
    BY DEF Init
  <2> QED
    BY <1>1, <1>2, <2>1, <2>2 DEF TypeOK
<1>4. TimerInv
  BY <1>1, <1>2 DEF TimerInv
<1>5. OrderInv
  BY <1>1, <1>2 DEF OrderInv
<1>6. GrantInv
  BY <1>1, <1>2 DEF GrantInv
<1> QED
  BY <1>3, <1>4, <1>5, <1>6 DEF Inv

(* A step that settles the one renewal in flight leaves it the one, with   *)
(* the time it was sent.                                                   *)
LEMMA SettleKeeps ==
    ASSUME TypeOK, OrderInv, NEW m \in refreshes, NEW reply \in Reply, Settle(m, reply)
    PROVE  /\ refreshes' = {[at |-> m.at, reply |-> reply]}
           /\ m.at \in Nat
  BY DEF TypeOK, OrderInv, Settle, Reply

LEMMA TimerKeeps == Inv /\ Timer => Inv'
<1> SUFFICES ASSUME Inv, Timer PROVE Inv'
  OBVIOUS
<1> USE IntervalAssumption, DelayAssumption
<1>1. CASE TimerFindsLeaseExpired
  BY <1>1 DEF TimerFindsLeaseExpired, Inv, TypeOK, TimerInv, OrderInv, GrantInv,
              Executing, OrphanWroteLast, row
<1>2. CASE TimerSendsRefresh
  <2>1. PICK at \in {now, now + 1} :
            now' = at /\ refreshes' = refreshes \cup {[at |-> at, reply |-> "none"]}
    BY <1>2 DEF TimerSendsRefresh
  <2>2. refreshes = {} /\ refreshes' = {[at |-> at, reply |-> "none"]}
    BY <1>2, <2>1 DEF TimerSendsRefresh, MayRefresh
  <2>3. at \in Nat /\ now \in Nat /\ now <= at /\ at <= now + 1
    BY <2>1 DEF Inv, TypeOK
  <2>4. UNCHANGED <<running, lease, confirmedUntil, stopped, ownershipLost, orphans>>
        /\ now < confirmedUntil /\ nextTimer' = now + Interval
    BY <1>2 DEF TimerSendsRefresh, BelievesExpired, Inv, TypeOK, row
  <2>5. TypeOK'
    BY <2>1, <2>2, <2>3, <2>4 DEF Inv, TypeOK, Reply
  <2>6. TimerInv'
    BY <2>1, <2>3, <2>4 DEF Inv, TypeOK, TimerInv, Executing
  <2>7. OrderInv'
    BY <2>1, <2>2, <2>3, <2>4 DEF Inv, TypeOK, OrderInv
  <2>8. GrantInv'
    BY <2>2, <2>4 DEF Inv, GrantInv, Executing, OrphanWroteLast
  <2> QED
    BY <2>5, <2>6, <2>7, <2>8 DEF Inv
<1>3. CASE TimerWhileRefreshing
  BY <1>3 DEF TimerWhileRefreshing, BelievesExpired, Inv, TypeOK, TimerInv, OrderInv,
              GrantInv, Executing, OrphanWroteLast, row
<1> QED
  BY <1>1, <1>2, <1>3 DEF Timer

LEMMA StoreKeeps == Inv /\ Store => Inv'
<1> SUFFICES ASSUME Inv, Store PROVE Inv'
  OBVIOUS
<1> USE IntervalAssumption, DelayAssumption
<1>1. ASSUME NEW m \in refreshes, StoreRenews(m) PROVE Inv'
  <2>1. PICK reply \in {"renewed", "broken"} : Settle(m, reply)
    BY <1>1 DEF StoreRenews
  <2>2. refreshes' = {[at |-> m.at, reply |-> reply]} /\ m.at \in Nat
    BY <2>1, SettleKeeps DEF Inv, Reply
  <2>3. lease' = m.at + Lease /\ UNCHANGED <<running, worker, orphans, now>>
    BY <1>1 DEF StoreRenews
  <2> QED
    BY <2>2, <2>3 DEF Inv, TypeOK, TimerInv, OrderInv, GrantInv, Executing,
                      OrphanWroteLast, worker, Reply
<1>2. ASSUME NEW m \in refreshes, StoreRefuses(m) PROVE Inv'
  <2>1. PICK reply \in {"refused", "broken"} : Settle(m, reply)
    BY <1>2 DEF StoreRefuses
  <2>2. refreshes' = {[at |-> m.at, reply |-> reply]} /\ m.at \in Nat
    BY <2>1, SettleKeeps DEF Inv, Reply
  <2>3. UNCHANGED <<row, worker, orphans, now>>
    BY <1>2 DEF StoreRefuses
  <2> QED
    BY <2>2, <2>3 DEF Inv, TypeOK, TimerInv, OrderInv, GrantInv, Executing,
                      OrphanWroteLast, worker, row, Reply
<1>3. ASSUME NEW m \in refreshes, ConnectionBreaks(m) PROVE Inv'
  <2>1. refreshes' = {[at |-> m.at, reply |-> "broken"]} /\ m.at \in Nat
    BY <1>3, SettleKeeps DEF ConnectionBreaks, Inv, Reply
  <2>2. orphans' = orphans \cup {[at |-> m.at, executed |-> FALSE]}
        /\ UNCHANGED <<row, worker, now>>
    BY <1>3 DEF ConnectionBreaks
  <2>3. OrphanWroteLast => OrphanWroteLast'
    BY <2>2 DEF OrphanWroteLast, row
  <2>4. OrderInv'
    BY <2>1, <2>2 DEF Inv, TypeOK, OrderInv, row, worker
  <2>5. TypeOK'
    <3>1. refreshes' \subseteq [at : Nat, reply : Reply]
      BY <2>1 DEF Reply
    <3>2. [at |-> m.at, executed |-> FALSE] \in [at : Nat, executed : BOOLEAN]
      BY <2>1, Zenon
    <3>3. orphans' \subseteq [at : Nat, executed : BOOLEAN]
      BY <2>2, <3>2 DEF Inv, TypeOK
    <3> QED
      BY <2>2, <3>1, <3>3 DEF Inv, TypeOK, row, worker
  <2>6. TimerInv' /\ GrantInv'
    BY <2>1, <2>2, <2>3 DEF Inv, TimerInv, GrantInv, Executing, row, worker
  <2> QED
    BY <2>4, <2>5, <2>6 DEF Inv
<1>4. ASSUME NEW o \in orphans, OrphanExecutes(o) PROVE Inv'
  <2>1. o.at \in Nat /\ orphans' = (orphans \ {o}) \cup {[at |-> o.at, executed |-> TRUE]}
        /\ lease' = o.at + Lease
    BY <1>4 DEF OrphanExecutes, Inv, TypeOK
  <2> UNCHANGED <<running, confirmedUntil, nextTimer, stopped, ownershipLost,
                  refreshes, now>>
    BY <1>4 DEF OrphanExecutes, worker
  <2>2. OrphanWroteLast'
    <3> DEFINE e == [at |-> o.at, executed |-> TRUE]
    <3>1. e \in orphans' /\ e.executed /\ lease' = e.at + Lease
      BY <2>1
    <3> QED
      BY <3>1, Zenon DEF OrphanWroteLast
  <2>3. \A p \in orphans' : \E q \in orphans : p.at = q.at
    BY <2>1
  <2>4. OrderInv'
    BY <2>1, <2>3 DEF Inv, TypeOK, OrderInv
  <2>5. lease' \in Nat /\ orphans' \subseteq [at : Nat, executed : BOOLEAN]
    <3>1. lease' \in Nat
      BY <2>1
    <3>2. [at |-> o.at, executed |-> TRUE] \in [at : Nat, executed : BOOLEAN]
      BY <2>1, Zenon
    <3> QED
      BY <2>1, <3>1, <3>2 DEF Inv, TypeOK
  <2>6. TypeOK'
    BY <2>5 DEF Inv, TypeOK
  <2>7. TimerInv'
    BY DEF Inv, TimerInv, Executing
  <2>8. GrantInv'
    BY <2>2 DEF GrantInv
  <2> QED
    BY <2>4, <2>6, <2>7, <2>8 DEF Inv
<1>5. CASE RunCloses
  BY <1>5 DEF RunCloses, Inv, TypeOK, TimerInv, OrderInv, GrantInv, Executing,
              OrphanWroteLast, worker
<1> QED
  BY <1>1, <1>2, <1>3, <1>4, <1>5 DEF Store

LEMMA ReturnsKeeps == Inv /\ Returns => Inv'
<1> SUFFICES ASSUME Inv, NEW m \in refreshes,
                    RefreshSucceeds(m) \/ RefreshFails(m) \/ RefreshIgnored(m)
             PROVE  Inv'
  BY DEF Returns
<1> USE IntervalAssumption, DelayAssumption
<1>1. refreshes' = {} /\ m.at \in Nat
  BY DEF Inv, TypeOK, OrderInv, RefreshSucceeds, RefreshFails, RefreshIgnored, Received
<1>2. CASE RefreshSucceeds(m)
  BY <1>1, <1>2 DEF RefreshSucceeds, GrantedUntil, Inv, TypeOK, TimerInv, OrderInv,
                    GrantInv, Executing, OrphanWroteLast, row
<1>3. CASE RefreshFails(m)
  BY <1>1, <1>3 DEF RefreshFails, Inv, TypeOK, TimerInv, OrderInv,
                    GrantInv, Executing, OrphanWroteLast, row
<1>4. CASE RefreshIgnored(m)
  BY <1>1, <1>4 DEF RefreshIgnored, Inv, TypeOK, TimerInv, OrderInv,
                    GrantInv, Executing, OrphanWroteLast, row, worker
<1> QED
  BY <1>2, <1>3, <1>4

LEMMA NextInv == Inv /\ [Next]_vars => Inv'
<1> SUFFICES ASSUME Inv, [Next]_vars PROVE Inv'
  OBVIOUS
<1> USE IntervalAssumption, DelayAssumption
<1>1. CASE Tick
  BY <1>1 DEF Tick, Inv, TypeOK, TimerInv, OrderInv, GrantInv, Executing,
              OrphanWroteLast, row, worker
<1>2. CASE Stop
  BY <1>2 DEF Stop, Inv, TypeOK, TimerInv, OrderInv, GrantInv, Executing,
              OrphanWroteLast, row
<1>3. CASE UNCHANGED vars
  BY <1>3 DEF vars, Inv, TypeOK, TimerInv, OrderInv, GrantInv, Executing,
              OrphanWroteLast, row, worker
<1> QED
  BY <1>1, <1>2, <1>3, TimerKeeps, StoreKeeps, ReturnsKeeps DEF Next

(* The timer, the requests under way and what the row grants fit together. *)
THEOREM OwnershipInvariance == Spec => []Inv
  BY InitInv, NextInv, PTL DEF Spec

(* Every variable keeps its type. *)
THEOREM OwnershipTypes == Spec => []TypeOK
  BY OwnershipInvariance, PTL DEF Inv

(* A worker believes in no lease the row has not granted it, but for the   *)
(* renewals it gave up (ExecutionOwnershipService, the renewal's reply).   *)
THEOREM BeliefIsGranted == Spec => []BeliefWithinGrant
<1>1. Inv => BeliefWithinGrant
  BY DEF Inv, GrantInv, BeliefWithinGrant, OrphanWroteLast
<1> QED
  BY <1>1, OwnershipInvariance, PTL

(* However the store and the network behave, a worker executes at most one *)
(* interval, and the delay of one timer, beyond the lease it believes in.  *)
THEOREM OverrunIsBounded == Spec => []OverrunBounded
<1>1. Inv => OverrunBounded
  BY IntervalAssumption, DelayAssumption DEF Inv, TypeOK, TimerInv, OverrunBounded
<1> QED
  BY <1>1, OwnershipInvariance, PTL

(* Renewals take effect in the order they were sent, in the worker always  *)
(* and in the row unless a connection broke.                               *)
THEOREM RenewalsKeepOrder == Spec => RenewalsInOrder
<1> DEFINE Ordered == /\ confirmedUntil' >= confirmedUntil
                      /\ lease' < lease => orphans' # orphans
<1> USE IntervalAssumption
<1>1. ASSUME Inv, [Next]_vars PROVE [Ordered]_vars
  <2>1. ASSUME NEW m \in refreshes, StoreRenews(m) PROVE Ordered
    BY <1>1, <2>1 DEF StoreRenews, Inv, TypeOK, OrderInv, worker
  <2>2. ASSUME NEW m \in refreshes, RefreshSucceeds(m) PROVE Ordered
    BY <1>1, <2>2 DEF RefreshSucceeds, GrantedUntil, Inv, TypeOK, OrderInv, row
  <2>3. ASSUME NEW o \in orphans, OrphanExecutes(o) PROVE Ordered
    <3>1. orphans' = (orphans \ {o}) \cup {[o EXCEPT !.executed = TRUE]}
      BY <2>3 DEF OrphanExecutes
    <3>2. o \in [at : Nat, executed : BOOLEAN] /\ ~o.executed
      BY <1>1, <2>3 DEF OrphanExecutes, Inv, TypeOK
    <3>3. o \notin orphans'
      BY <3>1, <3>2
    <3> QED
      BY <1>1, <2>3, <3>3 DEF OrphanExecutes, Inv, TypeOK, worker
  <2>4. CASE Tick \/ Stop \/ Timer
    BY <1>1, <2>4 DEF Tick, Stop, Timer, TimerFindsLeaseExpired, TimerSendsRefresh,
                      TimerWhileRefreshing, Inv, TypeOK, row, worker
  <2>5. ASSUME NEW m \in refreshes,
               StoreRefuses(m) \/ ConnectionBreaks(m) \/ RefreshFails(m) \/ RefreshIgnored(m)
        PROVE  Ordered
    BY <1>1, <2>5 DEF StoreRefuses, ConnectionBreaks, RefreshFails, RefreshIgnored,
                      Inv, TypeOK, row, worker
  <2>6. CASE RunCloses
    BY <1>1, <2>6 DEF RunCloses, Inv, TypeOK, worker
  <2> QED
    BY <1>1, <2>1, <2>2, <2>3, <2>4, <2>5, <2>6 DEF Next, Returns, Store
<1>2. Inv /\ [Next]_vars => [Ordered]_vars
  BY <1>1
<1> QED
  BY <1>2, OwnershipInvariance, PTL DEF Spec, RenewalsInOrder
=============================================================================
