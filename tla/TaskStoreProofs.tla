--------------------------- MODULE TaskStoreProofs ---------------------------
(***************************************************************************)
(* What every statement of TaskStore keeps, for every set of tasks and     *)
(* workers and every attempt budget: the invariant StoreInv of the rows,   *)
(* and the contract of TaskLifecycle.  The modules that compose statements *)
(* to handlers and processes rest on these lemmas.                         *)
(***************************************************************************)
EXTENDS TaskStore, TLAPS

\* LeaseConsistent, for a row r of a task for which g leases were issued.
Consistent(r, g) ==
    /\ r.status = "running" <=> r.token # NoToken
    /\ r.status = "running" <=> r.lease # "none"
    /\ r.status = "running" => r.token = g /\ r.attempt >= 1 /\ r.runAt = "past"
    /\ r.status \in {"running", "retrying", "completed", "dead_letter"}
          => r.worker # NoWorker
    /\ r.status \in {"scheduled", "pending"} => r.worker = NoWorker

\* RetryBudget, strengthened, for a row r with n failures of at most max: every
\* accepted failure has used up an attempt, and a task that may still fail has
\* a failure left in its budget.
Budgeted(r, n, max) ==
    /\ n <= max
    /\ r.status = "none" => n = 0
    /\ r.status \in {"scheduled", "pending", "retrying", "running"}
          => n < max /\ n <= r.attempt
    /\ r.status = "running" => n < r.attempt
    /\ r.status = "retrying" => r.attempt < max
    /\ r.status = "dead_letter" => r.attempt >= max

RowOK(r, g, n, max) == r \in Row /\ Consistent(r, g) /\ Budgeted(r, n, max)

TaskOK(t) == RowOK(tasks[t], grants[t], failures[t], MaxAttempts[t])

StoreInv ==
    /\ StoreTypeOK
    /\ \A t \in Tasks : TaskOK(t)

-----------------------------------------------------------------------------
(* The empty tables. *)

LEMMA EmptyStoreOK == StoreInit => StoreInv
<1> SUFFICES ASSUME StoreInit PROVE StoreInv
  OBVIOUS
<1>1. /\ NoRow \in Row /\ NoRow.status = "none" /\ NoRow.token = NoToken
      /\ NoRow.lease = "none"
  BY DEF NoRow, NoToken, Row, TaskStatuses
<1>2. StoreTypeOK
  BY <1>1 DEF StoreInit, StoreTypeOK, WorkerRow, Ack, NoToken
<1>3. ASSUME NEW t \in Tasks PROVE TaskOK(t)
  <2>1. tasks[t] = NoRow /\ failures[t] = 0 /\ MaxAttempts[t] \in Nat \ {0}
    BY AttemptsAssumption DEF StoreInit
  <2>2. QED  BY <1>1, <2>1 DEF TaskOK, RowOK, Consistent, Budgeted
<1>4. QED  BY <1>2, <1>3 DEF StoreInv

LEMMA EmptyStoreUnborn == StoreInit => Contract!Init
<1> SUFFICES ASSUME StoreInit, NEW t \in Tasks PROVE LifeOf(t) = Contract!Unborn
  BY DEF Contract!Init
<1>1. tasks[t] = NoRow /\ grants[t] = 0 /\ acker[t] = [worker |-> NoWorker, token |-> 0]
  BY DEF StoreInit, NoToken
<1>2. QED  BY <1>1 DEF LifeOf, NoRow, Contract!Unborn, Contract!Life

-----------------------------------------------------------------------------
(* What the SET clauses make of one row. *)

LEMMA LeasedOK ==
    ASSUME NEW t \in Tasks, NEW w \in WorkerIds, grants[t] \in Nat, failures[t] \in Nat,
           TaskOK(t), tasks[t].status \in {"pending", "retrying", "running"},
           tasks[t].runAt = "past"
    PROVE  RowOK(Leased(t, w), grants[t] + 1, failures[t], MaxAttempts[t])
<1> DEFINE r == tasks[t]  s == Leased(t, w)
<1>1. r \in Row
  BY DEF TaskOK, RowOK
<1>2. /\ s \in Row
      /\ s.status = "running" /\ s.worker = w /\ s.token = grants[t] + 1
      /\ s.attempt = r.attempt + 1 /\ s.lease = "live" /\ s.runAt = "past"
  BY <1>1 DEF Leased, Row, TaskStatuses
<1>3. Consistent(s, grants[t] + 1)
  BY <1>1, <1>2, NoWorkerAssumption DEF Consistent, NoToken, Row
<1>4. Budgeted(s, failures[t], MaxAttempts[t])
  BY <1>1, <1>2, AttemptsAssumption DEF TaskOK, RowOK, Budgeted, Row
<1>5. QED  BY <1>2, <1>3, <1>4 DEF RowOK

LEMMA RequeuedOK ==
    ASSUME NEW t \in Tasks, grants[t] \in Nat, failures[t] \in Nat, TaskOK(t),
           tasks[t].status \in {"running", "retrying"}
    PROVE  RowOK(Requeued(t), grants[t], failures[t], MaxAttempts[t])
<1> DEFINE r == tasks[t]  s == Requeued(t)
<1>1. r \in Row
  BY DEF TaskOK, RowOK
<1>2. /\ s \in Row
      /\ s.status = "pending" /\ s.worker = NoWorker /\ s.token = NoToken
      /\ s.attempt = r.attempt /\ s.lease = "none"
  BY <1>1 DEF Requeued, NoToken, Row, TaskStatuses
<1>3. Consistent(s, grants[t])
  BY <1>2 DEF Consistent
<1>4. Budgeted(s, failures[t], MaxAttempts[t])
  BY <1>1, <1>2, AttemptsAssumption DEF TaskOK, RowOK, Budgeted, Row
<1>5. QED  BY <1>2, <1>3, <1>4 DEF RowOK

\* complete: the failures stay, whatever they are.
LEMMA CompletedOK ==
    ASSUME NEW t \in Tasks, grants[t] \in Nat, failures[t] \in Nat, TaskOK(t),
           tasks[t].status = "running"
    PROVE  RowOK(Settled(t, "completed"), grants[t], failures[t], MaxAttempts[t])
<1> DEFINE r == tasks[t]  s == Settled(t, "completed")
<1>1. r \in Row /\ Consistent(r, grants[t]) /\ Budgeted(r, failures[t], MaxAttempts[t])
  BY DEF TaskOK, RowOK
<1>2. /\ s \in Row
      /\ s.status = "completed" /\ s.worker = r.worker /\ s.token = NoToken
      /\ s.attempt = r.attempt /\ s.lease = "none"
  BY <1>1 DEF Settled, NoToken, Row, TaskStatuses
<1>3. Consistent(s, grants[t])
  BY <1>1, <1>2 DEF Consistent
<1>4. Budgeted(s, failures[t], MaxAttempts[t])
  BY <1>1, <1>2 DEF Budgeted
<1>5. QED  BY <1>2, <1>3, <1>4 DEF RowOK

\* fail: a decision taken on the present attempt keeps the budget.
LEMMA DeadLetteredOK ==
    ASSUME NEW t \in Tasks, grants[t] \in Nat, failures[t] \in Nat, TaskOK(t),
           tasks[t].status = "running", tasks[t].attempt >= MaxAttempts[t]
    PROVE  RowOK(Settled(t, "dead_letter"), grants[t], failures[t] + 1, MaxAttempts[t])
<1> DEFINE r == tasks[t]  s == Settled(t, "dead_letter")
<1>1. r \in Row /\ Consistent(r, grants[t]) /\ Budgeted(r, failures[t], MaxAttempts[t])
  BY DEF TaskOK, RowOK
<1>2. /\ s \in Row
      /\ s.status = "dead_letter" /\ s.worker = r.worker /\ s.token = NoToken
      /\ s.attempt = r.attempt /\ s.lease = "none"
  BY <1>1 DEF Settled, NoToken, Row, TaskStatuses
<1>3. Consistent(s, grants[t])
  BY <1>1, <1>2 DEF Consistent
<1>4. Budgeted(s, failures[t] + 1, MaxAttempts[t])
  BY <1>1, <1>2, AttemptsAssumption DEF Budgeted
<1>5. QED  BY <1>2, <1>3, <1>4 DEF RowOK

LEMMA RetryingOK ==
    ASSUME NEW t \in Tasks, grants[t] \in Nat, failures[t] \in Nat, TaskOK(t),
           tasks[t].status = "running", ~(tasks[t].attempt >= MaxAttempts[t])
    PROVE  RowOK([Settled(t, "retrying") EXCEPT !.runAt = "future"],
                 grants[t], failures[t] + 1, MaxAttempts[t])
<1> DEFINE r == tasks[t]  s == [Settled(t, "retrying") EXCEPT !.runAt = "future"]
<1>1. r \in Row /\ Consistent(r, grants[t]) /\ Budgeted(r, failures[t], MaxAttempts[t])
  BY DEF TaskOK, RowOK
<1>2. /\ s \in Row
      /\ s.status = "retrying" /\ s.worker = r.worker /\ s.token = NoToken
      /\ s.attempt = r.attempt /\ s.lease = "none"
  BY <1>1 DEF Settled, NoToken, Row, TaskStatuses
<1>3. Consistent(s, grants[t])
  BY <1>1, <1>2 DEF Consistent
<1>4. Budgeted(s, failures[t] + 1, MaxAttempts[t])
  BY <1>1, <1>2, AttemptsAssumption DEF Budgeted, Row
<1>5. QED  BY <1>2, <1>3, <1>4 DEF RowOK

-----------------------------------------------------------------------------
(* Every statement keeps the tables consistent. *)

LEMMA CreateKeeps ==
    ASSUME StoreInv, NEW t \in Tasks, NEW status \in {"pending", "scheduled"},
           NEW runAt \in {"past", "future"}, Create(t, status, runAt)
    PROVE  StoreInv'
<1> DEFINE row == [NoRow EXCEPT !.status = status, !.runAt = runAt]
<1>1. /\ row \in Row
      /\ row.status = status /\ row.worker = NoWorker /\ row.token = NoToken
      /\ row.attempt = 0 /\ row.lease = "none"
  BY DEF NoRow, NoToken, Row, TaskStatuses
<1>2. ASSUME NEW u \in Tasks PROVE TaskOK(u)'
  <2>1. CASE u = t
    <3>1. tasks'[u] = row /\ grants'[u] = grants[u] /\ failures'[u] = failures[u]
      BY <2>1 DEF Create, StoreInv, StoreTypeOK
    <3>2. failures[u] = 0
      BY <2>1 DEF Create, StoreInv, TaskOK, RowOK, Budgeted
    <3>3. Consistent(row, grants[u]) /\ Budgeted(row, failures[u], MaxAttempts[u])
      BY <1>1, <3>2, AttemptsAssumption DEF Consistent, Budgeted
    <3>4. QED  BY <1>1, <3>1, <3>3 DEF TaskOK, RowOK
  <2>2. CASE u # t
    BY <2>2 DEF Create, StoreInv, StoreTypeOK, TaskOK
  <2>3. QED  BY <2>1, <2>2
<1>3. StoreTypeOK'
  BY <1>1 DEF Create, StoreInv, StoreTypeOK
<1>4. QED  BY <1>2, <1>3 DEF StoreInv

LEMMA ClaimKeeps ==
    ASSUME StoreInv, NEW w \in WorkerIds, NEW picked, NEW locked, Claim(w, picked, locked)
    PROVE  StoreInv'
<1>1. ASSUME NEW u \in Tasks
      PROVE  TaskOK(u)' /\ grants'[u] \in Nat
  <2>1. CASE u \in picked
    <3>1. tasks[u].status \in {"pending", "retrying"} /\ tasks[u].runAt = "past"
      BY <2>1 DEF Claim, Claimable, InStatus
    <3>2. /\ tasks'[u] = Leased(u, w) /\ grants'[u] = grants[u] + 1
          /\ failures'[u] = failures[u]
      BY <2>1 DEF Claim
    <3>3. RowOK(Leased(u, w), grants[u] + 1, failures[u], MaxAttempts[u])
      BY <3>1, LeasedOK DEF StoreInv, StoreTypeOK
    <3>4. QED  BY <3>2, <3>3 DEF TaskOK, StoreInv, StoreTypeOK
  <2>2. CASE u \notin picked
    BY <2>2 DEF Claim, StoreInv, StoreTypeOK, TaskOK
  <2>3. QED  BY <2>1, <2>2
<1>2. StoreTypeOK'
  BY <1>1 DEF Claim, StoreInv, StoreTypeOK, TaskOK, RowOK
<1>3. QED  BY <1>1, <1>2 DEF StoreInv

LEMMA PromoteKeeps ==
    ASSUME StoreInv, PromoteScheduled
    PROVE  StoreInv'
<1>1. ASSUME NEW u \in Tasks PROVE TaskOK(u)'
  <2> DEFINE s == [tasks[u] EXCEPT !.status = "pending"]
  <2>1. CASE tasks[u].status = "scheduled" /\ tasks[u].runAt = "past"
    <3>1. tasks'[u] = s /\ grants' = grants /\ failures' = failures
      BY <2>1 DEF PromoteScheduled
    <3>2. /\ s \in Row /\ s.status = "pending"
          /\ s.worker = tasks[u].worker /\ s.token = tasks[u].token
          /\ s.attempt = tasks[u].attempt /\ s.lease = tasks[u].lease
      BY DEF StoreInv, StoreTypeOK, Row, TaskStatuses
    <3>3. Consistent(s, grants[u]) /\ Budgeted(s, failures[u], MaxAttempts[u])
      BY <2>1, <3>2 DEF StoreInv, TaskOK, RowOK, Consistent, Budgeted
    <3>4. QED  BY <3>1, <3>2, <3>3 DEF TaskOK, RowOK
  <2>2. CASE ~(tasks[u].status = "scheduled" /\ tasks[u].runAt = "past")
    BY <2>2 DEF PromoteScheduled, StoreInv, TaskOK
  <2>3. QED  BY <2>1, <2>2
<1>2. StoreTypeOK'
  BY <1>1 DEF PromoteScheduled, StoreInv, StoreTypeOK, TaskOK, RowOK
<1>3. QED  BY <1>1, <1>2 DEF StoreInv

\* recoverExpired and releaseRunningTasks both requeue a set of active tasks.
LEMMA RequeueKeeps ==
    ASSUME StoreInv, NEW S, \A t \in Tasks \cap S : tasks[t].status \in {"running", "retrying"},
           tasks' = [t \in Tasks |-> IF t \in S THEN Requeued(t) ELSE tasks[t]],
           UNCHANGED <<workers, grants, failures, acker>>
    PROVE  StoreInv'
<1>1. ASSUME NEW u \in Tasks PROVE TaskOK(u)'
  <2>1. CASE u \in S
    <3>1. RowOK(Requeued(u), grants[u], failures[u], MaxAttempts[u])
      BY <2>1, RequeuedOK DEF StoreInv, StoreTypeOK
    <3>2. tasks'[u] = Requeued(u)
      BY <2>1
    <3>3. QED  BY <3>1, <3>2 DEF TaskOK
  <2>2. CASE u \notin S
    BY <2>2 DEF StoreInv, TaskOK
  <2>3. QED  BY <2>1, <2>2
<1>2. StoreTypeOK'
  BY <1>1 DEF StoreInv, StoreTypeOK, TaskOK, RowOK
<1>3. QED  BY <1>1, <1>2 DEF StoreInv

LEMMA RecoverKeeps ==
    ASSUME StoreInv, RecoverExpired
    PROVE  StoreInv'
<1> DEFINE S == {t \in Tasks : /\ tasks[t].status \in {"running", "retrying"}
                               /\ tasks[t].lease = "expired"}
<1>1. tasks' = [t \in Tasks |-> IF t \in S THEN Requeued(t) ELSE tasks[t]]
  BY DEF RecoverExpired
<1>2. \A t \in Tasks \cap S : tasks[t].status \in {"running", "retrying"}
  OBVIOUS
<1> HIDE DEF S
<1>3. QED  BY <1>1, <1>2, RequeueKeeps DEF RecoverExpired

LEMMA ReleaseKeeps ==
    ASSUME StoreInv, NEW w, ReleaseRunningTasks(w)
    PROVE  StoreInv'
<1>1. \A t \in Tasks \cap ActiveOf(w) : tasks[t].status \in {"running", "retrying"}
  BY DEF ActiveOf, InStatus
<1>2. QED  BY <1>1, RequeueKeeps DEF ReleaseRunningTasks

\* The statements that write one row.
LEMMA OneRowKeeps ==
    ASSUME StoreInv, NEW t \in Tasks, NEW row, NEW g \in Nat, NEW n \in Nat,
           RowOK(row, g, n, MaxAttempts[t]),
           tasks' = [tasks EXCEPT ![t] = row],
           grants' = [grants EXCEPT ![t] = g],
           failures' = [failures EXCEPT ![t] = n],
           acker' \in [Tasks -> Ack], UNCHANGED workers
    PROVE  StoreInv'
<1>1. ASSUME NEW u \in Tasks PROVE TaskOK(u)'
  <2>1. CASE u = t
    BY <2>1 DEF StoreInv, StoreTypeOK, TaskOK
  <2>2. CASE u # t
    BY <2>2 DEF StoreInv, StoreTypeOK, TaskOK
  <2>3. QED  BY <2>1, <2>2
<1>2. StoreTypeOK'
  BY DEF StoreInv, StoreTypeOK, RowOK
<1>3. QED  BY <1>1, <1>2 DEF StoreInv

LEMMA ExtendKeeps ==
    ASSUME StoreInv, NEW t \in Tasks, NEW w, NEW k, ExtendLease(t, w, k)
    PROVE  StoreInv'
<1>1. CASE Holds(t, w, k)
  <2> DEFINE row == [tasks[t] EXCEPT !.lease = "live"]
  <2>1. /\ row \in Row /\ row.lease = "live" /\ row.status = tasks[t].status
        /\ row.worker = tasks[t].worker /\ row.token = tasks[t].token
        /\ row.attempt = tasks[t].attempt /\ row.runAt = tasks[t].runAt
    BY DEF StoreInv, StoreTypeOK, Row
  <2>2. RowOK(row, grants[t], failures[t], MaxAttempts[t])
    BY <1>1, <2>1 DEF Holds, StoreInv, TaskOK, RowOK, Consistent, Budgeted
  <2>3. tasks' = [tasks EXCEPT ![t] = row] /\ UNCHANGED <<workers, grants, failures, acker>>
    BY <1>1 DEF ExtendLease
  <2> HIDE DEF row
  <2>4. /\ grants' = [grants EXCEPT ![t] = grants[t]]
        /\ failures' = [failures EXCEPT ![t] = failures[t]]
        /\ acker' \in [Tasks -> Ack] /\ grants[t] \in Nat /\ failures[t] \in Nat
    BY <2>3 DEF StoreInv, StoreTypeOK
  <2>5. QED  BY <2>2, <2>3, <2>4, OneRowKeeps
<1>2. CASE ~Holds(t, w, k)
  BY <1>2 DEF ExtendLease, StoreInv, StoreTypeOK, TaskOK
<1>3. QED  BY <1>1, <1>2

LEMMA CompleteKeeps ==
    ASSUME StoreInv, NEW t \in Tasks, NEW w \in WorkerIds, NEW k \in Nat, Complete(t, w, k)
    PROVE  StoreInv'
<1>1. RowOK(Settled(t, "completed"), grants[t], failures[t], MaxAttempts[t])
  BY CompletedOK DEF Complete, Holds, StoreInv, StoreTypeOK
<1>2. /\ grants' = [grants EXCEPT ![t] = grants[t]]
      /\ failures' = [failures EXCEPT ![t] = failures[t]]
      /\ acker' \in [Tasks -> Ack] /\ grants[t] \in Nat /\ failures[t] \in Nat
      /\ tasks' = [tasks EXCEPT ![t] = Settled(t, "completed")] /\ UNCHANGED workers
  BY DEF Complete, StoreInv, StoreTypeOK, Ack
<1>3. QED  BY <1>1, <1>2, OneRowKeeps

\* The decision of fail() is taken on the attempt the row still has.
LEMMA FailKeeps ==
    ASSUME StoreInv, NEW t \in Tasks, NEW w \in WorkerIds, NEW k \in Nat,
           FailUpdate(t, w, k, tasks[t].attempt)
    PROVE  StoreInv'
<1> DEFINE row == IF tasks[t].attempt >= MaxAttempts[t]
                  THEN Settled(t, "dead_letter")
                  ELSE [Settled(t, "retrying") EXCEPT !.runAt = "future"]
<1>1. RowOK(row, grants[t], failures[t] + 1, MaxAttempts[t])
  BY DeadLetteredOK, RetryingOK DEF FailUpdate, Holds, StoreInv, StoreTypeOK
<1>2. /\ tasks' = [tasks EXCEPT ![t] = row]
      /\ UNCHANGED workers
      /\ grants' = [grants EXCEPT ![t] = grants[t]]
      /\ failures' = [failures EXCEPT ![t] = failures[t] + 1]
      /\ acker' \in [Tasks -> Ack]
  BY DEF FailUpdate, StoreInv, StoreTypeOK, Ack
<1> HIDE DEF row
<1>3. grants[t] \in Nat /\ failures[t] + 1 \in Nat
  BY DEF StoreInv, StoreTypeOK
<1>4. QED  BY <1>1, <1>2, <1>3, OneRowKeeps

LEMMA ReassignKeeps ==
    ASSUME StoreInv, NEW t \in Tasks, NEW w \in WorkerIds, ReassignUpdate(t, w)
    PROVE  StoreInv'
<1>1. tasks[t].status = "running" /\ tasks[t].runAt = "past"
  BY DEF ReassignUpdate, StoreInv, TaskOK, RowOK, Consistent
<1>2. RowOK(Leased(t, w), grants[t] + 1, failures[t], MaxAttempts[t])
  BY <1>1, LeasedOK DEF StoreInv, StoreTypeOK
<1>3. /\ grants[t] + 1 \in Nat /\ failures[t] \in Nat
      /\ grants' = [grants EXCEPT ![t] = grants[t] + 1]
      /\ failures' = [failures EXCEPT ![t] = failures[t]]
      /\ acker' \in [Tasks -> Ack] /\ UNCHANGED workers
      /\ tasks' = [tasks EXCEPT ![t] = Leased(t, w)]
  BY DEF ReassignUpdate, StoreInv, StoreTypeOK
<1>4. QED  BY <1>2, <1>3, OneRowKeeps

LEMMA RetryNowKeeps ==
    ASSUME StoreInv, NEW t \in Tasks, RetryNow(t)
    PROVE  StoreInv'
<1> DEFINE row == [NoRow EXCEPT !.status = "pending"]
<1>1. /\ row \in Row /\ row.status = "pending" /\ row.worker = NoWorker
      /\ row.token = NoToken /\ row.attempt = 0 /\ row.lease = "none"
  BY DEF NoRow, NoToken, Row, TaskStatuses
<1>2. RowOK(row, grants[t], 0, MaxAttempts[t])
  BY <1>1, AttemptsAssumption DEF RowOK, Consistent, Budgeted
<1>3. /\ tasks' = [tasks EXCEPT ![t] = row]
      /\ UNCHANGED workers
      /\ grants' = [grants EXCEPT ![t] = grants[t]]
      /\ failures' = [failures EXCEPT ![t] = 0]
      /\ acker' \in [Tasks -> Ack] /\ grants[t] \in Nat
  BY DEF RetryNow, StoreInv, StoreTypeOK
<1> HIDE DEF row
<1>4. QED  BY <1>2, <1>3, OneRowKeeps

LEMMA TruncateKeeps ==
    ASSUME StoreInv, Truncate
    PROVE  StoreInv'
<1>1. ASSUME NEW u \in Tasks PROVE TaskOK(u)'
  <2> DEFINE wiped == [NoRow EXCEPT !.status = "wiped"]
  <2>1. /\ wiped \in Row /\ wiped.status = "wiped" /\ wiped.token = NoToken
        /\ wiped.lease = "none"
    BY DEF NoRow, NoToken, Row, TaskStatuses
  <2>2. CASE tasks[u].status # "none"
    BY <2>1, <2>2 DEF Truncate, StoreInv, TaskOK, RowOK, Consistent, Budgeted
  <2>3. CASE tasks[u].status = "none"
    <3>1. /\ NoRow \in Row /\ NoRow.status = "none" /\ NoRow.token = NoToken
          /\ NoRow.lease = "none"
      BY DEF NoRow, NoToken, Row, TaskStatuses
    <3>2. QED  BY <2>3, <3>1 DEF Truncate, StoreInv, TaskOK, RowOK, Consistent, Budgeted
  <2>4. QED  BY <2>2, <2>3
<1>2. workers' \in [WorkerIds -> WorkerRow]
  BY DEF Truncate, StoreInv, StoreTypeOK, WorkerRow
<1>3. StoreTypeOK'
  BY <1>1, <1>2 DEF Truncate, StoreInv, StoreTypeOK, TaskOK, RowOK
<1>4. QED  BY <1>1, <1>3 DEF StoreInv

\* Statements on the workers table leave the tasks alone.
LEMMA WorkerStatementsKeep ==
    ASSUME StoreInv, NEW w \in WorkerIds,
           \/ Register(w) \/ Heartbeat(w) \/ SetOffline(w)
           \/ MarkTimedOut \/ DeleteOffline \/ HeartbeatGoesStale(w)
    PROVE  StoreInv' /\ UNCHANGED <<tasks, grants>>
<1>1. UNCHANGED <<tasks, grants, failures, acker>>
  BY DEF Register, Heartbeat, SetOffline, MarkTimedOut, DeleteOffline, HeartbeatGoesStale
<1>2. workers' \in [WorkerIds -> WorkerRow]
  <2>1. CASE Register(w)
    BY <2>1 DEF Register, StoreInv, StoreTypeOK, WorkerRow
  <2>2. CASE Heartbeat(w) \/ HeartbeatGoesStale(w)
    BY <2>2 DEF Heartbeat, HeartbeatGoesStale, StoreInv, StoreTypeOK, WorkerRow
  <2>3. CASE SetOffline(w)
    BY <2>3 DEF SetOffline, StoreInv, StoreTypeOK, WorkerRow
  <2>4. CASE MarkTimedOut \/ DeleteOffline
    BY <2>4 DEF MarkTimedOut, DeleteOffline, StoreInv, StoreTypeOK, WorkerRow
  <2>5. QED  BY <2>1, <2>2, <2>3, <2>4
<1>3. QED  BY <1>1, <1>2 DEF StoreInv, StoreTypeOK, TaskOK

LEMMA TimeKeeps ==
    ASSUME StoreInv, NEW t \in Tasks, LeaseLapses(t) \/ RunAtPasses(t)
    PROVE  StoreInv'
<1>1. CASE LeaseLapses(t)
  <2> DEFINE row == [tasks[t] EXCEPT !.lease = "expired"]
  <2>1. /\ row \in Row /\ row.lease = "expired" /\ row.status = tasks[t].status
        /\ row.worker = tasks[t].worker /\ row.token = tasks[t].token
        /\ row.attempt = tasks[t].attempt /\ row.runAt = tasks[t].runAt
    BY DEF StoreInv, StoreTypeOK, Row
  <2>2. RowOK(row, grants[t], failures[t], MaxAttempts[t])
    BY <1>1, <2>1 DEF LeaseLapses, StoreInv, TaskOK, RowOK, Consistent, Budgeted
  <2>3. tasks' = [tasks EXCEPT ![t] = row] /\ UNCHANGED <<workers, grants, failures, acker>>
    BY <1>1 DEF LeaseLapses
  <2> HIDE DEF row
  <2>4. /\ grants' = [grants EXCEPT ![t] = grants[t]]
        /\ failures' = [failures EXCEPT ![t] = failures[t]]
        /\ acker' \in [Tasks -> Ack] /\ grants[t] \in Nat /\ failures[t] \in Nat
    BY <2>3 DEF StoreInv, StoreTypeOK
  <2>5. QED  BY <2>2, <2>3, <2>4, OneRowKeeps
<1>2. CASE RunAtPasses(t)
  <2> DEFINE row == [tasks[t] EXCEPT !.runAt = "past"]
  <2>1. /\ row \in Row /\ row.runAt = "past" /\ row.status = tasks[t].status
        /\ row.worker = tasks[t].worker /\ row.token = tasks[t].token
        /\ row.attempt = tasks[t].attempt /\ row.lease = tasks[t].lease
    BY DEF StoreInv, StoreTypeOK, Row
  <2>2. RowOK(row, grants[t], failures[t], MaxAttempts[t])
    BY <1>2, <2>1 DEF RunAtPasses, StoreInv, TaskOK, RowOK, Consistent, Budgeted
  <2>3. tasks' = [tasks EXCEPT ![t] = row] /\ UNCHANGED <<workers, grants, failures, acker>>
    BY <1>2 DEF RunAtPasses
  <2> HIDE DEF row
  <2>4. /\ grants' = [grants EXCEPT ![t] = grants[t]]
        /\ failures' = [failures EXCEPT ![t] = failures[t]]
        /\ acker' \in [Tasks -> Ack] /\ grants[t] \in Nat /\ failures[t] \in Nat
    BY <2>3 DEF StoreInv, StoreTypeOK
  <2>5. QED  BY <2>2, <2>3, <2>4, OneRowKeeps
<1>3. QED  BY <1>1, <1>2

-----------------------------------------------------------------------------
(* Every action issues at most one statement. *)

\* Every statement but the one that extends a lease.
OtherStep ==
    \/ \E t \in Tasks, status \in {"pending", "scheduled"}, runAt \in {"past", "future"} :
           Create(t, status, runAt)
    \/ \E w \in WorkerIds, picked, locked \in SUBSET Tasks : Claim(w, picked, locked)
    \/ PromoteScheduled
    \/ RecoverExpired
    \/ \E w \in WorkerIds : ReleaseRunningTasks(w)
    \/ \E t \in Tasks, w \in WorkerIds, k \in Nat :
           Complete(t, w, k) \/ FailUpdate(t, w, k, tasks[t].attempt)
    \/ \E t \in Tasks, w \in WorkerIds : ReassignUpdate(t, w)
    \/ \E t \in Tasks : RetryNow(t) \/ LeaseLapses(t) \/ RunAtPasses(t)
    \/ Truncate
    \/ \E w \in WorkerIds : Register(w) \/ Heartbeat(w) \/ SetOffline(w) \/ HeartbeatGoesStale(w)
    \/ MarkTimedOut
    \/ DeleteOffline
    \/ UNCHANGED storeVars

StoreStep == OtherStep \/ \E t \in Tasks, w \in WorkerIds, k \in Nat : ExtendLease(t, w, k)

LEMMA StoreStepKeeps ==
    ASSUME StoreInv, StoreStep
    PROVE  StoreInv'
<1>1. CASE UNCHANGED storeVars
  BY <1>1 DEF storeVars, StoreInv, StoreTypeOK, TaskOK
<1>2. CASE MarkTimedOut \/ DeleteOffline
  <2>1. UNCHANGED <<tasks, grants, failures, acker>>
    BY <1>2 DEF MarkTimedOut, DeleteOffline
  <2>2. workers' \in [WorkerIds -> WorkerRow]
    BY <1>2 DEF MarkTimedOut, DeleteOffline, StoreInv, StoreTypeOK, WorkerRow
  <2>3. QED  BY <2>1, <2>2 DEF StoreInv, StoreTypeOK, TaskOK
<1>3. QED
  BY <1>1, <1>2, CreateKeeps, ClaimKeeps, PromoteKeeps, RecoverKeeps, ReleaseKeeps,
     ExtendKeeps, CompleteKeeps, FailKeeps, ReassignKeeps, RetryNowKeeps, TruncateKeeps,
     WorkerStatementsKeep, TimeKeeps
  DEF StoreStep, OtherStep

\* No statement changes the holder or the attempt of a running task unless it
\* issues a new token.
Steady(t) ==
    /\ grants'[t] >= grants[t]
    /\ tasks'[t].status = "running" /\ tasks'[t].token <= grants[t]
         => /\ tasks[t].status = "running"
            /\ tasks'[t].worker = tasks[t].worker
            /\ tasks'[t].token = tasks[t].token
            /\ tasks'[t].attempt = tasks[t].attempt

LEMMA StoreStepSteady ==
    ASSUME StoreInv, StoreStep, NEW u \in Tasks
    PROVE  Steady(u)
<1>0. /\ tasks \in [Tasks -> Row] /\ grants \in [Tasks -> Nat]
      /\ grants[u] \in Nat /\ tasks[u] \in Row
  BY DEF StoreInv, StoreTypeOK
<1>1. CASE \E t \in Tasks, status \in {"pending", "scheduled"}, runAt \in {"past", "future"} :
               Create(t, status, runAt)
  BY <1>0, <1>1 DEF Create, NoRow, Steady
<1>2. CASE \E w \in WorkerIds, picked, locked \in SUBSET Tasks : Claim(w, picked, locked)
  BY <1>0, <1>2 DEF Claim, Leased, Steady
<1>3. CASE PromoteScheduled \/ RecoverExpired \/ \E w \in WorkerIds : ReleaseRunningTasks(w)
  <2>1. CASE PromoteScheduled
    BY <1>0, <2>1 DEF PromoteScheduled, Steady, Row
  <2>2. CASE RecoverExpired \/ \E w \in WorkerIds : ReleaseRunningTasks(w)
    <3>1. Requeued(u).status = "pending"
      BY <1>0 DEF Requeued, Row
    <3>2. (tasks'[u] = tasks[u] \/ tasks'[u] = Requeued(u)) /\ grants' = grants
      BY <2>2 DEF RecoverExpired, ReleaseRunningTasks
    <3>3. QED  BY <1>0, <3>1, <3>2 DEF Steady
  <2>3. QED  BY <1>3, <2>1, <2>2
<1>4. CASE \E t \in Tasks, w \in WorkerIds, k \in Nat : ExtendLease(t, w, k)
  BY <1>0, <1>4 DEF ExtendLease, Steady, Row
<1>5. CASE \E t \in Tasks, w \in WorkerIds, k \in Nat :
               Complete(t, w, k) \/ FailUpdate(t, w, k, tasks[t].attempt)
  <2>1. PICK t \in Tasks, w \in WorkerIds, k \in Nat :
               Complete(t, w, k) \/ FailUpdate(t, w, k, tasks[t].attempt)
    BY <1>5
  <2>2. /\ Settled(t, "completed").status = "completed"
        /\ Settled(t, "dead_letter").status = "dead_letter"
        /\ [Settled(t, "retrying") EXCEPT !.runAt = "future"].status = "retrying"
    BY <1>0 DEF Settled, Row
  <2>3. (tasks'[u] = tasks[u] \/ tasks'[u].status # "running") /\ grants' = grants
    BY <1>0, <2>1, <2>2 DEF Complete, FailUpdate
  <2>4. QED  BY <1>0, <2>3 DEF Steady
<1>6. CASE \E t \in Tasks, w \in WorkerIds : ReassignUpdate(t, w)
  BY <1>0, <1>6 DEF ReassignUpdate, Leased, Steady
<1>7. CASE \E t \in Tasks : RetryNow(t) \/ LeaseLapses(t) \/ RunAtPasses(t)
  BY <1>0, <1>7 DEF RetryNow, LeaseLapses, RunAtPasses, NoRow, Steady, Row
<1>8. CASE Truncate
  BY <1>0, <1>8 DEF Truncate, NoRow, Steady
<1>9. CASE UNCHANGED <<tasks, grants>>
  BY <1>0, <1>9 DEF Steady
<1>10. QED
  BY <1>1, <1>2, <1>3, <1>4, <1>5, <1>6, <1>7, <1>8, <1>9
  DEF StoreStep, OtherStep, storeVars, Register, Heartbeat, SetOffline, HeartbeatGoesStale,
      MarkTimedOut, DeleteOffline

\* A lease that had expired is alive again.
Revived(t) ==
    /\ tasks[t].lease = "expired" /\ tasks'[t].lease = "live"
    /\ tasks'[t].token = tasks[t].token

\* A new lease has a new token; a row that loses its lease has none.
LEMMA OthersReviveNone ==
    ASSUME StoreInv, OtherStep, NEW u \in Tasks
    PROVE  ~Revived(u)
<1>0. /\ tasks \in [Tasks -> Row] /\ grants[u] \in Nat /\ tasks[u] \in Row
      /\ tasks[u].lease = "expired" => tasks[u].status = "running" /\ tasks[u].token = grants[u]
  BY DEF StoreInv, StoreTypeOK, TaskOK, RowOK, Consistent
<1>1. CASE \E t \in Tasks, status \in {"pending", "scheduled"}, runAt \in {"past", "future"} :
               Create(t, status, runAt)
  BY <1>0, <1>1 DEF Create, NoRow, Revived
<1>2. CASE \E w \in WorkerIds, picked, locked \in SUBSET Tasks : Claim(w, picked, locked)
  BY <1>0, <1>2 DEF Claim, Leased, Revived
<1>3. CASE PromoteScheduled
  <2>1. tasks'[u] = tasks[u] \/ tasks[u].status = "scheduled"
    BY <1>3 DEF PromoteScheduled
  <2>2. QED  BY <1>0, <2>1 DEF Revived
<1>4. CASE RecoverExpired \/ \E w \in WorkerIds : ReleaseRunningTasks(w)
  <2>1. Requeued(u).lease = "none"
    BY <1>0 DEF Requeued, Row
  <2>2. tasks'[u] = tasks[u] \/ tasks'[u] = Requeued(u)
    BY <1>4 DEF RecoverExpired, ReleaseRunningTasks
  <2>3. QED  BY <1>0, <2>1, <2>2 DEF Revived
<1>5. CASE \E t \in Tasks, w \in WorkerIds, k \in Nat :
               Complete(t, w, k) \/ FailUpdate(t, w, k, tasks[t].attempt)
  <2>1. PICK t \in Tasks, w \in WorkerIds, k \in Nat :
               Complete(t, w, k) \/ FailUpdate(t, w, k, tasks[t].attempt)
    BY <1>5
  <2>2. /\ Settled(t, "completed").lease = "none"
        /\ Settled(t, "dead_letter").lease = "none"
        /\ [Settled(t, "retrying") EXCEPT !.runAt = "future"].lease = "none"
    BY <1>0 DEF Settled, Row
  <2>3. tasks'[u] = tasks[u] \/ tasks'[u].lease = "none"
    BY <1>0, <2>1, <2>2 DEF Complete, FailUpdate
  <2>4. QED  BY <2>3 DEF Revived
<1>6. CASE \E t \in Tasks, w \in WorkerIds : ReassignUpdate(t, w)
  BY <1>0, <1>6 DEF ReassignUpdate, Leased, Revived
<1>7. CASE \E t \in Tasks : RetryNow(t) \/ LeaseLapses(t) \/ RunAtPasses(t)
  BY <1>0, <1>7 DEF RetryNow, LeaseLapses, RunAtPasses, NoRow, Revived, Row
<1>8. CASE Truncate
  BY <1>0, <1>8 DEF Truncate, NoRow, Revived
<1>9. CASE UNCHANGED tasks
  BY <1>0, <1>9 DEF Revived
<1>10. QED
  BY <1>1, <1>2, <1>3, <1>4, <1>5, <1>6, <1>7, <1>8, <1>9
  DEF OtherStep, storeVars, Register, Heartbeat, SetOffline, HeartbeatGoesStale,
      MarkTimedOut, DeleteOffline

-----------------------------------------------------------------------------
(* Every statement is a step of the contract, or changes nothing of it. *)

LEMMA StoreStepLegal ==
    ASSUME StoreInv, StoreInv', StoreStep, NEW u \in Tasks
    PROVE  Contract!Legal(LifeOf(u), LifeOf(u)')
<1> DEFINE r == tasks[u]
           s == tasks'[u]
           ack == [worker |-> acker[u].worker, epoch |-> acker[u].token]
           L(phase, holder) == [phase |-> phase, epoch |-> grants[u], holder |-> holder, ack |-> ack]
<1>0. /\ tasks \in [Tasks -> Row] /\ tasks' \in [Tasks -> Row]
      /\ r \in Row /\ s \in Row /\ grants[u] \in Nat
      /\ grants \in [Tasks -> Nat] /\ acker \in [Tasks -> Ack]
  BY DEF StoreInv, StoreTypeOK
<1>1. CASE /\ UNCHANGED <<grants, acker>>
           /\ s.status = r.status /\ s.worker = r.worker
  BY <1>1 DEF LifeOf, Contract!Legal
<1>2. ASSUME UNCHANGED <<grants, acker>>, r.status = "running", s.status = "pending"
      PROVE  Contract!Legal(LifeOf(u), LifeOf(u)')
  <2>1. LifeOf(u) = L("held", r.worker) /\ LifeOf(u)' = L("waiting", NoWorker)
    BY <1>2 DEF LifeOf
  <2>2. QED  BY <2>1 DEF Contract!Legal, Contract!Revoked, Contract!Life
<1>3. ASSUME UNCHANGED <<grants, acker>>,
             r.status \in {"scheduled", "pending", "retrying"},
             s.status \in {"scheduled", "pending", "retrying"}
      PROVE  Contract!Legal(LifeOf(u), LifeOf(u)')
  BY <1>3 DEF LifeOf, Contract!Legal
<1>4. ASSUME UNCHANGED <<grants, acker>>, r.status = "none",
             s.status \in {"scheduled", "pending"}
      PROVE  Contract!Legal(LifeOf(u), LifeOf(u)')
  <2>1. LifeOf(u) = L("absent", NoWorker) /\ LifeOf(u)' = L("waiting", NoWorker)
    BY <1>4 DEF LifeOf
  <2>2. QED  BY <2>1 DEF Contract!Legal, Contract!Inserted, Contract!Life
<1>5. ASSUME UNCHANGED <<grants, acker>>, r.status = "dead_letter", s.status = "pending"
      PROVE  Contract!Legal(LifeOf(u), LifeOf(u)')
  <2>1. LifeOf(u) = L("dead", NoWorker) /\ LifeOf(u)' = L("waiting", NoWorker)
    BY <1>5 DEF LifeOf
  <2>2. QED  BY <2>1 DEF Contract!Legal, Contract!Revived, Contract!Life
<1>6. ASSUME UNCHANGED <<grants, acker>>, r.status # "none", s.status = "wiped"
      PROVE  Contract!Legal(LifeOf(u), LifeOf(u)')
  <2>1. /\ LifeOf(u)' = L("wiped", NoWorker)
        /\ LifeOf(u).phase # "absent"
        /\ \E phase, holder : LifeOf(u) = L(phase, holder)
    BY <1>0, <1>6 DEF LifeOf, Row, TaskStatuses
  <2>2. QED  BY <2>1 DEF Contract!Legal, Contract!Wiped, Contract!Life
<1>7. ASSUME NEW w \in WorkerIds, UNCHANGED acker, s = Leased(u, w),
             grants'[u] = grants[u] + 1,
             r.status \in {"pending", "retrying", "running"}
      PROVE  Contract!Legal(LifeOf(u), LifeOf(u)')
  <2>1. s.status = "running" /\ s.worker = w
    BY <1>7 DEF Leased
  <2>2. LifeOf(u)' = [phase |-> "held", epoch |-> grants[u] + 1, holder |-> w, ack |-> ack]
    BY <1>7, <2>1 DEF LifeOf
  <2>3. \E phase \in {"waiting", "held"} : \E holder : LifeOf(u) = L(phase, holder)
    BY <1>7 DEF LifeOf
  <2>4. QED  BY <2>2, <2>3 DEF Contract!Legal, Contract!Granted, Contract!Life
<1>8. ASSUME NEW w \in WorkerIds, NEW k \in Nat, Holds(u, w, k), UNCHANGED grants,
             acker'[u] = [worker |-> w, token |-> k],
             s.status \in {"completed", "dead_letter", "retrying"}
      PROVE  Contract!Legal(LifeOf(u), LifeOf(u)')
  <2>1. k = grants[u]
    BY <1>8 DEF Holds, StoreInv, TaskOK, RowOK, Consistent
  <2>2. LifeOf(u) = L("held", w)
    BY <1>8 DEF LifeOf, Holds
  <2>3. \E phase \in {"done", "waiting", "dead"} :
           LifeOf(u)' = [phase |-> phase, epoch |-> grants[u], holder |-> NoWorker,
                         ack |-> [worker |-> w, epoch |-> grants[u]]]
    BY <1>8, <2>1 DEF LifeOf
  <2>4. QED  BY <2>2, <2>3 DEF Contract!Legal, Contract!Acknowledged, Contract!Life
<1> HIDE DEF L, ack
<1>9. CASE \E t \in Tasks, status \in {"pending", "scheduled"}, runAt \in {"past", "future"} :
               Create(t, status, runAt)
  BY <1>0, <1>1, <1>4, <1>9 DEF Create, NoRow
<1>10. CASE \E w \in WorkerIds, picked, locked \in SUBSET Tasks : Claim(w, picked, locked)
  <2>1. PICK w \in WorkerIds, picked, locked \in SUBSET Tasks : Claim(w, picked, locked)
    BY <1>10
  <2>2. CASE u \in picked
    BY <1>7, <2>1, <2>2 DEF Claim, Claimable, InStatus
  <2>3. CASE u \notin picked
    BY <2>1, <2>3 DEF Claim, LifeOf, Contract!Legal
  <2>4. QED  BY <2>2, <2>3
<1>11. CASE PromoteScheduled
  BY <1>0, <1>1, <1>3, <1>11 DEF PromoteScheduled, Row
<1>12. CASE RecoverExpired \/ \E w \in WorkerIds : ReleaseRunningTasks(w)
  <2>1. Requeued(u).status = "pending"
    BY <1>0 DEF Requeued, Row
  <2>2. /\ s = r \/ (s = Requeued(u) /\ r.status \in {"running", "retrying"})
        /\ UNCHANGED <<grants, acker>>
    BY <1>12 DEF RecoverExpired, ReleaseRunningTasks, ActiveOf, InStatus
  <2>3. QED  BY <1>1, <1>2, <1>3, <2>1, <2>2
<1>13. CASE \E t \in Tasks, w \in WorkerIds, k \in Nat : ExtendLease(t, w, k)
  BY <1>0, <1>1, <1>13 DEF ExtendLease, Row
<1>14. CASE \E t \in Tasks, w \in WorkerIds, k \in Nat :
                Complete(t, w, k) \/ FailUpdate(t, w, k, tasks[t].attempt)
  <2>1. PICK t \in Tasks, w \in WorkerIds, k \in Nat :
               Complete(t, w, k) \/ FailUpdate(t, w, k, tasks[t].attempt)
    BY <1>14
  <2>2. CASE t = u
    <3>1. /\ Settled(u, "completed").status = "completed"
          /\ Settled(u, "dead_letter").status = "dead_letter"
          /\ [Settled(u, "retrying") EXCEPT !.runAt = "future"].status = "retrying"
      BY <1>0 DEF Settled, Row
    <3>2. /\ Holds(u, w, k) /\ UNCHANGED grants
          /\ acker'[u] = [worker |-> w, token |-> k]
          /\ s.status \in {"completed", "dead_letter", "retrying"}
      BY <1>0, <2>1, <2>2, <3>1 DEF Complete, FailUpdate
    <3>3. QED  BY <1>8, <3>2
  <2>3. CASE t # u
    BY <1>0, <2>1, <2>3 DEF Complete, FailUpdate, LifeOf, Contract!Legal
  <2>4. QED  BY <2>2, <2>3
<1>15. CASE \E t \in Tasks, w \in WorkerIds : ReassignUpdate(t, w)
  <2>1. PICK t \in Tasks, w \in WorkerIds : ReassignUpdate(t, w)
    BY <1>15
  <2>2. CASE t = u
    BY <1>0, <1>7, <2>1, <2>2 DEF ReassignUpdate
  <2>3. CASE t # u
    BY <1>0, <2>1, <2>3 DEF ReassignUpdate, LifeOf, Contract!Legal
  <2>4. QED  BY <2>2, <2>3
<1>16. CASE \E t \in Tasks : RetryNow(t) \/ LeaseLapses(t) \/ RunAtPasses(t)
  <2>1. CASE \E t \in Tasks : RetryNow(t)
    BY <1>0, <1>1, <1>5, <2>1 DEF RetryNow, NoRow
  <2>2. CASE \E t \in Tasks : LeaseLapses(t) \/ RunAtPasses(t)
    BY <1>0, <1>1, <2>2 DEF LeaseLapses, RunAtPasses, Row
  <2>3. QED  BY <1>16, <2>1, <2>2
<1>17. CASE Truncate
  <2>1. CASE r.status = "none"
    <3>1. s.status = "none" /\ UNCHANGED <<grants, acker>>
      BY <1>17, <2>1 DEF Truncate, NoRow
    <3>2. LifeOf(u)' = LifeOf(u)
      BY <2>1, <3>1 DEF LifeOf
    <3>3. QED  BY <3>2 DEF Contract!Legal
  <2>2. CASE r.status # "none"
    BY <1>6, <1>17, <2>2 DEF Truncate, NoRow
  <2>3. QED  BY <2>1, <2>2
<1>18. CASE UNCHANGED <<tasks, grants, acker>>
  BY <1>1, <1>18
<1>19. QED
  BY <1>9, <1>10, <1>11, <1>12, <1>13, <1>14, <1>15, <1>16, <1>17, <1>18
  DEF StoreStep, OtherStep, storeVars, Register, Heartbeat, SetOffline, HeartbeatGoesStale,
      MarkTimedOut, DeleteOffline

=============================================================================
