------------------------------ MODULE TaskStore ------------------------------
(***************************************************************************)
(* The two tables of the Vitals server that decide what runs where (tasks  *)
(* and workers) and the SQL statements the repositories issue on them.     *)
(*                                                                         *)
(* Every operator below is ONE statement: PostgreSQL runs it atomically,   *)
(* and under READ COMMITTED an UPDATE re-evaluates its WHERE clause on the *)
(* newest version of a row.  Handlers that issue several statements are    *)
(* composed in the modules that EXTEND this one.                           *)
(*                                                                         *)
(* Time is abstracted to what the statements compare: a lease is "live" or *)
(* "expired" (lease_expires_at < now()), run_at is "past" or "future", the *)
(* last heartbeat of a worker is "recent" or "old" (beyond the timeout).   *)
(* The clocks of the server and of the database are taken to agree.        *)
(* reserved_for is left out: no statement ever sets it but to NULL.        *)
(***************************************************************************)
EXTENDS Integers, FiniteSets

CONSTANTS
    Tasks,        \* the task ids INSERTs may use
    WorkerIds,    \* the worker ids INSERTs may use
    Names,        \* worker names (the unique key of the workers table)
    NameOf,       \* the name a worker id is inserted under
    MaxAttempts,  \* tasks.max_attempts, per task
    Priority,     \* tasks.priority, per task
    MaxGrants,    \* bound: leases issued per task
    MaxBatch,     \* the route clamps a claim's batch to 1..10
    NoWorker      \* NULL in assigned_worker_id

ASSUME TasksAssumption == IsFiniteSet(Tasks)
ASSUME NamesAssumption == NameOf \in [WorkerIds -> Names]
ASSUME AttemptsAssumption == MaxAttempts \in [Tasks -> Nat \ {0}]
ASSUME PriorityAssumption == Priority \in [Tasks -> Int]
ASSUME BoundsAssumption == MaxGrants \in Nat /\ MaxBatch \in Nat \ {0}
ASSUME NoWorkerAssumption == NoWorker \notin WorkerIds

VARIABLES
    tasks,     \* the tasks table, one row per id ("none": not inserted yet)
    workers,   \* the workers table
    grants,    \* gen_random_uuid(): leases issued so far; the n-th token is n
    failures,  \* history: accepted failures since creation or retryNow
    acker      \* history: who acknowledged the task last, with which token

storeVars == <<tasks, workers, grants, failures, acker>>

NoToken == 0

TaskStatuses == {"scheduled", "pending", "running", "retrying",
                 "completed", "dead_letter"}

Row == [status : TaskStatuses \cup {"none", "wiped"},
        worker : WorkerIds \cup {NoWorker},
        token : Nat, attempt : Nat,
        lease : {"none", "live", "expired"}, runAt : {"past", "future"}]

WorkerRow == [status : {"none", "online", "offline", "deleted"},
              lastBeat : {"recent", "old"}]

Ack == [worker : WorkerIds \cup {NoWorker}, token : Nat]

NoRow == [status |-> "none", worker |-> NoWorker, token |-> NoToken,
          attempt |-> 0, lease |-> "none", runAt |-> "past"]

StoreTypeOK ==
    /\ tasks \in [Tasks -> Row]
    /\ workers \in [WorkerIds -> WorkerRow]
    /\ grants \in [Tasks -> Nat]
    /\ failures \in [Tasks -> Nat]
    /\ acker \in [Tasks -> Ack]

StoreInit ==
    /\ tasks = [t \in Tasks |-> NoRow]
    /\ workers = [w \in WorkerIds |-> [status |-> "none", lastBeat |-> "recent"]]
    /\ grants = [t \in Tasks |-> 0]
    /\ failures = [t \in Tasks |-> 0]
    /\ acker = [t \in Tasks |-> [worker |-> NoWorker, token |-> NoToken]]

-----------------------------------------------------------------------------
(* Reading the tables. *)

InStatus(S) == {t \in Tasks : tasks[t].status \in S}

\* Rows a worker is busy with, as runningCount and deleteOffline count them.
ActiveOf(w) == {t \in InStatus({"running", "retrying"}) : tasks[t].worker = w}

ClaimablePending ==  \* mutant: status = 'pending' for status IN ('pending','retrying')
    {t \in InStatus({"pending"}) : tasks[t].runAt = "past" /\ grants[t] < MaxGrants}

Claimable ==
    {t \in InStatus({"pending", "retrying"}) :
        tasks[t].runAt = "past" /\ grants[t] < MaxGrants}

HoldsAnyToken(t, w, k) ==  \* mutant: no lease_token in the WHERE clauses
    /\ tasks[t].status = "running"
    /\ tasks[t].worker = w

\* The fence of complete, fail and extendLease.
Holds(t, w, k) ==
    /\ tasks[t].status = "running"
    /\ tasks[t].worker = w
    /\ tasks[t].token = k

Existing == {w \in WorkerIds : workers[w].status \in {"online", "offline"}}

-----------------------------------------------------------------------------
(* Rows as the SET clauses leave them. *)

\* claim and reassign: a fresh token, one more attempt, a fresh lease.
Leased(t, w) ==
    [status |-> "running", worker |-> w, token |-> grants[t] + 1,
     attempt |-> tasks[t].attempt + 1, lease |-> "live", runAt |-> tasks[t].runAt]

RequeuedToNobody(t) ==  \* mutant: an empty worker id in place of NULL
    [tasks[t] EXCEPT !.status = "pending", !.worker = "",
                     !.token = NoToken, !.lease = "none"]

RequeuedLater(t) ==  \* mutant: run_at is set to a later moment
    [tasks[t] EXCEPT !.status = "pending", !.worker = NoWorker,
                     !.token = NoToken, !.lease = "none", !.runAt = "future"]

\* recoverExpired and releaseRunningTasks.
Requeued(t) ==
    [tasks[t] EXCEPT !.status = "pending", !.worker = NoWorker,
                     !.token = NoToken, !.lease = "none"]

SettledKeepsToken(t, status) ==  \* mutant: lease_token is not cleared
    [tasks[t] EXCEPT !.status = status, !.lease = "none"]

\* complete and fail: the worker id stays, the lease goes.
Settled(t, status) ==
    [tasks[t] EXCEPT !.status = status, !.token = NoToken, !.lease = "none"]

-----------------------------------------------------------------------------
(* TasksRepo *)

\* INSERT of POST /api/tasks.  A scheduledAt in the past is accepted.
Create(t, status, runAt) ==
    /\ tasks[t].status = "none"
    /\ status = "pending" => runAt = "past"
    /\ tasks' = [tasks EXCEPT ![t] = [NoRow EXCEPT !.status = status, !.runAt = runAt]]
    /\ UNCHANGED <<workers, grants, failures, acker>>

\* The claim statement: ORDER BY priority DESC, run_at LIMIT batch.  run_at is
\* only past or future here, so ties are broken freely.  SKIP LOCKED passes over the
\* rows another statement holds: it matters for a row that statement leaves
\* claimable (locked); the others are as if that statement had run first.
\* The worker id is not looked up: any id may claim.
Claim(w, picked, locked) ==
    /\ picked # {}
    /\ Cardinality(picked) <= MaxBatch
    /\ picked \subseteq Claimable \ locked
    /\ \A t \in picked, u \in Claimable \ (picked \cup locked) :
           Priority[u] <= Priority[t]
    /\ tasks' = [t \in Tasks |-> IF t \in picked THEN Leased(t, w) ELSE tasks[t]]
    /\ grants' = [t \in Tasks |-> IF t \in picked THEN grants[t] + 1 ELSE grants[t]]
    /\ UNCHANGED <<workers, failures, acker>>

PromoteScheduled ==
    /\ tasks' = [t \in Tasks |->
                   IF tasks[t].status = "scheduled" /\ tasks[t].runAt = "past"
                   THEN [tasks[t] EXCEPT !.status = "pending"] ELSE tasks[t]]
    /\ UNCHANGED <<workers, grants, failures, acker>>

RecoverOnlyRetrying ==  \* mutant: status = 'retrying' for status IN ('running','retrying')
    /\ tasks' = [t \in Tasks |->
                   IF tasks[t].status = "retrying" /\ tasks[t].lease = "expired"
                   THEN Requeued(t) ELSE tasks[t]]
    /\ UNCHANGED <<workers, grants, failures, acker>>

RecoverExpired ==
    /\ tasks' = [t \in Tasks |->
                   IF tasks[t].status \in {"running", "retrying"} /\ tasks[t].lease = "expired"
                   THEN Requeued(t) ELSE tasks[t]]
    /\ UNCHANGED <<workers, grants, failures, acker>>

ExtendAnyToken(t, w, k) ==  \* mutant: no lease_token in the WHERE clause
    /\ tasks' = IF tasks[t].status = "running" /\ tasks[t].worker = w
                THEN [tasks EXCEPT ![t].lease = "live"] ELSE tasks
    /\ UNCHANGED <<workers, grants, failures, acker>>

\* A late heartbeat may revive an expired lease the reaper has not seen yet.
ExtendLease(t, w, k) ==
    /\ tasks' = IF Holds(t, w, k) THEN [tasks EXCEPT ![t].lease = "live"] ELSE tasks
    /\ UNCHANGED <<workers, grants, failures, acker>>

CompleteAnyToken(t, w, k) ==  \* mutant: no lease_token in the WHERE clause
    /\ tasks[t].status = "running" /\ tasks[t].worker = w
    /\ tasks' = [tasks EXCEPT ![t] = Settled(t, "completed")]
    /\ acker' = [acker EXCEPT ![t] = [worker |-> w, token |-> k]]
    /\ UNCHANGED <<workers, grants, failures>>

Complete(t, w, k) ==
    /\ Holds(t, w, k)
    /\ tasks' = [tasks EXCEPT ![t] = Settled(t, "completed")]
    /\ acker' = [acker EXCEPT ![t] = [worker |-> w, token |-> k]]
    /\ UNCHANGED <<workers, grants, failures>>

FailOneTooMany(t, w, k, attemptRead) ==  \* mutant: > for >=
    /\ Holds(t, w, k)
    /\ tasks' = [tasks EXCEPT ![t] =
                   IF attemptRead > MaxAttempts[t]
                   THEN Settled(t, "dead_letter")
                   ELSE [Settled(t, "retrying") EXCEPT !.runAt = "future"]]
    /\ failures' = [failures EXCEPT ![t] = @ + 1]
    /\ acker' = [acker EXCEPT ![t] = [worker |-> w, token |-> k]]
    /\ UNCHANGED <<workers, grants>>

\* The UPDATE of fail(), decided on the attempt its SELECT read.  The
\* backoff is at least the base delay, so the row is not due yet.
FailUpdate(t, w, k, attemptRead) ==
    /\ Holds(t, w, k)
    /\ tasks' = [tasks EXCEPT ![t] =
                   IF attemptRead >= MaxAttempts[t]
                   THEN Settled(t, "dead_letter")
                   ELSE [Settled(t, "retrying") EXCEPT !.runAt = "future"]]
    /\ failures' = [failures EXCEPT ![t] = @ + 1]
    /\ acker' = [acker EXCEPT ![t] = [worker |-> w, token |-> k]]
    /\ UNCHANGED <<workers, grants>>

ReassignSameToken(t, to) ==  \* mutant: no fresh lease_token
    /\ tasks[t].status = "running"
    /\ grants[t] < MaxGrants
    /\ tasks' = [tasks EXCEPT ![t] = [Leased(t, to) EXCEPT !.token = tasks[t].token]]
    /\ UNCHANGED <<workers, grants, failures, acker>>

\* The UPDATE of reassign(): guarded by the status only.
ReassignUpdate(t, to) ==
    /\ tasks[t].status = "running"
    /\ grants[t] < MaxGrants
    /\ tasks' = [tasks EXCEPT ![t] = Leased(t, to)]
    /\ grants' = [grants EXCEPT ![t] = @ + 1]
    /\ UNCHANGED <<workers, failures, acker>>

RetryNow(t) ==
    /\ tasks[t].status = "dead_letter"
    /\ tasks' = [tasks EXCEPT ![t] = [NoRow EXCEPT !.status = "pending"]]
    /\ failures' = [failures EXCEPT ![t] = 0]
    /\ UNCHANGED <<workers, grants, acker>>

-----------------------------------------------------------------------------
(* WorkersRepo *)

\* INSERT ... ON CONFLICT (name): the live row of that name, or a fresh id.
Register(w) ==
    /\ workers[w].status # "deleted"
    /\ workers[w].status = "none" =>
           \A v \in Existing : NameOf[v] # NameOf[w]
    /\ workers' = [workers EXCEPT ![w] = [status |-> "online", lastBeat |-> "recent"]]
    /\ UNCHANGED <<tasks, grants, failures, acker>>

\* The UPDATE of heartbeat(): only a row that is still online is refreshed.
Heartbeat(w) ==
    /\ workers[w].status = "online"
    /\ workers' = [workers EXCEPT ![w].lastBeat = "recent"]
    /\ UNCHANGED <<tasks, grants, failures, acker>>

SetOffline(w) ==
    /\ workers' = [workers EXCEPT ![w].status =
                     IF w \in Existing THEN "offline" ELSE @]
    /\ UNCHANGED <<tasks, grants, failures, acker>>

MarkFresh ==  \* mutant: last_heartbeat_at > $1 for last_heartbeat_at < $1
    /\ workers' = [w \in WorkerIds |->
                     IF workers[w].status = "online" /\ workers[w].lastBeat = "recent"
                     THEN [workers[w] EXCEPT !.status = "offline"] ELSE workers[w]]
    /\ UNCHANGED <<tasks, grants, failures, acker>>

MarkTimedOut ==
    /\ workers' = [w \in WorkerIds |->
                     IF workers[w].status = "online" /\ workers[w].lastBeat = "old"
                     THEN [workers[w] EXCEPT !.status = "offline"] ELSE workers[w]]
    /\ UNCHANGED <<tasks, grants, failures, acker>>

ReleaseRunningTasks(w) ==
    /\ tasks' = [t \in Tasks |-> IF t \in ActiveOf(w) THEN Requeued(t) ELSE tasks[t]]
    /\ UNCHANGED <<workers, grants, failures, acker>>

DeleteOffline ==
    /\ workers' = [w \in WorkerIds |->
                     IF workers[w].status = "offline" /\ ActiveOf(w) = {}
                     THEN [workers[w] EXCEPT !.status = "deleted"] ELSE workers[w]]
    /\ UNCHANGED <<tasks, grants, failures, acker>>

\* TRUNCATE of the chaos reset.  Ids are uuids: none is used again.
Truncate ==
    /\ tasks' = [t \in Tasks |->
                   IF tasks[t].status = "none" THEN NoRow
                   ELSE [NoRow EXCEPT !.status = "wiped"]]
    /\ workers' = [w \in WorkerIds |->
                     IF w \in Existing THEN [status |-> "deleted", lastBeat |-> "recent"]
                     ELSE workers[w]]
    /\ UNCHANGED <<grants, failures, acker>>

-----------------------------------------------------------------------------
(* The passage of time, as now() sees it. *)

LeaseLapses(t) ==
    /\ tasks[t].lease = "live"
    /\ tasks' = [tasks EXCEPT ![t].lease = "expired"]
    /\ UNCHANGED <<workers, grants, failures, acker>>

RunAtPasses(t) ==
    /\ tasks[t].status \in {"scheduled", "pending", "retrying"}
    /\ tasks[t].runAt = "future"
    /\ tasks' = [tasks EXCEPT ![t].runAt = "past"]
    /\ UNCHANGED <<workers, grants, failures, acker>>

HeartbeatGoesStale(w) ==
    /\ workers[w].status = "online"
    /\ workers[w].lastBeat = "recent"
    /\ workers' = [workers EXCEPT ![w].lastBeat = "old"]
    /\ UNCHANGED <<tasks, grants, failures, acker>>

-----------------------------------------------------------------------------
(* What the rows say of the life of a task: the mapping to TaskLifecycle. *)

LifeOf(t) ==
    LET r == tasks[t] IN
    [phase  |-> CASE r.status = "none" -> "absent"
                  [] r.status \in {"scheduled", "pending", "retrying"} -> "waiting"
                  [] r.status = "running" -> "held"
                  [] r.status = "completed" -> "done"
                  [] r.status = "dead_letter" -> "dead"
                  [] OTHER -> "wiped",
     epoch  |-> grants[t],
     holder |-> IF r.status = "running" THEN r.worker ELSE NoWorker,
     ack    |-> [worker |-> acker[t].worker, epoch |-> acker[t].token]]

Contract == INSTANCE TaskLifecycle WITH
    Holders <- WorkerIds, NoHolder <- NoWorker, life <- [t \in Tasks |-> LifeOf(t)]

=============================================================================
