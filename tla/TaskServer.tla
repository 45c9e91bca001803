----------------------------- MODULE TaskServer ------------------------------
(***************************************************************************)
(* The coordinator: the HTTP handlers, the scheduler and the reaper of     *)
(* apps/server, interleaved at every await between two SQL statements.     *)
(*                                                                         *)
(* A handler of one statement is one action.  A handler of several keeps   *)
(* what it has read, and what is left to do, in a set of requests in       *)
(* flight, and any other handler may run in between:                       *)
(*    failing   fail() after its SELECT, before its UPDATE                 *)
(*    moving    reassign() after its SELECT, before its UPDATE             *)
(*    stopping  POST /shutdown after its SELECT: release, then set offline *)
(*    beating   leases a heartbeat request has still to extend             *)
(*    reaping   a reaper tick between markTimedOut and recoverExpired      *)
(*                                                                         *)
(* Clients are the most general ones: any worker id may present any token  *)
(* ever issued for a task, at any time, as often as it likes.  That covers *)
(* late, duplicated and reordered requests, and requests of the dead.  A   *)
(* member of a set of requests stands for one or more identical ones, so   *)
(* the end of one may leave the member in place (Served).                  *)
(* The rows the handlers publish to the event feed are not modelled here.  *)
(***************************************************************************)
EXTENDS TaskStore

CONSTANT MaxInFlight  \* bound: requests between two of their statements

ASSUME InFlightAssumption == MaxInFlight \in Nat

VARIABLES failing, moving, stopping, beating, reaping

handlerVars == <<failing, moving, stopping, beating, reaping>>
vars == <<storeVars, handlerVars>>

Tokens(t) == 1..grants[t]

FailRequest == [task : Tasks, worker : WorkerIds, token : Nat, attempt : Nat]
MoveRequest == [task : Tasks, from : WorkerIds, to : WorkerIds]
StopRequest == [worker : WorkerIds, step : {"release", "offline"}]
BeatRequest == [task : Tasks, worker : WorkerIds, token : Nat]

InFlight == Cardinality(failing) + Cardinality(moving)
              + Cardinality(stopping) + Cardinality(beating)

HasRoom == InFlight < MaxInFlight

\* What a set of requests may be once one like r has been served.
Served(requests, r) == {requests, requests \ {r}}

TypeOK ==
    /\ StoreTypeOK
    /\ failing \subseteq FailRequest
    /\ moving \subseteq MoveRequest
    /\ stopping \subseteq StopRequest
    /\ beating \subseteq BeatRequest
    /\ reaping \in BOOLEAN

Init ==
    /\ StoreInit
    /\ failing = {} /\ moving = {} /\ stopping = {} /\ beating = {}
    /\ reaping = FALSE

-----------------------------------------------------------------------------
(* Requests served by one statement. *)

CreateTask(t, status, runAt) ==
    /\ Create(t, status, runAt)
    /\ UNCHANGED handlerVars

\* A release in flight may hold the lock of a retrying row it leaves claimable.
LockedByRelease ==
    {t \in InStatus({"retrying"}) :
        [worker |-> tasks[t].worker, step |-> "release"] \in stopping}

ClaimTasks(w, picked) ==
    /\ \E locked \in SUBSET LockedByRelease : Claim(w, picked, locked)
    /\ UNCHANGED handlerVars

CompleteTask(t, w, k) ==
    /\ Complete(t, w, k)
    /\ UNCHANGED handlerVars

RetryTask(t) ==
    /\ RetryNow(t)
    /\ UNCHANGED handlerVars

RegisterWorker(w) ==
    /\ Register(w)
    /\ UNCHANGED handlerVars

ClearOfflineWorkers ==
    /\ DeleteOffline
    /\ UNCHANGED handlerVars

ResetAll ==
    /\ Truncate
    /\ UNCHANGED handlerVars

-----------------------------------------------------------------------------
(* POST /api/tasks/:id/fail: SELECT, decide, UPDATE. *)

FailRead(t, w, k) ==
    /\ HasRoom
    /\ tasks[t].worker = w /\ tasks[t].token = k
    /\ failing' = failing \cup
         {[task |-> t, worker |-> w, token |-> k, attempt |-> tasks[t].attempt]}
    /\ UNCHANGED <<storeVars, moving, stopping, beating, reaping>>

FailWrite(f) ==
    /\ IF Holds(f.task, f.worker, f.token)
       THEN FailUpdate(f.task, f.worker, f.token, f.attempt)
       ELSE UNCHANGED storeVars
    /\ failing' \in Served(failing, f)
    /\ UNCHANGED <<moving, stopping, beating, reaping>>

-----------------------------------------------------------------------------
(* POST /api/admin/chaos/tasks/:id/reassign: SELECT, check, UPDATE. *)

MoveRead(t, from, to) ==
    /\ HasRoom
    /\ tasks[t].status = "running"
    /\ tasks[t].worker = from
    /\ moving' = moving \cup {[task |-> t, from |-> from, to |-> to]}
    /\ UNCHANGED <<storeVars, failing, stopping, beating, reaping>>

MoveWrite(m) ==
    /\ IF tasks[m.task].status = "running"
       THEN ReassignUpdate(m.task, m.to)
       ELSE UNCHANGED storeVars
    /\ moving' \in Served(moving, m)
    /\ UNCHANGED <<failing, stopping, beating, reaping>>

-----------------------------------------------------------------------------
(* POST /api/workers/:id/shutdown: SELECT, release the tasks, set offline. *)

StopRead(w) ==
    /\ HasRoom
    /\ w \in Existing
    /\ stopping' = stopping \cup {[worker |-> w, step |-> "release"]}
    /\ UNCHANGED <<storeVars, failing, moving, beating, reaping>>

StopRelease(s) ==
    /\ s.step = "release"
    /\ ReleaseRunningTasks(s.worker)
    /\ \E rest \in Served(stopping, s) :
         stopping' = rest \cup {[s EXCEPT !.step = "offline"]}
    /\ UNCHANGED <<failing, moving, beating, reaping>>

StopOffline(s) ==
    /\ s.step = "offline"
    /\ SetOffline(s.worker)
    /\ stopping' \in Served(stopping, s)
    /\ UNCHANGED <<failing, moving, beating, reaping>>

-----------------------------------------------------------------------------
(* POST /api/workers/:id/heartbeat: refresh the worker, then extend the    *)
(* presented leases one by one.                                            *)

\* A heartbeat that presents several leases is as good as several heartbeats
\* at the same moment that present one each.
BeatStart(w, leases) ==
    /\ InFlight + Cardinality(leases) <= MaxInFlight
    /\ Heartbeat(w)
    /\ beating' = beating \cup leases
    /\ UNCHANGED <<failing, moving, stopping, reaping>>

BeatExtend(b) ==
    /\ ExtendLease(b.task, b.worker, b.token)
    /\ beating' \in Served(beating, b)
    /\ UNCHANGED <<failing, moving, stopping, reaping>>

-----------------------------------------------------------------------------
(* Timers of the server. *)

SchedulerTick ==
    /\ PromoteScheduled
    /\ UNCHANGED handlerVars

\* setInterval does not wait for the tick before: a tick may begin while
\* another is between its statements.
ReaperMark ==
    /\ MarkTimedOut
    /\ reaping' = TRUE
    /\ UNCHANGED <<failing, moving, stopping, beating>>

ReaperRecover ==
    /\ reaping
    /\ RecoverExpired
    /\ reaping' = FALSE
    /\ UNCHANGED <<failing, moving, stopping, beating>>

\* The process dies: requests in flight are lost, committed rows stay.  The
\* next boot runs a reaper tick of its own.
Restart ==
    /\ failing' = {} /\ moving' = {} /\ stopping' = {} /\ beating' = {}
    /\ reaping' = FALSE
    /\ UNCHANGED storeVars

TimePasses ==
    /\ \/ \E t \in Tasks : LeaseLapses(t) \/ RunAtPasses(t)
       \/ \E w \in WorkerIds : HeartbeatGoesStale(w)
    /\ UNCHANGED handlerVars

-----------------------------------------------------------------------------

TaskRequest(t) ==
    \/ CreateTask(t, "pending", "past")
    \/ \E runAt \in {"past", "future"} : CreateTask(t, "scheduled", runAt)
    \/ RetryTask(t)
    \/ \E w \in WorkerIds, k \in Tokens(t) : CompleteTask(t, w, k) \/ FailRead(t, w, k)
    \/ \E from, to \in WorkerIds : MoveRead(t, from, to)

WorkerRequest(w) ==
    \/ RegisterWorker(w)
    \/ \E picked \in SUBSET Tasks : ClaimTasks(w, picked)
    \/ \E t \in Tasks : \E k \in Tokens(t) :
           BeatStart(w, {[task |-> t, worker |-> w, token |-> k]})
    \/ BeatStart(w, {})
    \/ StopRead(w)

Continue ==
    \/ \E f \in failing : FailWrite(f)
    \/ \E m \in moving : MoveWrite(m)
    \/ \E s \in stopping : StopRelease(s) \/ StopOffline(s)
    \/ \E b \in beating : BeatExtend(b)

Next ==
    \/ \E t \in Tasks : TaskRequest(t)
    \/ \E w \in WorkerIds : WorkerRequest(w)
    \/ Continue
    \/ SchedulerTick \/ ReaperMark \/ ReaperRecover
    \/ ClearOfflineWorkers \/ ResetAll
    \/ Restart
    \/ TimePasses

Spec == Init /\ [][Next]_vars

-----------------------------------------------------------------------------
(* Safety *)

\* The columns of a task row never disagree: exactly a running row has a token
\* and a lease, the token is the newest ever issued, and a row waiting for its
\* first or next claim after a recovery belongs to no worker.  Every statement
\* sets only some of the columns; the fences and the reaper rely on all.
LeaseConsistent ==
    \A t \in Tasks : LET r == tasks[t] IN
        /\ r.status = "running" <=> r.token # NoToken
        /\ r.status = "running" <=> r.lease # "none"
        /\ r.status = "running" => r.token = grants[t] /\ r.attempt >= 1 /\ r.runAt = "past"
        /\ r.status \in {"running", "retrying", "completed", "dead_letter"}
              => r.worker # NoWorker
        /\ r.status \in {"scheduled", "pending"} => r.worker = NoWorker

\* fail() decides on the attempt its SELECT read (tasks.ts:244-247) and the
\* UPDATE does not compare it again.  Whenever that UPDATE would still match,
\* the decision is not stale: whatever changes the attempt changes the token.
FailDecisionFresh ==
    \A f \in failing :
        Holds(f.task, f.worker, f.token) => tasks[f.task].attempt = f.attempt

\* The retry budget of fail(): a task never has more failures accepted than
\* maxAttempts, is not put back after the attempt that exhausts the budget,
\* and is not dead-lettered before maxAttempts attempts were started.
RetryBudget ==
    \A t \in Tasks :
        /\ failures[t] <= MaxAttempts[t]
        /\ tasks[t].status = "retrying" => tasks[t].attempt < MaxAttempts[t]
        /\ tasks[t].status = "dead_letter" => tasks[t].attempt >= MaxAttempts[t]

\* A heartbeat of a former holder never keeps the lease of the present one
\* alive: a lease comes back to life only at the request of a heartbeat that
\* presents its own token (tasks.ts:205-218).
KeepsLeaseOfHolder ==
    \A t \in Tasks :
        (/\ tasks[t].lease = "expired" /\ tasks'[t].lease = "live"
         /\ tasks'[t].token = tasks[t].token)
        => [task |-> t, worker |-> tasks[t].worker, token |-> tasks[t].token] \in beating

LeaseKeptByHolder == [][KeepsLeaseOfHolder]_vars

-----------------------------------------------------------------------------
(* Refinement *)

\* The coordinator implements the contract of TaskLifecycle: one holder at a
\* time, acknowledgements fenced by the newest lease, completion final.
KeepsContract == Contract!Spec

-----------------------------------------------------------------------------
(* Liveness *)

\* The timers of the server fire again and again (setInterval), queries are
\* answered, and the clock advances.  Clients owe nothing.
Fairness ==
    /\ WF_vars(ReaperMark /\ ~reaping) /\ WF_vars(ReaperRecover)
    /\ WF_vars(SchedulerTick)
    /\ \A t \in Tasks : WF_vars((LeaseLapses(t) \/ RunAtPasses(t)) /\ UNCHANGED handlerVars)

FairSpec == Spec /\ Fairness

\* Assumptions of the liveness properties.
ServerStaysUp == <>[][~Restart]_vars

HeartbeatsCease(t) == <>[][\A b \in beating : b.task = t => ~BeatExtend(b)]_vars

\* README.md:45-57, worker death: once nobody extends the lease of a task any
\* more, the task does not stay running: the reaper takes it from the worker
\* that holds it, however many handlers of other requests run in between.
NoTaskStuckRunning ==
    ServerStaysUp =>
        \A t \in Tasks : HeartbeatsCease(t) => []<>(tasks[t].status # "running")

\* What the WHERE clause of claim() accepts: queued or backing off, and due.
Offered(r) == r.status \in {"pending", "retrying"} /\ r.runAt = "past"

\* A task that waits (scheduled, queued or backing off) becomes claimable,
\* unless it is wiped, and stays so until a claim leases it: no promotion,
\* recovery, release or claim that skips its row takes it back from there.
WaitingTaskOffered ==
    /\ \A t \in Tasks :
          tasks[t].status \in {"scheduled", "pending", "retrying"}
            ~> Offered(tasks[t]) \/ tasks[t].status = "wiped"
    /\ [][\A t \in Tasks : Offered(tasks[t]) =>
             \/ Offered(tasks'[t])
             \/ tasks'[t].status = "running" /\ grants'[t] = grants[t] + 1
             \/ tasks'[t].status = "wiped"]_vars

-----------------------------------------------------------------------------
(* What the code does not keep. *)

\* tasks.ts:284 says reassign returns null when "the task's current worker
\* doesn't match `fromWorkerId`", yet the UPDATE does not compare the worker.
MovesOnlyFromHolder ==
    \A m \in moving : MoveWrite(m) /\ tasks'[m.task].token # tasks[m.task].token
                         => tasks[m.task].worker = m.from

ReassignFromHolder == [][MovesOnlyFromHolder]_vars

\* API.md:13 says a task is dead-lettered "after maxAttempts failures", yet
\* attempt also counts leases that ended without any failure being reported.
DeadLetterAfterFailures ==
    \A t \in Tasks :
        tasks[t].status = "dead_letter" => failures[t] = MaxAttempts[t]

=============================================================================
