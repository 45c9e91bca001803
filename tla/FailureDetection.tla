-------------------------- MODULE FailureDetection ---------------------------
(***************************************************************************)
(* Failure detection with a clock: the intervals of config.ts, the two       *)
(* loops of a worker process (worker.ts), its calls on their way to the      *)
(* server and back, and the reaper.                                         *)
(*                                                                         *)
(* Time is discrete and every timer is the age of what it measures.  Tick    *)
(* makes everything older by one unit, and may not pass a moment at which    *)
(* something is due: a timer of a live process, the end of a call that may    *)
(* take Delay, a sweep of the reaper.  Everything else takes no time but may   *)
(* be interleaved.  WorkerFleet has the same processes without a clock, with  *)
(* lost calls, capacities, shutdown and pauses; it assumes what is shown       *)
(* here, that leases and heartbeats somebody tends do not run out.            *)
(*                                                                         *)
(* The workers have capacity 1 (chaosSupervisor.ts:48); a lease token is       *)
(* named by its task and attempt, since every lease counts one attempt.       *)
(***************************************************************************)
EXTENDS Naturals, FiniteSets

CONSTANTS
    Workers, NoWorker,
    Tasks, NoTask,
    Beat,           \* heartbeatIntervalMs, in units of the clock
    Silence,        \* heartbeatTimeoutMs
    Lease,          \* leaseTimeoutMs
    Sweep,          \* reaperIntervalMs
    Poll,           \* claimPollMs
    Work,           \* how long demo.sleep runs at most, demo.crash until it kills
    MaxAttempts,    \* maxAttempts of every task
    Backoff,        \* backoffMs() of an attempt that failed
    Delay,          \* how long a call may take to the server, and its answer back
    Skips,          \* ticks of the reaper that may fail in a row
    MaxTroubles     \* bound: kills from outside, stalls, ticks of the reaper that fail

ASSUME NamesAssumption == NoWorker \notin Workers /\ NoTask \notin Tasks
ASSUME UnitsAssumption ==
    /\ {Silence, Lease, Delay, Skips, Work} \subseteq Nat
    /\ {Beat, Sweep, Poll, MaxAttempts} \subseteq Nat \ {0}
    /\ MaxTroubles \in Nat

\* What the intervals of the configuration must satisfy; nothing in the code
\* compares them.
ASSUME TimingAssumption ==
    /\ Beat + 2 * Delay <= Silence
    /\ Beat + 4 * Delay <= Lease
    /\ Silence + 2 * Delay <= Lease

\* A failed task that is claimed again while a heartbeat with its old lease is
\* under way would be aborted by the answer.  The default (a second) leaves room
\* for calls of a third of a second each way.
ASSUME RetryAssumption ==
    /\ Backoff \in [1..MaxAttempts -> Nat]
    /\ \A n \in 1..MaxAttempts : 3 * Delay < Backoff[n]

VARIABLES
    proc,           \* the process of a worker
    beat,           \* its heartbeat loop
    claim,          \* its claim loop
    job,            \* its execution, and the lease in its map
    online,         \* workers.status = 'online'
    silence,        \* age of workers.last_heartbeat_at
    row,            \* tasks
    sweep,          \* the reaper
    deadFor,        \* how long a process has been dead
    stalls, kills, throws

process == <<proc, beat, claim, job>>
troubles == <<stalls, kills, throws>>
vars == <<process, online, silence, row, sweep, deadFor, troubles>>

NoLease == [task |-> NoTask, attempt |-> 0]
LeaseSet == [task : Tasks \cup {NoTask}, attempt : Nat]
NoJob == [at |-> "none", age |-> 0, lease |-> NoLease]
NoRow == [status |-> "none", kind |-> "demo.echo", attempt |-> 0,
          holder |-> NoWorker, age |-> 0]

\* The task types of handlers.ts; demo.fail_until_attempt with the
\* failUntilAttempt of its payload.
Kinds == {"demo.echo", "demo.sleep", "demo.fail_until_1", "demo.fail_until_2",
          "demo.always_fail", "demo.crash"}

\* A lapsed lease is swept at the latest after that time.
Overdue == Lease + Sweep * (Skips + 1)

BeatSet == [at : {"rest", "ask", "answer", "enroll"}, age : Nat, lease : LeaseSet,
            word : {"ok", "revoked", "unknown"}]
ClaimSet == [at : {"rest", "ask", "answer"}, age : Nat, lease : LeaseSet]
JobSet == [at : {"none", "run", "aborted", "ack", "done"}, age : Nat, lease : LeaseSet]
RowSet == [status : {"none", "pending", "running", "retrying", "completed", "dead_letter"},
           kind : Kinds, attempt : Nat, holder : Workers \cup {NoWorker}, age : Nat]

TypeOK ==
    /\ proc \in [Workers -> {"steady", "stalled", "woken", "dead", "lost"}]
    /\ beat \in [Workers -> BeatSet]
    /\ claim \in [Workers -> ClaimSet]
    /\ job \in [Workers -> JobSet]
    /\ online \in [Workers -> BOOLEAN]
    /\ silence \in [Workers -> Nat]
    /\ row \in [Tasks -> RowSet]
    /\ sweep \in [at : {"idle", "marked"}, age : 0..Sweep, skipped : 0..Skips]
    /\ deadFor \in [Workers -> Nat]
    /\ {stalls, kills, throws} \subseteq 0..MaxTroubles

\* `steady': has never been stopped.  `dead' was steady until it died.
Live(w) == proc[w] \in {"steady", "woken"}
Dead(w) == proc[w] \in {"dead", "lost"}

\* The row of the task is still that of the lease of w.
Owns(w, l) ==
    /\ l.task \in Tasks
    /\ row[l.task].status = "running" /\ row[l.task].holder = w
    /\ row[l.task].attempt = l.attempt

\* Any phase the loops may be in when the first task is created.
Init ==
    /\ proc = [w \in Workers |-> "steady"]
    /\ \E phase \in [Workers -> 0..Beat] :
        /\ beat = [w \in Workers |-> [at |-> "rest", age |-> phase[w],
                                      lease |-> NoLease, word |-> "ok"]]
        /\ silence = phase
    /\ claim = [w \in Workers |-> [at |-> "rest", age |-> 0, lease |-> NoLease]]
    /\ job = [w \in Workers |-> NoJob]
    /\ online = [w \in Workers |-> TRUE]
    /\ row = [t \in Tasks |-> NoRow]
    /\ sweep = [at |-> "idle", age |-> 0, skipped |-> 0]
    /\ deadFor = [w \in Workers |-> 0]
    /\ stalls = 0 /\ kills = 0 /\ throws = 0

\* create().
Create(t, kind) ==
    /\ row[t].status = "none"
    /\ row' = [row EXCEPT ![t] = [status |-> "pending", kind |-> kind, attempt |-> 0,
                                  holder |-> NoWorker, age |-> 0]]
    /\ UNCHANGED <<process, online, silence, sweep, deadFor, troubles>>

-----------------------------------------------------------------------------
(* The heartbeat loop: heartbeat() with the leases of the map, a new         *)
(* registration when it is refused, and a pause of Beat.                     *)

\* currentLeases(): the entry goes with the answer to the acknowledgement, or
\* when the lease is revoked.
Held(w) == IF job[w].at \in {"run", "ack", "done"} THEN job[w].lease ELSE NoLease

BeatPhase(at, lease, word) == [at |-> at, age |-> 0, lease |-> lease, word |-> word]

\* Mutant: the heartbeat does not carry the lease.
SendBareBeat(w) ==
    /\ Live(w) /\ beat[w].at = "rest" /\ beat[w].age = Beat
    /\ beat' = [beat EXCEPT ![w] = BeatPhase("ask", NoLease, "ok")]
    /\ UNCHANGED <<proc, claim, job, online, silence, row, sweep, deadFor, troubles>>

SendBeat(w) ==
    /\ Live(w) /\ beat[w].at = "rest" /\ beat[w].age = Beat
    /\ beat' = [beat EXCEPT ![w] = BeatPhase("ask", Held(w), "ok")]
    /\ UNCHANGED <<proc, claim, job, online, silence, row, sweep, deadFor, troubles>>

Extended(r) == [r EXCEPT !.age = 0]

\* workers.heartbeat() touches an online row only; extendLease() follows.
ServeBeat(w) ==
    LET l == beat[w].lease
    IN /\ beat[w].at = "ask"
       /\ \/ /\ online[w]
             /\ silence' = [silence EXCEPT ![w] = 0]
             /\ \/ /\ Owns(w, l)
                   /\ row' = [row EXCEPT ![l.task] = Extended(@)]
                   /\ beat' = [beat EXCEPT ![w] = BeatPhase("answer", l, "ok")]
                \/ /\ ~Owns(w, l)
                   /\ beat' = [beat EXCEPT ![w] = BeatPhase("answer", l,
                                    IF l = NoLease THEN "ok" ELSE "revoked")]
                   /\ UNCHANGED row
          \/ /\ ~online[w]
             /\ beat' = [beat EXCEPT ![w] = BeatPhase("answer", l, "unknown")]
             /\ UNCHANGED <<silence, row>>
       /\ UNCHANGED <<proc, claim, job, online, sweep, deadFor, troubles>>

\* A revoked lease aborts whatever runs for the task.
HearBeat(w) ==
    /\ Live(w) /\ beat[w].at = "answer"
    /\ beat' = [beat EXCEPT ![w] = BeatPhase(
                    IF beat[w].word = "unknown" THEN "enroll" ELSE "rest", NoLease, "ok")]
    /\ job' = [job EXCEPT ![w] =
                IF beat[w].word = "revoked" /\ @.at = "run" /\ @.lease.task = beat[w].lease.task
                THEN [@ EXCEPT !.at = "aborted"] ELSE @]
    /\ UNCHANGED <<proc, claim, online, silence, row, sweep, deadFor, troubles>>

\* POST /api/workers: the row of the name is online again.
ServeEnroll(w) ==
    /\ beat[w].at = "enroll"
    /\ online' = [online EXCEPT ![w] = TRUE]
    /\ silence' = [silence EXCEPT ![w] = 0]
    /\ beat' = [beat EXCEPT ![w] = BeatPhase("answer", NoLease, "ok")]
    /\ UNCHANGED <<proc, claim, job, row, sweep, deadFor, troubles>>

-----------------------------------------------------------------------------
(* The claim loop, and executions                                            *)

ClaimPhase(at, lease) == [at |-> at, age |-> 0, lease |-> lease]
JobPhase(at, lease) == [at |-> at, age |-> 0, lease |-> lease]

\* Mutant: the task kills whoever executes it.
KillsAlways(kind, n) == kind = "demo.crash"

\* handlers.ts: which attempts end with their process, which take their time
\* before they end, and which throw.
Kills(kind, n) == kind = "demo.crash" /\ n = 1
Slow(kind, n) == kind = "demo.sleep" \/ Kills(kind, n)

Fails(kind, n) ==
    \/ kind = "demo.always_fail"
    \/ kind = "demo.fail_until_1" /\ n <= 1
    \/ kind = "demo.fail_until_2" /\ n <= 2

\* A process that executes something asks for nothing.
SendClaim(w) ==
    /\ Live(w) /\ claim[w].at = "rest" /\ claim[w].age = Poll
    /\ claim' = [claim EXCEPT ![w] =
                    ClaimPhase(IF job[w] = NoJob THEN "ask" ELSE "rest", NoLease)]
    /\ UNCHANGED <<proc, beat, job, online, silence, row, sweep, deadFor, troubles>>

Granted(r, w) == [status |-> "running", kind |-> r.kind, attempt |-> r.attempt + 1,
                  holder |-> w, age |-> 0]

\* status IN ('pending', 'retrying') AND run_at <= now().
Claimable(t) ==
    \/ row[t].status = "pending"
    \/ row[t].status = "retrying" /\ row[t].age >= Backoff[row[t].attempt]

ServeClaim(w) ==
    /\ claim[w].at = "ask"
    /\ \/ \E t \in Tasks :
            /\ Claimable(t)
            /\ row' = [row EXCEPT ![t] = Granted(@, w)]
            /\ claim' = [claim EXCEPT ![w] = ClaimPhase("answer",
                            [task |-> t, attempt |-> row[t].attempt + 1])]
       \/ /\ \A t \in Tasks : ~Claimable(t)
          /\ claim' = [claim EXCEPT ![w] = ClaimPhase("answer", NoLease)]
          /\ UNCHANGED row
    /\ UNCHANGED <<proc, beat, job, online, silence, sweep, deadFor, troubles>>

HearClaim(w) ==
    /\ Live(w) /\ claim[w].at = "answer"
    /\ claim' = [claim EXCEPT ![w] = ClaimPhase("rest", NoLease)]
    /\ job' = [job EXCEPT ![w] = IF claim[w].lease = NoLease THEN @
                  ELSE JobPhase("run", claim[w].lease)]
    /\ UNCHANGED <<proc, beat, online, silence, row, sweep, deadFor, troubles>>

\* demo.crash kills its process in the first attempt (handlers.ts:39-51).
Crashes(w) ==
    /\ job[w].at \in {"run", "aborted"}
    /\ Kills(row[job[w].lease.task].kind, job[w].lease.attempt)

\* The handler ends: complete() or, when it has thrown, fail() is called, unless
\* the execution was aborted.
Finish(w) ==
    /\ Live(w) /\ job[w].at \in {"run", "aborted"} /\ ~Crashes(w)
    /\ job' = [job EXCEPT ![w] =
                IF @.at = "run" THEN JobPhase("ack", @.lease) ELSE NoJob]
    /\ UNCHANGED <<proc, beat, claim, online, silence, row, sweep, deadFor, troubles>>

\* What complete() and fail() make of a row they match.  TaskStore has the two
\* statements of fail().
Acknowledged(r) ==
    IF ~Fails(r.kind, r.attempt) THEN [r EXCEPT !.status = "completed"]
    ELSE IF r.attempt >= MaxAttempts THEN [r EXCEPT !.status = "dead_letter"]
    ELSE [r EXCEPT !.status = "retrying", !.age = 0]

ServeAck(w) ==
    /\ job[w].at = "ack"
    /\ job' = [job EXCEPT ![w] = JobPhase("done", @.lease)]
    /\ row' = IF Owns(w, job[w].lease)
              THEN [row EXCEPT ![job[w].lease.task] = Acknowledged(@)] ELSE row
    /\ UNCHANGED <<proc, beat, claim, online, silence, sweep, deadFor, troubles>>

HearAck(w) ==
    /\ Live(w) /\ job[w].at = "done"
    /\ job' = [job EXCEPT ![w] = NoJob]
    /\ UNCHANGED <<proc, beat, claim, online, silence, row, sweep, deadFor, troubles>>

-----------------------------------------------------------------------------
(* Processes die, or stop running for a while (a suspended machine)           *)

Die(w) ==
    /\ proc' = [proc EXCEPT ![w] = IF @ = "steady" THEN "dead" ELSE "lost"]
    /\ UNCHANGED <<beat, claim, job, online, silence, row, sweep, deadFor>>

Crash(w) == Live(w) /\ Crashes(w) /\ job[w].age = Work /\ Die(w) /\ UNCHANGED troubles

Kill(w) ==
    /\ ~Dead(w) /\ stalls + kills + throws < MaxTroubles
    /\ kills' = kills + 1
    /\ Die(w) /\ UNCHANGED <<stalls, throws>>

Stall(w) ==
    /\ Live(w) /\ stalls + kills + throws < MaxTroubles
    /\ proc' = [proc EXCEPT ![w] = "stalled"] /\ stalls' = stalls + 1
    /\ UNCHANGED <<beat, claim, job, online, silence, row, sweep, deadFor, kills, throws>>

Wake(w) ==
    /\ proc[w] = "stalled"
    /\ proc' = [proc EXCEPT ![w] = "woken"]
    /\ UNCHANGED <<beat, claim, job, online, silence, row, sweep, deadFor, troubles>>

-----------------------------------------------------------------------------
(* Reaper.tick(): markTimedOut(), then recoverExpired().                       *)

SweepDue == sweep.at = "idle" /\ sweep.age = Sweep

\* Mutant: a worker that is silent for exactly the timeout counts as dead.
TimedOutEarly(w) == online[w] /\ silence[w] >= Silence

TimedOut(w) == online[w] /\ silence[w] > Silence

\* Mutant: a lease counts from the moment its worker is taken for dead.
LapsedLate(t) == row[t].status = "running" /\ row[t].age > Lease + Silence

Lapsed(t) == row[t].status = "running" /\ row[t].age > Lease
Requeued(r) == [status |-> "pending", kind |-> r.kind, attempt |-> r.attempt,
                holder |-> NoWorker, age |-> 0]

\* Mutant: expired leases are recovered first.
RecoverFirst ==
    /\ SweepDue
    /\ row' = [t \in Tasks |-> IF Lapsed(t) THEN Requeued(row[t]) ELSE row[t]]
    /\ sweep' = [sweep EXCEPT !.at = "marked"]
    /\ UNCHANGED <<process, online, silence, deadFor, troubles>>

ReaperMark ==
    /\ SweepDue
    /\ online' = [w \in Workers |-> online[w] /\ ~TimedOut(w)]
    /\ sweep' = [sweep EXCEPT !.at = "marked"]
    /\ UNCHANGED <<process, silence, row, deadFor, troubles>>

ReaperRecover ==
    /\ sweep.at = "marked"
    /\ row' = [t \in Tasks |-> IF Lapsed(t) THEN Requeued(row[t]) ELSE row[t]]
    /\ sweep' = [at |-> "idle", age |-> 0, skipped |-> 0]
    /\ UNCHANGED <<process, online, silence, deadFor, troubles>>

\* An UPDATE fails, or an event INSERT of markTimedOut() does: the rest of the
\* tick is left out, timer and process go on (reaper.ts:20-22).
ReaperThrows ==
    /\ SweepDue \/ sweep.at = "marked"
    /\ sweep.skipped < Skips /\ stalls + kills + throws < MaxTroubles
    /\ throws' = throws + 1
    /\ sweep' = [at |-> "idle", age |-> 0, skipped |-> sweep.skipped + 1]
    /\ UNCHANGED <<process, online, silence, row, deadFor, stalls, kills>>

-----------------------------------------------------------------------------
(* Time                                                                      *)

BeatLimit(at) == IF at = "rest" THEN Beat ELSE Delay
ClaimLimit(at) == IF at = "rest" THEN Poll ELSE Delay
JobLimit(j) ==
    IF j.at \notin {"run", "aborted"} THEN Delay
    ELSE IF Slow(row[j.lease.task].kind, j.lease.attempt) THEN Work ELSE 0

\* Calls on their way to the server are served whatever becomes of the caller.
MayWait(w, loop, limit) ==
    \/ loop.at = "none" \/ loop.age < limit
    \/ ~Live(w) /\ loop.at \notin {"ask", "enroll", "ack"}

\* The timer of the reaper has fired when its interval has passed.
SweepMayWait == sweep.at = "idle" /\ sweep.age < Sweep

Older(n, limit) == IF n < limit THEN n + 1 ELSE n
Aged(loop, limit) == [loop EXCEPT !.age = Older(@, limit)]
OlderRow(r) ==
    CASE r.status = "running" -> [r EXCEPT !.age = @ + 1]
      [] r.status = "retrying" -> Aged(r, Backoff[r.attempt])
      [] OTHER -> r

Tick ==
    /\ \A w \in Workers :
        /\ MayWait(w, beat[w], BeatLimit(beat[w].at))
        /\ MayWait(w, claim[w], ClaimLimit(claim[w].at))
        /\ MayWait(w, job[w], JobLimit(job[w]))
    /\ SweepMayWait
    /\ beat' = [w \in Workers |-> Aged(beat[w], BeatLimit(beat[w].at))]
    /\ claim' = [w \in Workers |-> Aged(claim[w], ClaimLimit(claim[w].at))]
    /\ job' = [w \in Workers |-> IF job[w].at = "none" THEN job[w]
                 ELSE Aged(job[w], JobLimit(job[w]))]
    /\ silence' = [w \in Workers |-> IF online[w] THEN silence[w] + 1 ELSE silence[w]]
    /\ row' = [t \in Tasks |-> OlderRow(row[t])]
    /\ sweep' = [sweep EXCEPT !.age = @ + 1]
    /\ deadFor' = [w \in Workers |-> IF Dead(w) THEN Older(deadFor[w], Delay + Overdue + 1)
                                     ELSE deadFor[w]]
    /\ UNCHANGED <<proc, online, troubles>>

WorkerStep(w) ==
    \/ SendBeat(w) \/ ServeBeat(w) \/ HearBeat(w) \/ ServeEnroll(w)
    \/ SendClaim(w) \/ ServeClaim(w) \/ HearClaim(w)
    \/ Finish(w) \/ ServeAck(w) \/ HearAck(w)
    \/ Crash(w) \/ Kill(w) \/ Stall(w) \/ Wake(w)

Reaper == ReaperMark \/ ReaperRecover \/ ReaperThrows

Next ==
    \/ \E w \in Workers : WorkerStep(w)
    \/ Reaper \/ Tick
    \/ \E t \in Tasks, kind \in Kinds : Create(t, kind)

Spec == Init /\ [][Next]_vars

-----------------------------------------------------------------------------
(* Properties                                                                *)

(***************************************************************************)
(* A process that runs without interruption is never taken for dead: its      *)
(* heartbeats reach the table before the reaper finds them missing            *)
(* (markTimedOut() against heartbeatLoop()).                                *)
(***************************************************************************)
HealthyStaysOnline == \A w \in Workers : proc[w] = "steady" => online[w]

(***************************************************************************)
(* Such a process never loses the lease of what it executes, although a       *)
(* lease is granted before its holder knows of it and the heartbeat that is    *)
(* under way then does not carry it (api.ts:48-50, 94).                      *)
(***************************************************************************)
HealthyKeepsLease ==
    \A w \in Workers :
        proc[w] = "steady" /\ job[w].at \in {"run", "aborted", "ack"} => Owns(w, job[w].lease)

(***************************************************************************)
(* However a process dies, the task it held does not stay with it for longer  *)
(* than a lease, the calls under way, and the ticks of the reaper that may     *)
(* fail (config.ts:24: kill to recovery in 7 to 8 seconds).                  *)
(***************************************************************************)
RecoveredInTime ==
    \A t \in Tasks : row[t].status = "running" /\ Dead(row[t].holder)
                        => deadFor[row[t].holder] <= Delay + Overdue

(***************************************************************************)
(* The failure is detected before the task is recovered (README.md:5, 56-57): *)
(* when a lease of a process that died at work is recovered, the table         *)
(* already shows its worker offline.                                        *)
(***************************************************************************)
DetectedFirst ==
    [][\A t \in Tasks :
        row[t].status = "running" /\ row'[t].status = "pending"
        /\ proc[row[t].holder] = "dead" => ~online[row[t].holder]]_vars

=============================================================================
