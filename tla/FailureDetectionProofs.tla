------------------------ MODULE FailureDetectionProofs ------------------------
(***************************************************************************)
(* Proofs about FailureDetection and the demo of DemoScenario, which is a     *)
(* run of it, for every set of workers, every number of tasks and every       *)
(* choice of intervals that satisfies TimingAssumption.                       *)
(*                                                                         *)
(* The invariant bounds, for a process that was never stopped, how old its     *)
(* last heartbeat and its lease can be in each phase of its heartbeat loop.     *)
(* A call may take Delay to the server and its answer as long, so the table     *)
(* is at most two calls and a pause behind; a lease that is granted while a     *)
(* heartbeat is under way is not extended by that one, which costs two calls    *)
(* more.  The intervals leave room for both, so that neither is overdue.        *)
(*                                                                         *)
(* About the demo the invariant says who can be dead (crash tasks kill once),  *)
(* what a second attempt goes by (the first died with its process) and, while  *)
(* nobody else kills, how much of the time until the last moment of a PASS is   *)
(* left: the turn of the next claim, the tasks before it, the lease, its        *)
(* recovery and the second execution.                                        *)
(***************************************************************************)
EXTENDS DemoScenario, Integers, FiniteSetTheorems, WellFoundedInduction, TLAPS

\* The phases of the loops, whoever runs them.
Loops(w) ==
    /\ beat[w].age <= BeatLimit(beat[w].at)
    /\ claim[w].age <= ClaimLimit(claim[w].at)
    /\ claim[w].at # "rest" => job[w] = NoJob
    /\ claim[w].at # "answer" => claim[w].lease = NoLease
    /\ claim[w].lease # NoLease => claim[w].lease.task \in Tasks
    /\ beat[w].at = "rest" => beat[w].lease = NoLease /\ beat[w].word = "ok"
    /\ job[w].at = "none" => job[w] = NoJob
    /\ job[w].at # "none" => job[w].lease.task \in Tasks
    /\ job[w].at \notin {"run", "aborted"} => job[w].age <= Delay

HeldBy(t, w) == row[t].status = "running" /\ row[t].holder = w
LeaseOf(t) == [task |-> t, attempt |-> row[t].attempt]

\* An execution of t was acknowledged, no longer ago than n if t is to be retried.
Closed(t, n) ==
    \/ row[t].status \in {"completed", "dead_letter"}
    \/ row[t].status = "retrying" /\ row[t].age <= n

\* Nobody can have claimed it since.
Settled(t) == Closed(t, 3 * Delay)

\* What can have become of a lease a heartbeat still names: it was written down
\* at most Delay after the acknowledgement was served, and has travelled since.
Trail(w) == (IF beat[w].at = "ask" THEN Delay ELSE 2 * Delay) + beat[w].age

Current(w, l) == l.task \in Tasks /\ (Owns(w, l) \/ Closed(l.task, Trail(w)))

\* The leases of a process that was never stopped are those of its rows.
TendedBeat(w) ==
    /\ beat[w].lease # NoLease => Current(w, beat[w].lease)
    /\ beat[w].word = "revoked" =>
        beat[w].lease.task \in Tasks /\ Closed(beat[w].lease.task, Trail(w))

TendedJobs(w) ==
    /\ job[w].at # "aborted"
    /\ job[w].at \in {"run", "ack"} => Owns(w, job[w].lease)
    /\ job[w].at = "done" => Closed(job[w].lease.task, job[w].age)
    /\ claim[w].lease # NoLease => Owns(w, claim[w].lease)
    /\ \A t \in Tasks : HeldBy(t, w) =>
        \/ claim[w].lease = LeaseOf(t)
        \/ job[w].at \in {"run", "ack"} /\ job[w].lease = LeaseOf(t)

Tended(w) == TendedBeat(w) /\ TendedJobs(w)

SilenceBound(w) ==
    CASE beat[w].at = "rest" -> Delay + beat[w].age
      [] beat[w].at = "ask" -> Delay + Beat + beat[w].age
      [] OTHER -> beat[w].age

\* How old the lease of an execution may be.
LeaseBound(w) ==
    CASE beat[w].at = "rest" -> 3 * Delay + beat[w].age
      [] beat[w].at = "ask" /\ beat[w].lease = job[w].lease -> 3 * Delay + Beat + beat[w].age
      [] beat[w].at = "ask" /\ beat[w].lease # job[w].lease -> Delay + beat[w].age
      [] OTHER -> 2 * Delay + beat[w].age

InTime(w) ==
    /\ silence[w] <= SilenceBound(w)
    /\ claim[w].lease # NoLease => row[claim[w].lease.task].age <= claim[w].age
    /\ job[w].at \in {"run", "ack"} => row[job[w].lease.task].age <= LeaseBound(w)

Steady(w) ==
    /\ online[w] /\ beat[w].word # "unknown"
    /\ Tended(w) /\ InTime(w)

\* A worker that never had to register again, alive or dead.
Watched(w) ==
    /\ beat[w].at # "enroll"
    /\ \A t \in Tasks : HeldBy(t, w) =>
        /\ beat[w].at = "ask" /\ beat[w].lease # LeaseOf(t)
              => row[t].age <= Delay + beat[w].age
        /\ online[w] => row[t].age <= silence[w] + 2 * Delay

\* What a process that died may still have had under way.
Mourned(w) ==
    /\ ~Dead(w) => deadFor[w] = 0
    /\ beat[w].at = "ask" => deadFor[w] <= beat[w].age
    /\ claim[w].at = "ask" => deadFor[w] <= claim[w].age
    /\ \A t \in Tasks : HeldBy(t, w) => deadFor[w] <= Delay + row[t].age

Swept ==
    /\ sweep.at = "marked" => sweep.age = Sweep
    /\ sweep.at = "marked" => \A w \in Workers : online[w] => silence[w] <= Silence
    /\ \A t \in Tasks : row[t].status = "running" =>
        /\ row[t].holder \in Workers
        /\ row[t].age <= Lease + Sweep * sweep.skipped + sweep.age

\* What is executed, or was, has been claimed as often as its attempt says.
Tried ==
    \A t \in Tasks :
        /\ row[t].status = "running" => row[t].attempt >= 1
        /\ row[t].status = "retrying" => row[t].attempt \in 1..MaxAttempts

WorkerInv(w) ==
    /\ Loops(w) /\ Mourned(w)
    /\ proc[w] = "steady" => Steady(w)
    /\ proc[w] \in {"steady", "dead"} => Watched(w)

IInv == TypeOK /\ Tried /\ Swept /\ \A w \in Workers : WorkerInv(w)

-----------------------------------------------------------------------------
(* Types *)

LEMMA NoLeaseType == NoLease \in LeaseSet /\ NoLease.task \notin Tasks
  BY NamesAssumption DEF NoLease, LeaseSet

\* What the SET clauses, and time, make of a row.
LEMMA RowOps ==
    ASSUME NEW r \in RowSet
    PROVE  /\ Extended(r) = [status |-> r.status, kind |-> r.kind, attempt |-> r.attempt,
                             holder |-> r.holder, age |-> 0]
           /\ \A w \in Workers : Granted(r, w) \in RowSet
           /\ Requeued(r) \in RowSet /\ Extended(r) \in RowSet
  <1>1. \A w \in Workers : Granted(r, w) \in RowSet
    BY DEF RowSet, Granted
  <1>2. Requeued(r) \in RowSet
    BY DEF RowSet, Requeued
  <1>3. Extended(r) \in RowSet
    BY DEF RowSet, Extended
  <1>4. Extended(r) = [status |-> r.status, kind |-> r.kind, attempt |-> r.attempt,
                       holder |-> r.holder, age |-> 0]
    BY DEF RowSet, Extended
  <1> QED BY <1>1, <1>2, <1>3, <1>4

LEMMA RowAcknowledged ==
    ASSUME NEW r \in RowSet
    PROVE  /\ Acknowledged(r) \in RowSet
           /\ Acknowledged(r).kind = r.kind /\ Acknowledged(r).attempt = r.attempt
           /\ Acknowledged(r).holder = r.holder
           /\ Acknowledged(r).status \in {"completed", "dead_letter", "retrying"}
           /\ Acknowledged(r).status = "completed" <=> ~Fails(r.kind, r.attempt)
           /\ Acknowledged(r).status = "retrying" =>
                Acknowledged(r).age = 0 /\ r.attempt < MaxAttempts /\ Fails(r.kind, r.attempt)
  <1> USE UnitsAssumption
  <1>1. CASE ~Fails(r.kind, r.attempt)
    <2>1. Acknowledged(r) = [r EXCEPT !.status = "completed"]
      BY <1>1 DEF Acknowledged
    <2> QED BY <1>1, <2>1 DEF RowSet
  <1>2. CASE Fails(r.kind, r.attempt) /\ r.attempt >= MaxAttempts
    <2>1. Acknowledged(r) = [r EXCEPT !.status = "dead_letter"]
      BY <1>2 DEF Acknowledged
    <2> QED BY <1>2, <2>1 DEF RowSet
  <1>3. CASE Fails(r.kind, r.attempt) /\ ~(r.attempt >= MaxAttempts)
    <2>1. Acknowledged(r) = [r EXCEPT !.status = "retrying", !.age = 0]
      BY <1>3 DEF Acknowledged
    <2>2. r.attempt < MaxAttempts
      BY <1>3 DEF RowSet
    <2>3. Acknowledged(r) = [status |-> "retrying", kind |-> r.kind, attempt |-> r.attempt,
                             holder |-> r.holder, age |-> 0]
      BY <2>1 DEF RowSet
    <2>4. r.kind \in Kinds /\ r.attempt \in Nat /\ r.holder \in Workers \cup {NoWorker}
      BY DEF RowSet
    <2>5. Acknowledged(r) \in RowSet
      BY <2>3, <2>4 DEF RowSet
    <2> QED BY <1>3, <2>2, <2>3, <2>5
  <1> QED BY <1>1, <1>2, <1>3

LEMMA RowOlder ==
    ASSUME NEW r \in RowSet
    PROVE  /\ OlderRow(r) \in RowSet
           /\ OlderRow(r).status = r.status /\ OlderRow(r).kind = r.kind
           /\ OlderRow(r).attempt = r.attempt /\ OlderRow(r).holder = r.holder
           /\ r.status = "running" => OlderRow(r).age = r.age + 1
           /\ r.status \notin {"running", "retrying"} => OlderRow(r) = r
           /\ OlderRow(r).age \in {r.age, r.age + 1}
  <1>1. CASE r.status = "running"
    <2>1. OlderRow(r) = [r EXCEPT !.age = @ + 1]
      BY <1>1 DEF OlderRow
    <2> QED BY <1>1, <2>1 DEF RowSet
  <1>2. CASE r.status = "retrying"
    <2>1. OlderRow(r) = [r EXCEPT !.age = Older(@, Backoff[r.attempt])]
      BY <1>2 DEF OlderRow, Aged
    <2>2. Older(r.age, Backoff[r.attempt]) \in {r.age, r.age + 1} /\ r.age \in Nat
      BY DEF Older, RowSet
    <2> QED BY <1>2, <2>1, <2>2 DEF RowSet
  <1>3. CASE r.status \notin {"running", "retrying"}
    BY <1>3 DEF OlderRow
  <1> QED BY <1>1, <1>2, <1>3

LEMMA OverdueNat == Overdue \in Nat
  <1>1. Sweep \in Nat /\ Skips + 1 \in Nat /\ Lease \in Nat
    BY UnitsAssumption
  <1>2. Sweep * (Skips + 1) \in Nat
    BY <1>1
  <1> QED BY <1>1, <1>2 DEF Overdue

LEMMA OlderNat == \A n, limit \in Nat : Older(n, limit) \in Nat
  BY DEF Older

LEMMA AgedType ==
    ASSUME NEW limit \in Nat
    PROVE  /\ \A b \in BeatSet : Aged(b, limit) \in BeatSet
           /\ \A c \in ClaimSet : Aged(c, limit) \in ClaimSet
           /\ \A j \in JobSet : Aged(j, limit) \in JobSet
  BY OlderNat DEF Aged, BeatSet, ClaimSet, JobSet

LEMMA PhaseTypes ==
    ASSUME NEW l \in LeaseSet
    PROVE  /\ \A at \in {"rest", "ask", "answer", "enroll"}, x \in {"ok", "revoked", "unknown"} :
                BeatPhase(at, l, x) \in BeatSet
           /\ \A at \in {"rest", "ask", "answer"} : ClaimPhase(at, l) \in ClaimSet
           /\ \A at \in {"none", "run", "aborted", "ack", "done"} : JobPhase(at, l) \in JobSet
           /\ NoJob \in JobSet
  BY NoLeaseType DEF BeatPhase, ClaimPhase, JobPhase, BeatSet, ClaimSet, JobSet, NoJob

LEMMA InitType == Init => TypeOK
  BY NamesAssumption, UnitsAssumption, NoLeaseType
     DEF Init, TypeOK, NoJob, NoRow, BeatSet, ClaimSet, JobSet, RowSet, Kinds

LEMMA WorkerStepType ==
    ASSUME TypeOK, NEW w \in Workers, WorkerStep(w)
    PROVE  TypeOK'
  <1> USE NoLeaseType DEF TypeOK, troubles
  <1>0. beat[w] \in BeatSet /\ claim[w] \in ClaimSet /\ job[w] \in JobSet
    OBVIOUS
  <1>a. beat[w].lease \in LeaseSet /\ claim[w].lease \in LeaseSet /\ job[w].lease \in LeaseSet
    BY <1>0 DEF BeatSet, ClaimSet, JobSet
  <1>1. CASE SendBeat(w)
    <2>1. Held(w) \in LeaseSet
      BY <1>a DEF Held
    <2>2. BeatPhase("ask", Held(w), "ok") \in BeatSet
      BY <2>1, PhaseTypes
    <2> QED BY <1>1, <2>2 DEF SendBeat
  <1>2. CASE ServeBeat(w)
    <2>1. \A x \in {"ok", "revoked", "unknown"} : BeatPhase("answer", beat[w].lease, x) \in BeatSet
      BY <1>a, PhaseTypes
    <2>2. beat' \in [Workers -> BeatSet]
      BY <1>2, <2>1 DEF ServeBeat
    <2>3. row' \in [Tasks -> RowSet]
      <3>1. \A t \in Tasks : Extended(row[t]) \in RowSet
        BY RowOps
      <3> QED BY <1>2, <3>1 DEF ServeBeat, Owns
    <2> QED BY <1>2, <2>2, <2>3 DEF ServeBeat
  <1>3. CASE HearBeat(w)
    <2>1. \A at \in {"enroll", "rest"} : BeatPhase(at, NoLease, "ok") \in BeatSet
      BY PhaseTypes
    <2>2. [job[w] EXCEPT !.at = "aborted"] \in JobSet
      BY <1>0 DEF JobSet
    <2> QED BY <1>3, <2>1, <2>2 DEF HearBeat
  <1>4. CASE ServeEnroll(w)
    <2>1. BeatPhase("answer", NoLease, "ok") \in BeatSet
      BY PhaseTypes
    <2> QED BY <1>4, <2>1 DEF ServeEnroll
  <1>5. CASE SendClaim(w)
    <2>1. \A at \in {"ask", "rest"} : ClaimPhase(at, NoLease) \in ClaimSet
      BY PhaseTypes
    <2> QED BY <1>5, <2>1 DEF SendClaim
  <1>6. CASE ServeClaim(w)
    <2>1. \A t \in Tasks : row[t] \in RowSet
      BY DEF TypeOK
    <2>5. \A t \in Tasks : row[t].attempt \in Nat
      BY <2>1 DEF RowSet
    <2>2. \A t \in Tasks : [task |-> t, attempt |-> row[t].attempt + 1] \in LeaseSet
      BY <2>5 DEF LeaseSet
    <2>3. \A l \in LeaseSet : ClaimPhase("answer", l) \in ClaimSet
      BY PhaseTypes
    <2>4. \A t \in Tasks : Granted(row[t], w) \in RowSet
      BY <2>1, RowOps
    <2>6. claim' \in [Workers -> ClaimSet]
      <3>1. PICK l \in LeaseSet : claim' = [claim EXCEPT ![w] = ClaimPhase("answer", l)]
        BY <1>6, <2>2 DEF ServeClaim
      <3> QED BY <2>3, <3>1
    <2>7. row' \in [Tasks -> RowSet]
      BY <1>6, <2>4 DEF ServeClaim
    <2> QED BY <1>6, <2>6, <2>7 DEF ServeClaim
  <1>7. CASE HearClaim(w)
    <2>1. ClaimPhase("rest", NoLease) \in ClaimSet /\ JobPhase("run", claim[w].lease) \in JobSet
      BY <1>a, PhaseTypes
    <2> QED BY <1>7, <2>1 DEF HearClaim
  <1>8. CASE Finish(w)
    <2>1. JobPhase("ack", job[w].lease) \in JobSet /\ NoJob \in JobSet
      BY <1>a, PhaseTypes
    <2> QED BY <1>8, <2>1 DEF Finish
  <1>9. CASE ServeAck(w)
    <2>1. JobPhase("done", job[w].lease) \in JobSet
      BY <1>a, PhaseTypes
    <2>2. row' \in [Tasks -> RowSet]
      BY <1>9, RowAcknowledged DEF ServeAck, Owns
    <2> QED BY <1>9, <2>1, <2>2 DEF ServeAck
  <1>10. CASE HearAck(w)
    <2>1. NoJob \in JobSet
      BY PhaseTypes
    <2> QED BY <1>10, <2>1 DEF HearAck
  <1>11. CASE Crash(w)
    BY <1>11 DEF Crash, Die
  <1>12. CASE Kill(w)
    BY <1>12, UnitsAssumption DEF Kill, Die
  <1>13. CASE Stall(w)
    BY <1>13, UnitsAssumption DEF Stall
  <1>14. CASE Wake(w)
    BY <1>14 DEF Wake
  <1> QED BY <1>1, <1>2, <1>3, <1>4, <1>5, <1>6, <1>7, <1>8, <1>9, <1>10, <1>11, <1>12,
             <1>13, <1>14 DEF WorkerStep

LEMMA TickType == TypeOK /\ Tick => TypeOK'
  <1> SUFFICES ASSUME TypeOK, Tick PROVE TypeOK'
    OBVIOUS
  <1> USE UnitsAssumption DEF TypeOK
  <1>1. beat' \in [Workers -> BeatSet]
    BY AgedType DEF Tick, BeatLimit
  <1>2. claim' \in [Workers -> ClaimSet]
    BY AgedType DEF Tick, ClaimLimit
  <1>3. job' \in [Workers -> JobSet]
    <2>1. \A w \in Workers : JobLimit(job[w]) \in Nat
      BY DEF JobLimit
    <2> QED BY <2>1, AgedType DEF Tick
  <1>4. row' \in [Tasks -> RowSet]
    <2>1. \A r \in RowSet : OlderRow(r) \in RowSet
      BY RowOlder
    <2> QED BY <2>1 DEF Tick
  <1>5. deadFor' \in [Workers -> Nat]
    <2>1. Delay + Overdue + 1 \in Nat
      BY OverdueNat
    <2> QED BY <2>1, OlderNat DEF Tick
  <1>6. silence' \in [Workers -> Nat]
    BY DEF Tick
  <1>7. sweep' \in [at : {"idle", "marked"}, age : 0..Sweep, skipped : 0..Skips]
    BY DEF Tick, SweepMayWait
  <1> QED BY <1>1, <1>2, <1>3, <1>4, <1>5, <1>6, <1>7 DEF Tick, troubles

LEMMA NextType == TypeOK /\ [Next]_vars => TypeOK'
  <1> SUFFICES ASSUME TypeOK, [Next]_vars PROVE TypeOK'
    OBVIOUS
  <1>1. ASSUME NEW w \in Workers, WorkerStep(w) PROVE TypeOK'
    BY <1>1, WorkerStepType
  <1>2. CASE ReaperMark
    BY <1>2 DEF ReaperMark, TypeOK, process, troubles
  <1>3. CASE ReaperRecover
    <2>1. \A r \in RowSet : Requeued(r) \in RowSet
      BY RowOps
    <2>2. row' \in [Tasks -> RowSet]
      BY <1>3, <2>1 DEF ReaperRecover, TypeOK
    <2> QED BY <1>3, <2>2, UnitsAssumption DEF ReaperRecover, TypeOK, process, troubles
  <1>4. CASE ReaperThrows
    BY <1>4, UnitsAssumption DEF ReaperThrows, TypeOK, process
  <1>5. CASE Tick
    BY <1>5, TickType
  <1>6. ASSUME NEW t \in Tasks, NEW kind \in Kinds, Create(t, kind) PROVE TypeOK'
    <2>1. [status |-> "pending", kind |-> kind, attempt |-> 0, holder |-> NoWorker, age |-> 0]
            \in RowSet
      BY DEF RowSet
    <2> QED BY <1>6, <2>1 DEF Create, TypeOK, process, troubles
  <1>7. CASE UNCHANGED vars
    BY <1>7 DEF vars, TypeOK, process, troubles
  <1> QED BY <1>1, <1>2, <1>3, <1>4, <1>5, <1>6, <1>7 DEF Next, Reaper

\* The variables stay in their domains, for every instance.
THEOREM TypeCorrect == Spec => []TypeOK
  BY InitType, NextType, PTL DEF Spec

-----------------------------------------------------------------------------
(* Attempts *)

\* What may become of a row in a step.
Moved(t) ==
    \/ row'[t].status = row[t].status /\ row'[t].attempt = row[t].attempt
    \/ row'[t].status = "running" /\ row'[t].attempt = row[t].attempt + 1
    \/ row[t].status = "running" /\ row'[t] = Acknowledged(row[t])
    \/ row'[t].status = "pending"

LEMMA MovedTried ==
    ASSUME TypeOK, Tried, \A t \in Tasks : Moved(t)
    PROVE  Tried'
  <1> SUFFICES ASSUME NEW t \in Tasks
               PROVE  /\ row'[t].status = "running" => row'[t].attempt >= 1
                      /\ row'[t].status = "retrying" => row'[t].attempt \in 1..MaxAttempts
    BY DEF Tried
  <1>1. row[t] \in RowSet /\ row[t].attempt \in Nat /\ MaxAttempts \in Nat /\ Moved(t)
    BY UnitsAssumption DEF TypeOK, RowSet
  <1>2. CASE row[t].status = "running" /\ row'[t] = Acknowledged(row[t])
    BY <1>1, <1>2, RowAcknowledged DEF Tried
  <1> QED BY <1>1, <1>2 DEF Moved, Tried

LEMMA WorkerStepMoves ==
    ASSUME TypeOK, NEW w \in Workers, WorkerStep(w), NEW t \in Tasks
    PROVE  Moved(t)
  <1>1. row[t] \in RowSet /\ row \in [Tasks -> RowSet]
    BY DEF TypeOK
  <1>2. CASE ServeBeat(w)
    <2>1. row'[t] = row[t] \/ row'[t] = Extended(row[t])
      BY <1>1, <1>2 DEF ServeBeat
    <2> QED BY <1>1, <2>1, RowOps DEF Moved
  <1>3. CASE ServeClaim(w)
    <2>1. row'[t] = row[t] \/ row'[t] = Granted(row[t], w)
      BY <1>1, <1>3 DEF ServeClaim
    <2> QED BY <2>1 DEF Moved, Granted
  <1>4. CASE ServeAck(w)
    <2>1. row'[t] = row[t] \/ (row'[t] = Acknowledged(row[t]) /\ row[t].status = "running")
      BY <1>1, <1>4 DEF ServeAck, Owns
    <2> QED BY <2>1 DEF Moved
  <1>5. CASE row' = row
    BY <1>5 DEF Moved
  <1> QED BY <1>2, <1>3, <1>4, <1>5
          DEF WorkerStep, SendBeat, HearBeat, ServeEnroll, SendClaim, HearClaim, Finish, HearAck,
              Crash, Kill, Stall, Wake, Die

LEMMA WorkerStepTried ==
    ASSUME TypeOK, Tried, NEW w \in Workers, WorkerStep(w)
    PROVE  Tried'
  BY WorkerStepMoves, MovedTried

LEMMA NextTried == TypeOK /\ Tried /\ [Next]_vars => Tried'
  <1> SUFFICES ASSUME TypeOK, [Next]_vars, NEW t \in Tasks PROVE Moved(t)
    BY MovedTried
  <1>1. ASSUME NEW w \in Workers, WorkerStep(w) PROVE Moved(t)
    BY <1>1, WorkerStepMoves
  <1>2. CASE ReaperRecover
    BY <1>2 DEF ReaperRecover, Requeued, Moved
  <1>3. CASE Tick
    <2>1. row'[t] = OlderRow(row[t]) /\ row[t] \in RowSet
      BY <1>3 DEF Tick, TypeOK
    <2> QED BY <2>1, RowOlder DEF Moved
  <1>4. ASSUME NEW s \in Tasks, NEW kind \in Kinds, Create(s, kind) PROVE Moved(t)
    <2>1. row'[t] = row[t] \/ row'[t].status = "pending"
      BY <1>4 DEF Create, TypeOK
    <2> QED BY <2>1 DEF Moved
  <1>5. CASE row' = row
    BY <1>5 DEF Moved
  <1> QED BY <1>1, <1>2, <1>3, <1>4, <1>5
          DEF Next, Reaper, ReaperMark, ReaperThrows, vars

-----------------------------------------------------------------------------
(* Steps of one worker *)

\* A worker none of whose loops or rows a step touches.
LEMMA ClosedLonger ==
    ASSUME NEW t \in Tasks, NEW n \in Nat, NEW m \in Nat, row[t] \in RowSet, n <= m, Closed(t, n)
    PROVE  Closed(t, m)
  BY DEF Closed, RowSet

\* What a process that was never stopped has on its way is settled.
LEMMA TendedSettled ==
    ASSUME TypeOK, NEW w \in Workers, Loops(w), Tended(w)
    PROVE  /\ Trail(w) \in Nat
           /\ beat[w].at # "rest" => Trail(w) <= 3 * Delay
           /\ beat[w].lease # NoLease => beat[w].lease.task \in Tasks
                /\ (Owns(w, beat[w].lease) \/ Settled(beat[w].lease.task))
           /\ beat[w].word = "revoked" => Settled(beat[w].lease.task)
           /\ job[w].at = "done" => job[w].lease.task \in Tasks /\ Settled(job[w].lease.task)
  <1> USE UnitsAssumption
  <1>1. beat[w] \in BeatSet /\ job[w] \in JobSet /\ \A t \in Tasks : row[t] \in RowSet
    BY DEF TypeOK
  <1>2. Trail(w) \in Nat /\ (beat[w].at # "rest" => Trail(w) <= 3 * Delay)
    BY <1>1 DEF Trail, Loops, BeatLimit, BeatSet
  <1>3. job[w].at = "done" => job[w].age \in Nat /\ job[w].age <= 3 * Delay
    BY <1>1 DEF Loops, JobSet
  <1>4. 3 * Delay \in Nat
    OBVIOUS
  <1>5. \A t \in Tasks : Closed(t, Trail(w)) /\ beat[w].at # "rest" => Settled(t)
    BY <1>1, <1>2, <1>4, ClosedLonger DEF Settled
  <1>6. job[w].at = "done" => job[w].lease.task \in Tasks /\ Settled(job[w].lease.task)
    BY <1>1, <1>3, <1>4, ClosedLonger DEF Settled, Tended, TendedBeat, TendedJobs, Loops
  <1> QED BY <1>2, <1>5, <1>6 DEF Tended, TendedBeat, TendedJobs, Current, Loops

\* Nobody claims it yet.
LEMMA SettledWaits ==
    ASSUME TypeOK, Tried, NEW t \in Tasks, Settled(t)
    PROVE  ~Claimable(t)
  <1>1. row[t] \in RowSet
    BY DEF TypeOK
  <1>2. CASE row[t].status = "retrying"
    <2>1. row[t].age <= 3 * Delay /\ row[t].attempt \in 1..MaxAttempts
      BY <1>2 DEF Settled, Closed, Tried
    <2>2. Backoff[row[t].attempt] \in Nat /\ 3 * Delay < Backoff[row[t].attempt]
      BY <2>1, RetryAssumption
    <2> QED BY <1>1, <1>2, <2>1, <2>2, UnitsAssumption DEF Claimable, RowSet
  <1>3. CASE row[t].status # "retrying"
    BY <1>3 DEF Settled, Closed, Claimable
  <1> QED BY <1>2, <1>3

\* A worker none of whose loops or rows a step touches.
LEMMA Undisturbed ==
    ASSUME TypeOK, NEW u \in Workers, WorkerInv(u),
           proc'[u] = proc[u], beat'[u] = beat[u], claim'[u] = claim[u], job'[u] = job[u],
           online'[u] = online[u], silence'[u] = silence[u], deadFor'[u] = deadFor[u],
           \A t \in Tasks : HeldBy(t, u) \/ Settled(t) => row'[t] = row[t],
           \A t \in Tasks : HeldBy(t, u)' => HeldBy(t, u)
    PROVE  WorkerInv(u)'
  <1>1. Loops(u)'
    BY DEF WorkerInv, Loops
  <1>2. Mourned(u)'
    BY DEF WorkerInv, Mourned, Dead, HeldBy
  <1>3. Watched(u) => Watched(u)'
    BY DEF Watched, HeldBy, LeaseOf
  <1>4. \A l : Owns(u, l) => Owns(u, l)' /\ row'[l.task] = row[l.task]
    BY DEF Owns, HeldBy
  <1>5. Tended(u) => Tended(u)'
    <2> SUFFICES ASSUME Tended(u) PROVE Tended(u)'
      OBVIOUS
    <2>1. Loops(u)
      BY DEF WorkerInv
    <2>2. \A t \in Tasks : Settled(t) => row'[t] = row[t]
      OBVIOUS
    <2>3. Trail(u)' = Trail(u)
      BY DEF Trail
    <2>4. /\ beat[u].lease # NoLease => Current(u, beat[u].lease)'
          /\ beat[u].word = "revoked" =>
                beat[u].lease.task \in Tasks /\ Closed(beat[u].lease.task, Trail(u))'
          /\ job[u].at = "done" => Closed(job[u].lease.task, job[u].age)'
      <3>1. beat[u].lease # NoLease => Current(u, beat[u].lease)'
        <4>1. CASE Owns(u, beat[u].lease)
          BY <1>4, <4>1 DEF Current, Owns
        <4>2. ASSUME beat[u].lease # NoLease, ~Owns(u, beat[u].lease)
              PROVE  Current(u, beat[u].lease)'
          <5>1. beat[u].lease.task \in Tasks /\ Closed(beat[u].lease.task, Trail(u))
            BY <4>2 DEF Tended, TendedBeat, TendedJobs, Current
          <5>2. row'[beat[u].lease.task] = row[beat[u].lease.task]
            BY <2>1, <2>2, <4>2, <5>1, TendedSettled
          <5> QED BY <2>3, <5>1, <5>2 DEF Current, Closed
        <4> QED BY <4>1, <4>2
      <3>2. ASSUME beat[u].word = "revoked"
            PROVE  beat[u].lease.task \in Tasks /\ Closed(beat[u].lease.task, Trail(u))'
        <4>1. beat[u].lease.task \in Tasks /\ Closed(beat[u].lease.task, Trail(u))
          BY <3>2 DEF Tended, TendedBeat, TendedJobs
        <4>2. row'[beat[u].lease.task] = row[beat[u].lease.task]
          BY <2>1, <2>2, <3>2, <4>1, TendedSettled
        <4> QED BY <2>3, <4>1, <4>2 DEF Closed
      <3>3. ASSUME job[u].at = "done" PROVE Closed(job[u].lease.task, job[u].age)'
        <4>1. job[u].lease.task \in Tasks /\ row'[job[u].lease.task] = row[job[u].lease.task]
          BY <2>1, <2>2, <3>3, TendedSettled
        <4> QED BY <3>3, <4>1 DEF Tended, TendedBeat, TendedJobs, Closed
      <3> QED BY <3>1, <3>2, <3>3
    <2> QED BY <1>4, <2>4 DEF Tended, TendedBeat, TendedJobs, HeldBy, LeaseOf
  <1>6. Tended(u) /\ InTime(u) => InTime(u)'
    BY <1>4 DEF Tended, TendedBeat, TendedJobs, InTime, SilenceBound, LeaseBound
  <1> QED BY <1>1, <1>2, <1>3, <1>5, <1>6 DEF WorkerInv, Steady

\* A step of w: it may grant itself a task, extend its lease or acknowledge it.
LocalTo(w) ==
    /\ \A u \in Workers \ {w} :
        /\ proc'[u] = proc[u] /\ beat'[u] = beat[u] /\ claim'[u] = claim[u] /\ job'[u] = job[u]
        /\ online'[u] = online[u] /\ silence'[u] = silence[u] /\ deadFor'[u] = deadFor[u]
    /\ \A t \in Tasks : row'[t] # row[t] =>
        /\ HeldBy(t, w) \/ Claimable(t)
        /\ row'[t].status # "running" \/ (HeldBy(t, w)' /\ row'[t].age = 0)
    /\ sweep' = sweep
    /\ online'[w] => silence'[w] = 0 \/ (online[w] /\ silence'[w] = silence[w])

LEMMA Frame ==
    ASSUME IInv, NEW w \in Workers, TypeOK', Tried', LocalTo(w), WorkerInv(w)'
    PROVE  IInv'
  <1>1. ASSUME NEW u \in Workers, u # w PROVE WorkerInv(u)'
    <2>1. \A t \in Tasks : HeldBy(t, u) \/ Settled(t) => row'[t] = row[t]
      <3>1. \A t \in Tasks : Settled(t) => ~Claimable(t) /\ ~HeldBy(t, w)
        BY SettledWaits DEF IInv, Settled, Closed, HeldBy
      <3>2. \A t \in Tasks : HeldBy(t, u) => ~Claimable(t) /\ ~HeldBy(t, w)
        BY <1>1 DEF Claimable, HeldBy
      <3> QED BY <3>1, <3>2 DEF LocalTo
    <2>2. \A t \in Tasks : HeldBy(t, u)' => HeldBy(t, u)
      BY <1>1 DEF LocalTo, HeldBy
    <2> QED BY <1>1, <2>1, <2>2, Undisturbed DEF IInv, LocalTo
  <1>2. Swept'
    <2>1. \A u \in Workers : online'[u] => silence'[u] = 0 \/ (online[u] /\ silence'[u] = silence[u])
      BY DEF LocalTo
    <2>2. sweep.at = "marked" => \A u \in Workers : online'[u] => silence'[u] <= Silence
      BY <2>1, UnitsAssumption DEF IInv, Swept
    <2>3. ASSUME NEW t \in Tasks, row'[t].status = "running"
          PROVE  /\ row'[t].holder \in Workers
                 /\ row'[t].age <= Lease + Sweep * sweep.skipped + sweep.age
      <3>1. CASE row'[t] = row[t]
        BY <2>3, <3>1 DEF IInv, Swept
      <3>2. CASE row'[t] # row[t]
        <4>1. Sweep * sweep.skipped \in Nat /\ sweep.age \in Nat /\ Lease \in Nat
          <5>1. Sweep \in Nat /\ sweep.skipped \in Nat /\ sweep.age \in Nat /\ Lease \in Nat
            BY UnitsAssumption DEF IInv, TypeOK
          <5> QED BY <5>1
        <4>2. row'[t].holder = w /\ row'[t].age = 0
          BY <2>3, <3>2 DEF LocalTo, HeldBy
        <4> QED BY <4>1, <4>2
      <3> QED BY <3>1, <3>2
    <2> QED BY <2>2, <2>3 DEF Swept, LocalTo, IInv
  <1> QED BY <1>1, <1>2 DEF IInv

LEMMA JobsKept ==
    ASSUME NEW w \in Workers, row' = row, job'[w] = job[w], claim'[w].lease = claim[w].lease,
           TendedJobs(w)
    PROVE  TendedJobs(w)'
  BY DEF TendedJobs, Closed, Owns, HeldBy, LeaseOf

LEMMA BeatKept ==
    ASSUME NEW w \in Workers, row' = row, beat'[w] = beat[w], TendedBeat(w)
    PROVE  TendedBeat(w)'
  BY DEF TendedBeat, Current, Closed, Owns, Trail

LEMMA SendBeatInv ==
    ASSUME IInv, NEW w \in Workers, SendBeat(w), TypeOK', Tried'
    PROVE  IInv'
  <1> USE UnitsAssumption
  <1>1. beat[w] \in BeatSet /\ claim[w] \in ClaimSet /\ WorkerInv(w)
    BY DEF IInv, TypeOK
  <1>2. /\ beat'[w] = BeatPhase("ask", Held(w), "ok") /\ Live(w)
        /\ beat[w].at = "rest" /\ beat[w].age = Beat
        /\ \A u \in Workers \ {w} : beat'[u] = beat[u]
        /\ UNCHANGED <<proc, claim, job, online, silence, row, sweep, deadFor>>
    BY DEF SendBeat, IInv, TypeOK
  <1>3. LocalTo(w)
    BY <1>2 DEF LocalTo
  <1>4. Loops(w)' /\ Mourned(w)'
    BY <1>1, <1>2 DEF WorkerInv, Loops, Mourned, BeatPhase, BeatLimit, ClaimLimit, Live, Dead, HeldBy
  <1>5. Steady(w) => Tended(w)'
    <2> SUFFICES ASSUME Tended(w) PROVE Tended(w)'
      BY DEF Steady
    <2>1. Trail(w)' = Delay
      BY <1>2 DEF Trail, BeatPhase
    <2>2. job[w].at = "done" => job[w].lease.task \in Tasks /\ Closed(job[w].lease.task, Delay)
      <3>1. job[w].age \in Nat /\ \A t \in Tasks : row[t] \in RowSet
        BY DEF IInv, TypeOK, JobSet
      <3> QED BY <1>1, <3>1, ClosedLonger DEF Tended, TendedBeat, TendedJobs, WorkerInv, Loops
    <2>3. Held(w) # NoLease =>
            Held(w).task \in Tasks /\ (Owns(w, Held(w)) \/ Closed(Held(w).task, Delay))
      BY <2>2 DEF Tended, TendedBeat, TendedJobs, Held, Owns
    <2>4. beat'[w].lease = Held(w) /\ beat'[w].word = "ok"
      BY <1>2 DEF BeatPhase
    <2>5. TendedBeat(w)'
      BY <1>2, <2>1, <2>3, <2>4 DEF TendedBeat, Current, Owns, Closed
    <2> QED BY <1>2, <2>5, JobsKept DEF Tended
  <1>6. Steady(w) => InTime(w)'
    <2>1. job[w].at \in {"run", "ack"} => Held(w) = job[w].lease
      BY DEF Held
    <2> QED BY <1>1, <1>2, <2>1 DEF Steady, InTime, SilenceBound, LeaseBound, BeatPhase, BeatSet
  <1>7. Steady(w) /\ Watched(w) => Watched(w)'
    <2> SUFFICES ASSUME Steady(w), Watched(w) PROVE Watched(w)'
      OBVIOUS
    <2>1. ASSUME NEW t \in Tasks, HeldBy(t, w), Held(w) # LeaseOf(t)
          PROVE  row[t].age <= Delay
      <3>1. claim[w].lease = LeaseOf(t)
        BY <2>1 DEF Steady, Tended, TendedBeat, TendedJobs, Held
      <3>2. claim[w].lease # NoLease /\ claim[w].lease.task = t
        BY <3>1, NoLeaseType DEF LeaseOf
      <3>3. claim[w].age <= Delay
        BY <1>1, <3>2 DEF WorkerInv, Loops, ClaimLimit
      <3>4. row[t] \in RowSet
        BY DEF IInv, TypeOK
      <3> QED BY <1>1, <3>2, <3>3, <3>4 DEF Steady, InTime, ClaimSet, RowSet
    <2> QED BY <1>2, <2>1 DEF Watched, BeatPhase, HeldBy, LeaseOf
  <1>8. WorkerInv(w)'
    BY <1>1, <1>2, <1>4, <1>5, <1>6, <1>7 DEF WorkerInv, Steady, Live, BeatPhase
  <1> QED BY <1>3, <1>8, Frame

\* A step that only changes the ages of rows.
LEMMA SameHolders ==
    ASSUME \A t \in Tasks : /\ row'[t].status = row[t].status
                            /\ row'[t].holder = row[t].holder /\ row'[t].attempt = row[t].attempt
    PROVE  /\ \A t \in Tasks : LeaseOf(t)' = LeaseOf(t)
           /\ \A t \in Tasks : \A w : HeldBy(t, w)' <=> HeldBy(t, w)
           /\ \A w, l : Owns(w, l)' <=> Owns(w, l)
  BY DEF LeaseOf, HeldBy, Owns

LEMMA ServeBeatInv ==
    ASSUME IInv, NEW w \in Workers, ServeBeat(w), TypeOK', Tried'
    PROVE  IInv'
  <1> USE UnitsAssumption
  <1> DEFINE l == beat[w].lease
  <1>1. beat[w] \in BeatSet /\ claim[w] \in ClaimSet /\ WorkerInv(w) /\ beat[w].age <= Delay
    BY DEF IInv, TypeOK, WorkerInv, Loops, BeatLimit, ServeBeat
  <1>2. /\ beat[w].at = "ask" /\ beat'[w].at = "answer" /\ beat'[w].age = 0 /\ beat'[w].lease = l
        /\ beat'[w].word = "unknown" <=> ~online[w]
        /\ beat'[w].word = "revoked" => ~Owns(w, l) /\ l # NoLease
        /\ \A u \in Workers \ {w} : beat'[u] = beat[u] /\ silence'[u] = silence[u]
        /\ UNCHANGED <<proc, claim, job, online, sweep, deadFor>>
    BY DEF ServeBeat, IInv, TypeOK, BeatPhase
  <1>3. online[w] => silence'[w] = 0
    BY DEF ServeBeat, IInv, TypeOK
  <1>4. ASSUME NEW t \in Tasks
        PROVE  /\ row[t] \in RowSet /\ row'[t].status = row[t].status
               /\ row'[t].holder = row[t].holder /\ row'[t].attempt = row[t].attempt
               /\ row'[t] # row[t] => HeldBy(t, w) /\ row'[t].age = 0
               /\ online[w] /\ Owns(w, l) /\ t = l.task => row'[t].age = 0
    <2>1. row[t] \in RowSet /\ Extended(row[t]).status = row[t].status
          /\ Extended(row[t]).holder = row[t].holder /\ Extended(row[t]).attempt = row[t].attempt
          /\ Extended(row[t]).age = 0
      <3>1. row[t] \in RowSet
        BY DEF IInv, TypeOK
      <3>2. Extended(row[t]) = [status |-> row[t].status, kind |-> row[t].kind,
                                attempt |-> row[t].attempt, holder |-> row[t].holder, age |-> 0]
        BY <3>1, RowOps
      <3> QED BY <3>1, <3>2
    <2>4. \/ row' = row /\ ~(online[w] /\ Owns(w, l))
          \/ Owns(w, l) /\ row' = [row EXCEPT ![l.task] = Extended(@)]
      BY DEF ServeBeat
    <2>2. \/ row'[t] = row[t]
          \/ row'[t] = Extended(row[t]) /\ Owns(w, l) /\ t = l.task
      BY <2>4 DEF IInv, TypeOK
    <2>3. online[w] /\ Owns(w, l) /\ t = l.task => row'[t] = Extended(row[t])
      BY <2>4 DEF IInv, TypeOK
    <2> QED BY <2>1, <2>2, <2>3 DEF Owns, HeldBy
  <1>5. LocalTo(w)
    BY <1>2, <1>3, <1>4 DEF LocalTo, HeldBy
  <1>6. Loops(w)'
    BY <1>1, <1>2 DEF WorkerInv, Loops, BeatLimit, ClaimLimit
  <1>7. Mourned(w)'
    <2>1. deadFor[w] <= Delay /\ deadFor[w] \in Nat
      BY <1>1, <1>2 DEF WorkerInv, Mourned, IInv, TypeOK, BeatSet
    <2> QED BY <1>1, <1>2, <1>4, <2>1 DEF WorkerInv, Mourned, Dead, HeldBy, RowSet
  <1>8. Steady(w) => Tended(w)'
    <2> SUFFICES ASSUME Tended(w) PROVE Tended(w)'
      BY DEF Steady
    <2>1. Trail(w) <= 2 * Delay /\ Trail(w) \in Nat /\ Trail(w)' = 2 * Delay
      BY <1>1, <1>2 DEF Trail, BeatSet
    <2>2. \A t \in Tasks : Closed(t, Trail(w)) => Closed(t, 2 * Delay)
      BY <1>4, <2>1, ClosedLonger
    <2>3. \A t \in Tasks : \A n : Closed(t, n) => Closed(t, n)'
      BY <1>4 DEF Closed, HeldBy
    <2>4. TendedBeat(w)'
      <3>1. l # NoLease => l.task \in Tasks /\ (Owns(w, l) \/ Closed(l.task, 2 * Delay))
        BY <2>2 DEF Tended, TendedBeat, Current
      <3>2. \A k : k.task \in Tasks /\ (Owns(w, k) \/ Closed(k.task, 2 * Delay))
                    => Owns(w, k)' \/ Closed(k.task, 2 * Delay)'
        BY <1>4, <2>3, SameHolders
      <3>3. \A k : k.task \in Tasks /\ Closed(k.task, 2 * Delay) => Closed(k.task, 2 * Delay)'
        BY <2>3
      <3>4. beat'[w].lease = l /\ (beat'[w].word = "revoked" => ~Owns(w, l) /\ l # NoLease)
        BY <1>2
      <3> HIDE DEF l
      <3> QED BY <2>1, <3>1, <3>2, <3>3, <3>4 DEF TendedBeat, Current, Closed, Owns
    <2>5. TendedJobs(w)'
      <3>1. job[w].at = "done" => job[w].lease.task \in Tasks
        BY <1>1 DEF WorkerInv, Loops
      <3>2. job[w].at = "done" => Closed(job[w].lease.task, job[w].age)'
        BY <1>2, <2>3, <3>1 DEF Tended, TendedJobs, Closed
      <3> QED BY <1>2, <1>4, <3>2, SameHolders DEF Tended, TendedJobs
    <2> QED BY <2>4, <2>5 DEF Tended
  <1>9. Steady(w) => InTime(w)'
    <2> SUFFICES ASSUME Steady(w) PROVE InTime(w)'
      OBVIOUS
    <2>1. silence'[w] <= SilenceBound(w)'
      BY <1>2, <1>3 DEF Steady, SilenceBound
    <2>2. claim[w].lease # NoLease => row'[claim[w].lease.task].age <= claim[w].age
      BY <1>1, <1>4 DEF Steady, InTime, Tended, TendedBeat, TendedJobs, Owns, ClaimSet
    <2>3. ASSUME job[w].at \in {"run", "ack"} PROVE row'[job[w].lease.task].age <= 2 * Delay
      <3>1. Owns(w, job[w].lease) /\ job[w].lease.task \in Tasks
        BY <2>3 DEF Steady, Tended, TendedBeat, TendedJobs, Owns
      <3>2. CASE job[w].lease = l
        BY <1>4, <3>1, <3>2 DEF Steady
      <3>3. CASE job[w].lease # l
        <4>1. row[job[w].lease.task].age <= Delay + beat[w].age
          BY <1>2, <2>3, <3>3 DEF Steady, InTime, LeaseBound
        <4> QED BY <1>1, <1>4, <3>1, <4>1 DEF RowSet, BeatSet
      <3> QED BY <3>2, <3>3
    <2> QED BY <1>2, <2>1, <2>2, <2>3 DEF InTime, LeaseBound
  <1>10. Watched(w) => Watched(w)'
    <2> SUFFICES ASSUME Watched(w), NEW t \in Tasks, HeldBy(t, w), online[w]
                 PROVE  row'[t].age <= 2 * Delay
      BY <1>2, <1>3, <1>4, SameHolders DEF Watched
    <2>1. CASE l = LeaseOf(t)
      <3>1. Owns(w, l) /\ l.task = t
        BY <2>1 DEF LeaseOf, Owns, HeldBy
      <3> QED BY <1>4, <3>1
    <2>2. CASE l # LeaseOf(t)
      BY <1>1, <1>2, <1>4, <2>2 DEF Watched, RowSet, BeatSet
    <2> QED BY <2>1, <2>2
  <1>11. WorkerInv(w)'
    BY <1>1, <1>2, <1>6, <1>7, <1>8, <1>9, <1>10 DEF WorkerInv, Steady
  <1> QED BY <1>5, <1>11, Frame

LEMMA HearBeatInv ==
    ASSUME IInv, NEW w \in Workers, HearBeat(w), TypeOK', Tried'
    PROVE  IInv'
  <1> USE UnitsAssumption
  <1>1. beat[w] \in BeatSet /\ job[w] \in JobSet /\ WorkerInv(w) /\ beat[w].age <= Delay
    BY DEF IInv, TypeOK, WorkerInv, Loops, BeatLimit, HearBeat
  <1>2. /\ Live(w) /\ beat[w].at = "answer"
        /\ beat'[w].at = IF beat[w].word = "unknown" THEN "enroll" ELSE "rest"
        /\ beat'[w].age = 0 /\ beat'[w].lease = NoLease /\ beat'[w].word = "ok"
        /\ \A u \in Workers \ {w} : beat'[u] = beat[u] /\ job'[u] = job[u]
        /\ UNCHANGED <<proc, claim, online, silence, row, sweep, deadFor>>
    BY DEF HearBeat, IInv, TypeOK, BeatPhase
  <1>3. \/ job'[w] = job[w]
        \/ /\ beat[w].word = "revoked" /\ job[w].at = "run"
           /\ job[w].lease.task = beat[w].lease.task
           /\ job'[w] = [job[w] EXCEPT !.at = "aborted"]
    BY DEF HearBeat, IInv, TypeOK
  <1>4. job'[w] = job[w] \/ (job'[w].at = "aborted" /\ job'[w].lease = job[w].lease
                             /\ job[w].at = "run")
    BY <1>1, <1>3 DEF JobSet
  <1>5. LocalTo(w)
    BY <1>2 DEF LocalTo
  <1>6. Loops(w)' /\ Mourned(w)'
    <2>1. Loops(w)'
      BY <1>1, <1>2, <1>4 DEF WorkerInv, Loops, BeatLimit, ClaimLimit, NoJob
    <2>2. Mourned(w)'
      BY <1>1, <1>2 DEF WorkerInv, Mourned, Dead, HeldBy
    <2> QED BY <2>1, <2>2
  <1>7. Steady(w) => job'[w] = job[w] /\ beat'[w].at = "rest"
    BY <1>2, <1>3 DEF Steady, Tended, TendedBeat, TendedJobs, Owns, Closed
  <1>8. Steady(w) => Tended(w)'
    BY <1>2, <1>7, JobsKept DEF Steady, Tended, TendedBeat
  <1>9. Steady(w) => InTime(w)'
    <2>1. Steady(w) /\ job[w].at \in {"run", "ack"}
            => job[w].lease.task \in Tasks /\ row[job[w].lease.task].age \in Nat
      BY DEF Steady, Tended, TendedBeat, TendedJobs, Owns, IInv, TypeOK, RowSet
    <2>2. silence[w] \in Nat
      BY DEF IInv, TypeOK
    <2> QED BY <1>1, <1>2, <1>7, <2>1, <2>2 DEF Steady, InTime, SilenceBound, LeaseBound, BeatSet
  <1>10. Watched(w) /\ Steady(w) => Watched(w)'
    BY <1>2, <1>7 DEF Watched, HeldBy, LeaseOf
  <1>11. WorkerInv(w)'
    BY <1>1, <1>2, <1>6, <1>8, <1>9, <1>10 DEF WorkerInv, Steady, Live
  <1> QED BY <1>5, <1>11, Frame

LEMMA ServeEnrollInv ==
    ASSUME IInv, NEW w \in Workers, ServeEnroll(w), TypeOK', Tried'
    PROVE  IInv'
  <1> USE UnitsAssumption
  <1>1. WorkerInv(w) /\ beat[w].at = "enroll" /\ proc[w] \notin {"steady", "dead"}
    BY DEF IInv, WorkerInv, Watched, ServeEnroll
  <1>2. /\ beat'[w].at = "answer" /\ beat'[w].age = 0
        /\ \A u \in Workers \ {w} : beat'[u] = beat[u] /\ online'[u] = online[u]
                                     /\ silence'[u] = silence[u]
        /\ silence'[w] = 0
        /\ UNCHANGED <<proc, claim, job, row, sweep, deadFor>>
    BY DEF ServeEnroll, IInv, TypeOK, BeatPhase
  <1>3. LocalTo(w)
    BY <1>2 DEF LocalTo
  <1>4. Loops(w)'
    BY <1>1, <1>2 DEF WorkerInv, Loops, BeatLimit, ClaimLimit
  <1>5. Mourned(w)'
    BY <1>1, <1>2 DEF WorkerInv, Mourned, Dead, HeldBy
  <1> QED BY <1>1, <1>2, <1>3, <1>4, <1>5, Frame DEF WorkerInv

LEMMA SendClaimInv ==
    ASSUME IInv, NEW w \in Workers, SendClaim(w), TypeOK', Tried'
    PROVE  IInv'
  <1> USE UnitsAssumption
  <1>1. WorkerInv(w) /\ claim[w].at = "rest" /\ claim[w].lease = NoLease /\ Live(w)
    BY DEF IInv, WorkerInv, Loops, SendClaim
  <1>2. /\ claim'[w].at \in {"ask", "rest"} /\ claim'[w].age = 0 /\ claim'[w].lease = NoLease
        /\ claim'[w].at = "ask" => job[w] = NoJob
        /\ \A u \in Workers \ {w} : claim'[u] = claim[u]
        /\ UNCHANGED <<proc, beat, job, online, silence, row, sweep, deadFor>>
    BY DEF SendClaim, IInv, TypeOK, ClaimPhase
  <1>3. LocalTo(w)
    BY <1>2 DEF LocalTo
  <1>4. Loops(w)'
    BY <1>1, <1>2 DEF WorkerInv, Loops, BeatLimit, ClaimLimit
  <1>5. Mourned(w)'
    BY <1>1, <1>2 DEF WorkerInv, Mourned, Dead, Live, HeldBy
  <1>6. Watched(w) => Watched(w)'
    BY <1>2 DEF Watched, HeldBy, LeaseOf
  <1>7. Steady(w) => Steady(w)'
    <2>1. Tended(w) => Tended(w)'
      BY <1>1, <1>2, BeatKept, JobsKept DEF Tended
    <2>2. InTime(w) => InTime(w)'
      BY <1>1, <1>2 DEF InTime, SilenceBound, LeaseBound
    <2> QED BY <1>2, <2>1, <2>2 DEF Steady
  <1> QED BY <1>1, <1>2, <1>3, <1>4, <1>5, <1>6, <1>7, Frame DEF WorkerInv

LEMMA ServeClaimInv ==
    ASSUME IInv, NEW w \in Workers, ServeClaim(w), TypeOK', Tried'
    PROVE  IInv'
  <1> USE UnitsAssumption
  <1>1. /\ WorkerInv(w) /\ claim[w].at = "ask" /\ claim[w].lease = NoLease
        /\ job[w] = NoJob /\ claim[w].age <= Delay /\ claim[w] \in ClaimSet
    BY DEF IInv, TypeOK, WorkerInv, Loops, ServeClaim, ClaimLimit
  <1>2. /\ claim'[w].at = "answer" /\ claim'[w].age = 0
        /\ \A u \in Workers \ {w} : claim'[u] = claim[u]
        /\ UNCHANGED <<proc, beat, job, online, silence, sweep, deadFor>>
    BY DEF ServeClaim, IInv, TypeOK, ClaimPhase
  <1>3. CASE row' = row /\ claim'[w].lease = NoLease
    <2>1. LocalTo(w)
      BY <1>2, <1>3 DEF LocalTo
    <2>2. Loops(w)'
      BY <1>1, <1>2, <1>3 DEF WorkerInv, Loops, BeatLimit, ClaimLimit
    <2>3. Mourned(w)'
      BY <1>1, <1>2, <1>3 DEF WorkerInv, Mourned, Dead, HeldBy
    <2>4. Watched(w) => Watched(w)'
      BY <1>2, <1>3 DEF Watched, HeldBy, LeaseOf
    <2>5. Steady(w) => Steady(w)'
      <3>1. Tended(w) => Tended(w)'
        BY <1>1, <1>2, <1>3, BeatKept, JobsKept DEF Tended
      <3>2. InTime(w) => InTime(w)'
        BY <1>1, <1>2, <1>3 DEF InTime, SilenceBound, LeaseBound
      <3> QED BY <1>2, <3>1, <3>2 DEF Steady
    <2> QED BY <1>1, <1>2, <2>1, <2>2, <2>3, <2>4, <2>5, Frame DEF WorkerInv
  <1>4. ASSUME NEW t \in Tasks, Claimable(t),
               row' = [row EXCEPT ![t] = Granted(@, w)],
               claim' = [claim EXCEPT ![w] = ClaimPhase("answer",
                            [task |-> t, attempt |-> row[t].attempt + 1])]
        PROVE  IInv'
    <2>1. /\ row'[t].status = "running" /\ row'[t].holder = w /\ row'[t].age = 0
          /\ row'[t].attempt = row[t].attempt + 1
          /\ \A s \in Tasks \ {t} : row'[s] = row[s]
          /\ claim'[w].lease = [task |-> t, attempt |-> row'[t].attempt]
      BY <1>4 DEF Granted, ClaimPhase, IInv, TypeOK
    <2>2. LocalTo(w)
      BY <1>2, <1>4, <2>1 DEF LocalTo, HeldBy
    <2>3. Loops(w)'
      BY <1>1, <1>2, <2>1 DEF WorkerInv, Loops, BeatLimit, ClaimLimit
    <2>4. Mourned(w)'
      <3>1. deadFor[w] <= Delay /\ deadFor[w] \in Nat
        BY <1>1 DEF WorkerInv, Mourned, ClaimSet, IInv, TypeOK
      <3> QED BY <1>1, <1>2, <2>1, <3>1 DEF WorkerInv, Mourned, Dead, HeldBy
    <2>5. Watched(w) => Watched(w)'
      <3>1. beat[w].age \in Nat /\ silence[w] \in Nat
        BY DEF IInv, TypeOK, BeatSet
      <3> QED BY <1>2, <2>1, <3>1 DEF Watched, HeldBy, LeaseOf
    <2>6. Steady(w) => Tended(w)'
      <3> SUFFICES ASSUME Steady(w) PROVE Tended(w)'
        OBVIOUS
      <3>1. \A s \in Tasks : ~HeldBy(s, w)
        BY <1>1, NoLeaseType DEF Steady, Tended, TendedJobs, LeaseOf, NoJob
      <3>2. ~Settled(t)
        BY <1>4, SettledWaits DEF IInv
      <3>3. Tended(w) /\ Loops(w) /\ Trail(w)' = Trail(w) /\ beat'[w] = beat[w]
        BY <1>1, <1>2 DEF Steady, WorkerInv, Trail
      <3>4. /\ beat[w].lease # NoLease => /\ beat[w].lease.task \in Tasks \ {t}
                                         /\ Closed(beat[w].lease.task, Trail(w))
            /\ beat[w].word = "revoked" => beat[w].lease.task \in Tasks \ {t}
        BY <3>1, <3>2, <3>3, TendedSettled
           DEF IInv, Tended, TendedBeat, Current, Owns, HeldBy
      <3>5. \A s \in Tasks \ {t} : row'[s] = row[s]
        BY <2>1
      <3>6. TendedBeat(w)'
        BY <3>3, <3>4, <3>5 DEF Tended, TendedBeat, Current, Closed
      <3>7. job'[w].at = "none"
        BY <1>1, <1>2 DEF NoJob
      <3> QED BY <1>2, <1>4, <2>1, <3>1, <3>6, <3>7
              DEF Tended, TendedJobs, Owns, HeldBy, LeaseOf
    <2>7. Steady(w) => InTime(w)'
      <3>1. job'[w].at = "none"
        BY <1>1, <1>2 DEF NoJob
      <3> QED BY <1>2, <2>1, <3>1 DEF Steady, InTime, SilenceBound
    <2> QED BY <1>1, <1>2, <2>2, <2>3, <2>4, <2>5, <2>6, <2>7, Frame DEF WorkerInv, Steady
  <1>5. claim' = [claim EXCEPT ![w] = ClaimPhase("answer", NoLease)] => claim'[w].lease = NoLease
    BY DEF ClaimPhase, IInv, TypeOK
  <1> QED BY <1>3, <1>4, <1>5 DEF ServeClaim

LEMMA HearClaimInv ==
    ASSUME IInv, NEW w \in Workers, HearClaim(w), TypeOK', Tried'
    PROVE  IInv'
  <1> USE UnitsAssumption
  <1>1. /\ WorkerInv(w) /\ claim[w].at = "answer" /\ job[w] = NoJob /\ Live(w)
        /\ claim[w].age <= Delay /\ claim[w] \in ClaimSet /\ beat[w] \in BeatSet
    BY DEF IInv, TypeOK, WorkerInv, Loops, HearClaim, ClaimLimit
  <1>2. /\ claim'[w].at = "rest" /\ claim'[w].age = 0 /\ claim'[w].lease = NoLease
        /\ \A u \in Workers \ {w} : claim'[u] = claim[u] /\ job'[u] = job[u]
        /\ UNCHANGED <<proc, beat, online, silence, row, sweep, deadFor>>
    BY DEF HearClaim, IInv, TypeOK, ClaimPhase
  <1>3. \/ claim[w].lease = NoLease /\ job'[w] = job[w]
        \/ /\ claim[w].lease # NoLease
           /\ job'[w].at = "run" /\ job'[w].age = 0 /\ job'[w].lease = claim[w].lease
    BY DEF HearClaim, IInv, TypeOK, JobPhase
  <1>4. LocalTo(w)
    BY <1>2 DEF LocalTo
  <1>5. Loops(w)'
    BY <1>1, <1>2, <1>3 DEF WorkerInv, Loops, BeatLimit, ClaimLimit, NoJob
  <1>6. Mourned(w)'
    BY <1>1, <1>2 DEF WorkerInv, Mourned, Dead, Live, HeldBy
  <1>7. Watched(w) => Watched(w)'
    BY <1>2 DEF Watched, HeldBy, LeaseOf
  <1>8. Steady(w) => Tended(w)'
    <2>1. Steady(w) => TendedJobs(w)'
      BY <1>1, <1>2, <1>3 DEF Steady, Tended, TendedJobs, Owns, HeldBy, LeaseOf, NoJob
    <2> QED BY <1>2, <2>1, BeatKept DEF Steady, Tended
  <1>9. Steady(w) => InTime(w)'
    <2> SUFFICES ASSUME Steady(w) PROVE InTime(w)'
      OBVIOUS
    <2>1. ASSUME claim[w].lease # NoLease
          PROVE  row[claim[w].lease.task].age <= Delay /\ row[claim[w].lease.task].age \in Nat
      <3>1. claim[w].lease.task \in Tasks
        BY <1>1, <2>1 DEF WorkerInv, Loops
      <3>2. row[claim[w].lease.task].age \in Nat
        BY <3>1 DEF IInv, TypeOK, RowSet
      <3> QED BY <1>1, <2>1, <3>2 DEF Steady, InTime, ClaimSet
    <2>2. silence[w] <= SilenceBound(w)'
      BY <1>2 DEF Steady, InTime, SilenceBound
    <2>3. job'[w].at \in {"run", "ack"} => row[job'[w].lease.task].age <= LeaseBound(w)'
      BY <1>1, <1>2, <1>3, <2>1 DEF LeaseBound, BeatSet, NoJob
    <2> QED BY <1>2, <2>2, <2>3 DEF InTime
  <1> QED BY <1>1, <1>2, <1>4, <1>5, <1>6, <1>7, <1>8, <1>9, Frame DEF WorkerInv, Steady

LEMMA FinishInv ==
    ASSUME IInv, NEW w \in Workers, Finish(w), TypeOK', Tried'
    PROVE  IInv'
  <1> USE UnitsAssumption
  <1>1. WorkerInv(w) /\ Live(w) /\ job[w].at \in {"run", "aborted"}
    BY DEF IInv, Finish
  <1>2. /\ \A u \in Workers \ {w} : job'[u] = job[u]
        /\ UNCHANGED <<proc, beat, claim, online, silence, row, sweep, deadFor>>
    BY DEF Finish, IInv, TypeOK
  <1>3. \/ job[w].at = "run" /\ job'[w].at = "ack" /\ job'[w].lease = job[w].lease
           /\ job'[w].age = 0
        \/ job[w].at = "aborted" /\ job'[w] = NoJob
    BY DEF Finish, IInv, TypeOK, JobPhase
  <1>4. LocalTo(w)
    BY <1>2 DEF LocalTo
  <1>5. Loops(w)'
    BY <1>1, <1>2, <1>3 DEF WorkerInv, Loops, BeatLimit, ClaimLimit, NoJob
  <1>6. Mourned(w)' /\ (Watched(w) => Watched(w)')
    BY <1>1, <1>2 DEF WorkerInv, Mourned, Watched, Dead, HeldBy, LeaseOf
  <1>7. Steady(w) => Tended(w)'
    <2>1. Steady(w) => TendedJobs(w)'
      BY <1>2, <1>3 DEF Steady, Tended, TendedJobs, Owns, HeldBy, LeaseOf
    <2> QED BY <1>2, <2>1, BeatKept DEF Steady, Tended
  <1>8. Steady(w) => InTime(w)'
    BY <1>2, <1>3 DEF Steady, Tended, TendedJobs, InTime, SilenceBound, LeaseBound
  <1> QED BY <1>1, <1>2, <1>4, <1>5, <1>6, <1>7, <1>8, Frame DEF WorkerInv, Steady

LEMMA ServeAckInv ==
    ASSUME IInv, NEW w \in Workers, ServeAck(w), TypeOK', Tried'
    PROVE  IInv'
  <1> USE UnitsAssumption
  <1> DEFINE l == job[w].lease
  <1>1. /\ WorkerInv(w) /\ job[w].at = "ack" /\ claim[w].at = "rest" /\ claim[w].lease = NoLease
        /\ l.task \in Tasks
    BY DEF IInv, WorkerInv, Loops, ServeAck, NoJob
  <1>2. /\ job'[w].at = "done" /\ job'[w].lease = l /\ job'[w].age = 0
        /\ \A u \in Workers \ {w} : job'[u] = job[u]
        /\ UNCHANGED <<proc, beat, claim, online, silence, sweep, deadFor>>
    BY DEF ServeAck, IInv, TypeOK, JobPhase
  <1>3. ASSUME NEW t \in Tasks
        PROVE  /\ t # l.task \/ ~Owns(w, l) => row'[t] = row[t]
               /\ t = l.task /\ Owns(w, l) => Closed(t, 0)' /\ row'[t].status # "running"
    <2>1. row[t] \in RowSet
      BY DEF IInv, TypeOK
    <2>2. /\ Acknowledged(row[t]).status \in {"completed", "dead_letter", "retrying"}
          /\ Acknowledged(row[t]).status = "retrying" => Acknowledged(row[t]).age = 0
      BY <2>1, RowAcknowledged
    <2>3. \/ Owns(w, l) /\ row' = [row EXCEPT ![l.task] = Acknowledged(@)]
          \/ ~Owns(w, l) /\ row' = row
      BY DEF ServeAck
    <2>4. t # l.task \/ ~Owns(w, l) => row'[t] = row[t]
      BY <1>1, <2>3 DEF IInv, TypeOK
    <2>5. t = l.task /\ Owns(w, l) => row'[t] = Acknowledged(row[t])
      BY <1>1, <2>3 DEF IInv, TypeOK
    <2> QED BY <2>2, <2>4, <2>5 DEF Closed
  <1>4. LocalTo(w)
    <2>1. \A t \in Tasks : row'[t] # row[t] => HeldBy(t, w) /\ row'[t].status # "running"
      BY <1>3 DEF Owns, HeldBy
    <2> QED BY <1>2, <2>1 DEF LocalTo
  <1>5. Loops(w)'
    BY <1>1, <1>2 DEF WorkerInv, Loops, BeatLimit, ClaimLimit, NoJob
  <1>6. \A t \in Tasks : HeldBy(t, w)' => HeldBy(t, w) /\ row'[t] = row[t] /\ (Owns(w, l) => t # l.task)
    BY <1>3 DEF HeldBy
  <1>7. Mourned(w)'
    BY <1>1, <1>2, <1>6 DEF WorkerInv, Mourned, Dead
  <1>8. Watched(w) => Watched(w)'
    BY <1>2, <1>6 DEF Watched, LeaseOf
  <1>9. Steady(w) => Tended(w)'
    <2> SUFFICES ASSUME Steady(w) PROVE Tended(w)'
      OBVIOUS
    <2>1. Owns(w, l)
      BY <1>1 DEF Steady, Tended, TendedBeat, TendedJobs
    <2>2. PICK k \in Tasks : k = l.task
      BY <1>1
    <2>3. PICK n \in Nat : n = Trail(w) /\ n = Trail(w)'
      <3>1. Trail(w) \in Nat
        <4>1. TypeOK /\ Loops(w) /\ Tended(w)
          BY <1>1 DEF IInv, Steady, WorkerInv
        <4> QED BY <4>1, TendedSettled
      <3>2. Trail(w) = Trail(w)'
        BY <1>2 DEF Trail
      <3> QED BY <3>1, <3>2
    <2>4. Closed(k, 0)' /\ Closed(k, n)' /\ \A t \in Tasks : t # k => row'[t] = row[t]
      <3>1. Closed(k, 0)' /\ \A t \in Tasks : t # k => row'[t] = row[t]
        BY <1>3, <2>1, <2>2
      <3>2. row'[k] \in RowSet
        BY DEF TypeOK
      <3> QED BY <3>1, <3>2 DEF Closed, RowSet
    <2>5. \A t \in Tasks : ~HeldBy(t, w)'
      <3>1. \A t \in Tasks : claim[w].lease # LeaseOf(t)
        BY <1>1, NoLeaseType DEF LeaseOf
      <3>2. \A t \in Tasks : HeldBy(t, w) => l = LeaseOf(t)
        BY <3>1 DEF Steady, Tended, TendedBeat, TendedJobs
      <3>3. ASSUME NEW t \in Tasks, HeldBy(t, w)' PROVE FALSE
        <4>1. HeldBy(t, w) /\ t # l.task
          BY <1>6, <2>1, <3>3
        <4>2. l = LeaseOf(t)
          BY <3>2, <4>1
        <4> QED BY <4>1, <4>2 DEF LeaseOf
      <3> QED BY <3>3
    <2>6. TendedBeat(w) /\ beat'[w] = beat[w]
      BY <1>2 DEF Steady, Tended
    <2>7. \A t \in Tasks : Closed(t, n) => Closed(t, n)'
      BY <2>4 DEF Closed
    <2>8. \A m : Owns(w, m) => m.task \in Tasks /\ (Owns(w, m)' \/ Closed(m.task, n)')
      BY <2>4 DEF Owns
    <2>9. TendedBeat(w)'
      BY <2>3, <2>6, <2>7, <2>8 DEF TendedBeat, Current, Owns, Closed
    <2>10. TendedJobs(w)'
      BY <1>1, <1>2, <2>2, <2>4, <2>5 DEF TendedJobs, Closed
    <2> QED BY <2>9, <2>10 DEF Tended
  <1>10. Steady(w) => InTime(w)'
    BY <1>1, <1>2 DEF Steady, InTime, SilenceBound
  <1> QED BY <1>1, <1>2, <1>4, <1>5, <1>7, <1>8, <1>9, <1>10, Frame DEF WorkerInv, Steady

LEMMA HearAckInv ==
    ASSUME IInv, NEW w \in Workers, HearAck(w), TypeOK', Tried'
    PROVE  IInv'
  <1>1. WorkerInv(w) /\ Live(w) /\ job[w].at = "done"
    BY DEF IInv, HearAck
  <1>2. /\ job'[w] = NoJob
        /\ \A u \in Workers \ {w} : job'[u] = job[u]
        /\ UNCHANGED <<proc, beat, claim, online, silence, row, sweep, deadFor>>
    BY DEF HearAck, IInv, TypeOK
  <1>3. job'[w].at = "none" /\ job'[w].age = 0
    BY <1>2 DEF NoJob
  <1>4. LocalTo(w)
    BY <1>2 DEF LocalTo
  <1>5. Loops(w)'
    BY <1>1, <1>2, <1>3, UnitsAssumption DEF WorkerInv, Loops, BeatLimit, ClaimLimit
  <1>6. Mourned(w)' /\ (Watched(w) => Watched(w)')
    BY <1>1, <1>2 DEF WorkerInv, Mourned, Watched, Dead, HeldBy, LeaseOf
  <1>7. Steady(w) => Tended(w)'
    <2>1. Steady(w) => TendedJobs(w)'
      BY <1>1, <1>2, <1>3 DEF Steady, Tended, TendedJobs, Owns, HeldBy, LeaseOf
    <2> QED BY <1>2, <2>1, BeatKept DEF Steady, Tended
  <1>8. Steady(w) => InTime(w)'
    BY <1>2, <1>3 DEF Steady, InTime, SilenceBound
  <1> QED BY <1>1, <1>2, <1>4, <1>5, <1>6, <1>7, <1>8, Frame DEF WorkerInv, Steady

\* A process dies, stops or goes on; what it had under way stays.
LEMMA ProcessInv ==
    ASSUME IInv, NEW w \in Workers, Crash(w) \/ Kill(w) \/ Stall(w) \/ Wake(w), TypeOK', Tried'
    PROVE  IInv'
  <1>1. WorkerInv(w) /\ ~Dead(w)
    BY DEF IInv, Crash, Kill, Stall, Wake, Live, Dead
  <1>2. /\ \A u \in Workers \ {w} : proc'[u] = proc[u]
        /\ proc'[w] \in {"lost", "dead", "stalled", "woken"}
        /\ proc'[w] = "dead" => proc[w] = "steady"
        /\ UNCHANGED <<beat, claim, job, online, silence, row, sweep, deadFor>>
    BY DEF Crash, Kill, Stall, Wake, Die, IInv, TypeOK
  <1>3. LocalTo(w)
    BY <1>2 DEF LocalTo
  <1>4. Loops(w)'
    BY <1>1, <1>2 DEF WorkerInv, Loops, BeatLimit, ClaimLimit
  <1>5. Mourned(w)'
    BY <1>1, <1>2 DEF WorkerInv, Mourned, Dead, HeldBy
  <1>6. Watched(w) => Watched(w)'
    BY <1>2 DEF Watched, HeldBy, LeaseOf
  <1> QED BY <1>1, <1>2, <1>3, <1>4, <1>5, <1>6, Frame DEF WorkerInv

LEMMA WorkerStepInv ==
    ASSUME IInv, NEW w \in Workers, WorkerStep(w)
    PROVE  IInv'
  <1>1. TypeOK' /\ Tried'
    BY WorkerStepType, WorkerStepTried DEF IInv
  <1> QED BY <1>1, SendBeatInv, ServeBeatInv, HearBeatInv, ServeEnrollInv, SendClaimInv,
             ServeClaimInv, HearClaimInv, FinishInv, ServeAckInv, HearAckInv, ProcessInv
          DEF WorkerStep

-----------------------------------------------------------------------------
(* The reaper *)

\* Every bound is below the timeout it has to stay below.
LEMMA SteadyInTime ==
    ASSUME IInv, NEW w \in Workers, proc[w] = "steady"
    PROVE  /\ silence[w] <= Silence
           /\ \A t \in Tasks : HeldBy(t, w) => row[t].age <= Lease
  <1> USE UnitsAssumption, TimingAssumption
  <1>1. /\ WorkerInv(w) /\ Steady(w) /\ beat[w] \in BeatSet /\ claim[w] \in ClaimSet
        /\ silence[w] \in Nat
    BY DEF IInv, WorkerInv, TypeOK
  <1>2. beat[w].age <= BeatLimit(beat[w].at) /\ beat[w].age \in Nat
    BY <1>1 DEF WorkerInv, Loops, BeatSet
  <1>3. silence[w] <= Silence
    BY <1>1, <1>2 DEF Steady, InTime, SilenceBound, BeatLimit
  <1>4. ASSUME NEW t \in Tasks, HeldBy(t, w) PROVE row[t].age <= Lease
    <2>1. row[t].age \in Nat
      BY DEF IInv, TypeOK, RowSet
    <2>2. CASE claim[w].lease = LeaseOf(t)
      <3>1. claim[w].lease # NoLease /\ claim[w].lease.task = t
        BY <2>2, NoLeaseType DEF LeaseOf
      <3>2. claim[w].age <= Delay /\ claim[w].age \in Nat
        BY <1>1, <3>1 DEF WorkerInv, Loops, ClaimLimit, ClaimSet
      <3> QED BY <1>1, <2>1, <3>1, <3>2 DEF Steady, InTime
    <2>3. CASE job[w].at \in {"run", "ack"} /\ job[w].lease = LeaseOf(t)
      <3>1. job[w].lease.task = t
        BY <2>3 DEF LeaseOf
      <3>2. row[t].age <= LeaseBound(w)
        BY <1>1, <2>3, <3>1 DEF Steady, InTime
      <3>3. LeaseBound(w) <= Lease /\ LeaseBound(w) \in Nat
        BY <1>2 DEF LeaseBound, BeatLimit
      <3> QED BY <2>1, <3>2, <3>3
    <2> QED BY <1>1, <1>4, <2>2, <2>3 DEF Steady, Tended, TendedBeat, TendedJobs
  <1> QED BY <1>3, <1>4

LEMMA ReaperMarkInv ==
    ASSUME IInv, ReaperMark, TypeOK', Tried'
    PROVE  IInv'
  <1> USE UnitsAssumption
  <1>1. /\ \A w \in Workers : online'[w] <=> online[w] /\ silence[w] <= Silence
        /\ sweep'.at = "marked" /\ sweep'.age = Sweep /\ sweep'.skipped = sweep.skipped
        /\ UNCHANGED <<proc, beat, claim, job, silence, row, deadFor>>
    <2>1. \A w \in Workers : online[w] /\ ~TimedOut(w) <=> online[w] /\ silence[w] <= Silence
      BY DEF TimedOut, IInv, TypeOK
    <2>2. sweep \in [at : {"idle", "marked"}, age : 0..Sweep, skipped : 0..Skips]
      BY DEF IInv, TypeOK
    <2>3. /\ sweep.age = Sweep /\ sweep' = [sweep EXCEPT !.at = "marked"]
          /\ online' = [w \in Workers |-> online[w] /\ ~TimedOut(w)]
          /\ UNCHANGED <<proc, beat, claim, job, silence, row, deadFor>>
      BY DEF ReaperMark, SweepDue, process
    <2>4. sweep'.at = "marked" /\ sweep'.age = Sweep /\ sweep'.skipped = sweep.skipped
      BY <2>2, <2>3
    <2>5. \A w \in Workers : online'[w] <=> online[w] /\ silence[w] <= Silence
      BY <2>1, <2>3
    <2> QED BY <2>3, <2>4, <2>5
  <1>2. Swept'
    <2>1. \A w \in Workers : online'[w] => silence'[w] <= Silence
      BY <1>1
    <2>2. Lease + Sweep * sweep'.skipped + sweep'.age = Lease + Sweep * sweep.skipped + Sweep
      BY <1>1
    <2>3. sweep.age = Sweep
      BY DEF ReaperMark, SweepDue
    <2> QED BY <1>1, <2>1, <2>2, <2>3 DEF IInv, Swept
  <1>3. ASSUME NEW w \in Workers PROVE WorkerInv(w)'
    <2>1. WorkerInv(w)
      BY DEF IInv
    <2>2. Loops(w)' /\ Mourned(w)'
      BY <1>1, <2>1 DEF WorkerInv, Loops, Mourned, BeatLimit, ClaimLimit, Dead, HeldBy
    <2>3. Watched(w) => Watched(w)'
      BY <1>1 DEF Watched, HeldBy, LeaseOf
    <2>4. proc[w] = "steady" => Steady(w)'
      <3>1. proc[w] = "steady" => silence[w] <= Silence
        BY SteadyInTime
      <3>2. Tended(w) => Tended(w)'
        BY <1>1, BeatKept, JobsKept DEF Tended
      <3>3. InTime(w) => InTime(w)'
        BY <1>1 DEF InTime, SilenceBound, LeaseBound
      <3> QED BY <1>1, <2>1, <3>1, <3>2, <3>3 DEF WorkerInv, Steady
    <2> QED BY <1>1, <2>1, <2>2, <2>3, <2>4 DEF WorkerInv
  <1> QED BY <1>2, <1>3 DEF IInv

LEMMA ReaperRecoverInv ==
    ASSUME IInv, ReaperRecover, TypeOK', Tried'
    PROVE  IInv'
  <1> USE UnitsAssumption
  <1>1. /\ \A t \in Tasks : row'[t] = IF Lapsed(t) THEN Requeued(row[t]) ELSE row[t]
        /\ sweep' = [at |-> "idle", age |-> 0, skipped |-> 0]
        /\ UNCHANGED <<proc, beat, claim, job, online, silence, deadFor>>
    BY DEF ReaperRecover, process
  <1>5. \A r : Requeued(r).status = "pending"
    BY DEF Requeued
  <1>2. \A t \in Tasks : \/ row'[t] = row[t] /\ ~Lapsed(t)
                         \/ row'[t].status = "pending" /\ Lapsed(t)
    <2>1. ASSUME NEW t \in Tasks, Lapsed(t) PROVE row'[t].status = "pending"
      BY <1>1, <1>5, <2>1
    <2>2. ASSUME NEW t \in Tasks, ~Lapsed(t) PROVE row'[t] = row[t]
      BY <1>1, <2>2
    <2> QED BY <2>1, <2>2
  <1>3. Swept'
    <2>1. ASSUME NEW t \in Tasks, row'[t].status = "running"
          PROVE  row'[t].holder \in Workers /\ row'[t].age <= Lease
      <3>1. row'[t] = row[t] /\ ~Lapsed(t)
        BY <1>2, <2>1
      <3>2. row[t].age \in Nat
        BY DEF IInv, TypeOK, RowSet
      <3> QED BY <2>1, <3>1, <3>2 DEF Lapsed, IInv, Swept
    <2>2. Lease + Sweep * 0 + 0 = Lease
      OBVIOUS
    <2> QED BY <1>1, <2>1, <2>2 DEF Swept
  <1>4. ASSUME NEW w \in Workers PROVE WorkerInv(w)'
    <2>1. WorkerInv(w)
      BY DEF IInv
    <2>2. \A t \in Tasks : HeldBy(t, w)' => HeldBy(t, w) /\ row'[t] = row[t]
      BY <1>2 DEF HeldBy
    <2>3. Loops(w)'
      BY <1>1, <2>1 DEF WorkerInv, Loops, BeatLimit, ClaimLimit
    <2>4. Mourned(w)' /\ (Watched(w) => Watched(w)')
      BY <1>1, <2>1, <2>2 DEF WorkerInv, Mourned, Watched, Dead, LeaseOf
    <2>5. CASE proc[w] = "steady"
      <3>1. \A t \in Tasks : HeldBy(t, w) => row'[t] = row[t]
        <4>1. \A t \in Tasks : HeldBy(t, w) => row[t].age <= Lease /\ row[t].age \in Nat
          BY <2>5, SteadyInTime DEF IInv, TypeOK, RowSet
        <4> QED BY <1>1, <4>1 DEF Lapsed
      <3>2. \A t \in Tasks : Settled(t) => row'[t] = row[t]
        BY <1>2 DEF Lapsed, Settled, Closed
      <3> QED BY <1>1, <2>1, <2>2, <3>1, <3>2, Undisturbed DEF IInv
    <2>6. CASE proc[w] # "steady"
      BY <1>1, <2>1, <2>3, <2>4, <2>6 DEF WorkerInv
    <2> QED BY <2>5, <2>6
  <1> QED BY <1>3, <1>4 DEF IInv

LEMMA ReaperThrowsInv ==
    ASSUME IInv, ReaperThrows, TypeOK', Tried'
    PROVE  IInv'
  <1> USE UnitsAssumption
  <1>1. /\ sweep' = [at |-> "idle", age |-> 0, skipped |-> sweep.skipped + 1]
        /\ sweep.age = Sweep
        /\ UNCHANGED <<proc, beat, claim, job, online, silence, row, deadFor>>
    BY DEF ReaperThrows, SweepDue, process, IInv, Swept
  <1>2. Swept'
    <2>1. Sweep \in Nat /\ sweep.skipped \in Nat
      BY DEF IInv, TypeOK
    <2>2. Sweep * (sweep.skipped + 1) = Sweep * sweep.skipped + Sweep
      BY <2>1
    <2>3. Lease + Sweep * (sweep.skipped + 1) + 0 = Lease + Sweep * sweep.skipped + Sweep
      BY <2>1, <2>2
    <2> QED BY <1>1, <2>3 DEF IInv, Swept
  <1>3. ASSUME NEW w \in Workers PROVE WorkerInv(w)'
    BY <1>1, Undisturbed DEF IInv, HeldBy
  <1> QED BY <1>2, <1>3 DEF IInv

LEMMA CreateInv ==
    ASSUME IInv, NEW t \in Tasks, NEW kind \in Kinds, Create(t, kind), TypeOK', Tried'
    PROVE  IInv'
  <1>1. /\ row[t].status = "none" /\ row'[t].status = "pending"
        /\ \A s \in Tasks \ {t} : row'[s] = row[s]
        /\ UNCHANGED <<proc, beat, claim, job, online, silence, sweep, deadFor>>
    BY DEF Create, process, IInv, TypeOK
  <1>2. ASSUME NEW w \in Workers PROVE WorkerInv(w)'
    <2>1. \A s \in Tasks : HeldBy(s, w) \/ Settled(s) => row'[s] = row[s]
      BY <1>1 DEF HeldBy, Settled, Closed
    <2>2. \A s \in Tasks : HeldBy(s, w)' => HeldBy(s, w)
      BY <1>1 DEF HeldBy
    <2> QED BY <1>1, <2>1, <2>2, Undisturbed DEF IInv
  <1>3. Swept'
    BY <1>1 DEF IInv, Swept
  <1> QED BY <1>2, <1>3 DEF IInv

-----------------------------------------------------------------------------
(* Time *)

LEMMA AgedFields ==
    ASSUME TypeOK, NEW w \in Workers, NEW limit \in Nat
    PROVE  /\ Aged(beat[w], limit).at = beat[w].at /\ Aged(beat[w], limit).lease = beat[w].lease
           /\ Aged(beat[w], limit).word = beat[w].word
           /\ Aged(beat[w], limit).age = Older(beat[w].age, limit)
           /\ Aged(claim[w], limit).at = claim[w].at /\ Aged(claim[w], limit).lease = claim[w].lease
           /\ Aged(claim[w], limit).age = Older(claim[w].age, limit)
           /\ Aged(job[w], limit).at = job[w].at /\ Aged(job[w], limit).lease = job[w].lease
  <1>1. beat[w] \in BeatSet /\ claim[w] \in ClaimSet /\ job[w] \in JobSet
    BY DEF TypeOK
  <1> QED BY <1>1 DEF Aged, BeatSet, ClaimSet, JobSet

LEMMA TickInv ==
    ASSUME IInv, Tick, TypeOK', Tried'
    PROVE  IInv'
  <1> USE UnitsAssumption
  <1>1. UNCHANGED <<proc, online>>
    BY DEF Tick
  <1>2. ASSUME NEW w \in Workers
        PROVE  /\ beat'[w].at = beat[w].at /\ beat'[w].lease = beat[w].lease
               /\ beat'[w].word = beat[w].word
               /\ beat'[w].age = Older(beat[w].age, BeatLimit(beat[w].at))
               /\ claim'[w].at = claim[w].at /\ claim'[w].lease = claim[w].lease
               /\ claim'[w].age = Older(claim[w].age, ClaimLimit(claim[w].at))
               /\ job'[w].at = job[w].at /\ job'[w].lease = job[w].lease
               /\ job[w].at = "none" => job'[w] = job[w]
    <2>1. /\ beat'[w] = Aged(beat[w], BeatLimit(beat[w].at))
          /\ claim'[w] = Aged(claim[w], ClaimLimit(claim[w].at))
          /\ job'[w] = IF job[w].at = "none" THEN job[w] ELSE Aged(job[w], JobLimit(job[w]))
      BY DEF Tick
    <2>2. /\ BeatLimit(beat[w].at) \in Nat /\ ClaimLimit(claim[w].at) \in Nat
          /\ JobLimit(job[w]) \in Nat
      BY DEF BeatLimit, ClaimLimit, JobLimit
    <2> QED BY <2>1, <2>2, AgedFields DEF IInv
  <1>3. ASSUME NEW t \in Tasks
        PROVE  /\ row'[t].status = row[t].status /\ row'[t].holder = row[t].holder
               /\ row'[t].attempt = row[t].attempt /\ row[t].age \in Nat
               /\ row[t].status = "running" => row'[t].age = row[t].age + 1
               /\ row'[t].age \in {row[t].age, row[t].age + 1}
    <2>1. row[t] \in RowSet /\ row'[t] = OlderRow(row[t]) /\ row[t].age \in Nat
      BY DEF Tick, IInv, TypeOK, RowSet
    <2> QED BY <2>1, RowOlder
  <1>4. ASSUME NEW w \in Workers PROVE WorkerInv(w)'
    <2>1. /\ WorkerInv(w) /\ beat[w] \in BeatSet /\ claim[w] \in ClaimSet /\ job[w] \in JobSet
          /\ silence[w] \in Nat /\ deadFor[w] \in Nat
      BY DEF IInv, TypeOK
    <2>2. /\ beat[w].age \in Nat /\ claim[w].age \in Nat
          /\ beat[w].age <= BeatLimit(beat[w].at) /\ claim[w].age <= ClaimLimit(claim[w].at)
      BY <2>1 DEF WorkerInv, Loops, BeatSet, ClaimSet
    <2>3. Loops(w)'
      <3>1. job[w].at \notin {"run", "aborted"} => job'[w].age <= Delay
        <4>1. job[w].at \notin {"none", "run", "aborted"} =>
                job'[w] = Aged(job[w], Delay) /\ job[w].age \in Nat /\ job[w].age <= Delay
          BY <2>1 DEF Tick, JobLimit, WorkerInv, Loops, JobSet
        <4>2. job[w].at = "none" => job'[w].age <= Delay
          BY <1>2, <2>1 DEF WorkerInv, Loops
        <4> QED BY <2>1, <4>1, <4>2 DEF Aged, Older, JobSet
      <3> QED BY <1>2, <2>1, <2>2, <3>1 DEF WorkerInv, Loops, BeatLimit, ClaimLimit, Older, NoJob
    <2>4. /\ Live(w) \/ beat[w].at = "ask" => beat'[w].age = beat[w].age + 1
          /\ Live(w) \/ claim[w].at = "ask" => claim'[w].age = claim[w].age + 1
      <3>1. /\ MayWait(w, beat[w], BeatLimit(beat[w].at))
            /\ MayWait(w, claim[w], ClaimLimit(claim[w].at))
        BY DEF Tick
      <3> QED BY <1>2, <2>1, <2>2, <3>1 DEF MayWait, Older, BeatSet, ClaimSet
    <2>5. online[w] => silence'[w] = silence[w] + 1
      BY DEF Tick
    <2>6. Mourned(w)'
      <3>1. deadFor'[w] = IF Dead(w) THEN Older(deadFor[w], Delay + Overdue + 1) ELSE deadFor[w]
        BY DEF Tick
      <3>2. deadFor'[w] \in Nat /\ deadFor'[w] <= deadFor[w] + 1
        BY <2>1, <3>1, OverdueNat DEF Older
      <3>3. ~Dead(w) => deadFor'[w] = deadFor[w]
        BY <3>1
      <3>4. \A t \in Tasks : HeldBy(t, w)' =>
                HeldBy(t, w) /\ row'[t].age = row[t].age + 1 /\ row[t].age \in Nat
        BY <1>3 DEF HeldBy
      <3> QED BY <1>1, <1>2, <2>1, <2>2, <2>4, <3>2, <3>3, <3>4 DEF WorkerInv, Mourned, Dead
    <2>7. Watched(w) => Watched(w)'
      <3>1. \A t \in Tasks : HeldBy(t, w)' =>
                /\ HeldBy(t, w) /\ LeaseOf(t)' = LeaseOf(t)
                /\ row'[t].age = row[t].age + 1 /\ row[t].age \in Nat
        BY <1>3 DEF HeldBy, LeaseOf
      <3> QED BY <1>1, <1>2, <2>1, <2>2, <2>4, <2>5, <3>1 DEF Watched
    <2>8. ASSUME proc[w] = "steady" PROVE Tended(w)'
      <3>1. Live(w) /\ Tended(w) /\ Loops(w)
        BY <2>1, <2>8 DEF Live, WorkerInv, Steady
      <3>2. PICK n \in Nat : n = Trail(w) /\ n + 1 = Trail(w)'
        <4>1. Trail(w) \in Nat /\ Trail(w)' = Trail(w) + 1
          BY <1>2, <2>2, <2>4, <3>1 DEF Trail
        <4> QED BY <4>1
      <3>3. \A t \in Tasks : \A m \in Nat : Closed(t, m) => Closed(t, m + 1)'
        BY <1>3 DEF Closed
      <3>4. TendedBeat(w)'
        <4>1. \A l : Owns(w, l) => l.task \in Tasks /\ Owns(w, l)'
          BY <1>3, SameHolders DEF Owns
        <4> QED BY <1>2, <3>1, <3>2, <3>3, <4>1 DEF Tended, TendedBeat, Current, Closed, Owns
      <3>5. job[w].at = "done" => job[w].age \in Nat /\ job'[w].age = job[w].age + 1
        <4>1. MayWait(w, job[w], JobLimit(job[w]))
              /\ (job[w].at = "done" => job'[w] = Aged(job[w], JobLimit(job[w])))
          BY DEF Tick
        <4>2. job[w].at = "done" => JobLimit(job[w]) = Delay
          BY DEF JobLimit
        <4> QED BY <2>1, <3>1, <4>1, <4>2 DEF MayWait, Aged, Older, JobSet
      <3>6. TendedJobs(w)'
        <4>1. job[w].at = "done" => Closed(job[w].lease.task, job[w].age)'
          <5>1. ASSUME job[w].at = "done"
                PROVE  \E k \in Tasks : \E m \in Nat :
                        /\ k = job[w].lease.task /\ k = job'[w].lease.task
                        /\ m = job[w].age /\ job'[w].age = m + 1
            BY <1>2, <3>1, <3>5, <5>1 DEF Loops
          <5> QED BY <3>1, <3>3, <5>1 DEF Tended, TendedJobs, Closed
        <4> QED BY <1>2, <1>3, <3>1, <4>1, SameHolders DEF Tended, TendedJobs
      <3> QED BY <3>4, <3>6 DEF Tended
    <2>9. ASSUME proc[w] = "steady" PROVE InTime(w)'
      <3>1. Live(w) /\ Steady(w)
        BY <2>1, <2>9 DEF Live, WorkerInv
      <3>2. silence'[w] <= SilenceBound(w)'
        BY <1>2, <2>1, <2>2, <2>4, <2>5, <3>1 DEF Steady, InTime, SilenceBound
      <3>3. claim[w].lease # NoLease => row'[claim[w].lease.task].age <= claim'[w].age
        BY <1>3, <2>1, <2>2, <2>4, <3>1 DEF Steady, InTime, Tended, TendedBeat, TendedJobs, Owns
      <3>4. job[w].at \in {"run", "ack"} => row'[job[w].lease.task].age <= LeaseBound(w) + 1
        <4>1. job[w].at \in {"run", "ack"} => Owns(w, job[w].lease)
          BY <3>1 DEF Steady, Tended, TendedBeat, TendedJobs
        <4>2. LeaseBound(w) \in Nat
          BY <2>2 DEF LeaseBound
        <4> QED BY <1>3, <3>1, <4>1, <4>2 DEF Steady, InTime, Owns
      <3>5. LeaseBound(w)' = LeaseBound(w) + 1
        BY <1>2, <2>1, <2>2, <2>4, <3>1 DEF LeaseBound
      <3> QED BY <1>2, <3>2, <3>3, <3>4, <3>5 DEF InTime
    <2> QED BY <1>1, <1>2, <2>1, <2>3, <2>6, <2>7, <2>8, <2>9 DEF WorkerInv, Steady
  <1>5. Swept'
    <2>1. sweep' = [sweep EXCEPT !.age = @ + 1] /\ sweep.at = "idle"
      BY DEF Tick, SweepMayWait
    <2>2. sweep \in [at : {"idle", "marked"}, age : 0..Sweep, skipped : 0..Skips]
      BY DEF IInv, TypeOK
    <2>3. sweep'.at = "idle" /\ sweep'.age = sweep.age + 1 /\ sweep'.skipped = sweep.skipped
      BY <2>1, <2>2
    <2>4. Sweep * sweep.skipped \in Nat /\ sweep.age \in Nat
      <3>1. Sweep \in Nat /\ sweep.skipped \in Nat /\ sweep.age \in Nat
        BY <2>2
      <3> QED BY <3>1
    <2>5. ASSUME NEW t \in Tasks, row'[t].status = "running"
          PROVE  /\ row'[t].holder \in Workers
                 /\ row'[t].age <= Lease + Sweep * sweep.skipped + (sweep.age + 1)
      <3>1. row[t].age <= Lease + Sweep * sweep.skipped + sweep.age /\ row[t].holder \in Workers
        BY <1>3, <2>5 DEF IInv, Swept
      <3> QED BY <1>3, <2>4, <2>5, <3>1
    <2> QED BY <2>3, <2>5 DEF Swept
  <1> QED BY <1>4, <1>5 DEF IInv

-----------------------------------------------------------------------------
(* The theorems *)

LEMMA InitInv == Init => IInv
  <1> SUFFICES ASSUME Init PROVE IInv
    OBVIOUS
  <1> USE UnitsAssumption
  <1>1. TypeOK
    BY InitType
  <1>2. PICK phase \in [Workers -> 0..Beat] :
            /\ beat = [w \in Workers |-> [at |-> "rest", age |-> phase[w],
                                          lease |-> NoLease, word |-> "ok"]]
            /\ silence = phase
    BY DEF Init
  <1>3. \A t \in Tasks : row[t].status = "none"
    BY DEF Init, NoRow
  <1>4. Swept /\ Tried
    BY <1>3 DEF Init, Swept, Tried
  <1>5. ASSUME NEW w \in Workers PROVE WorkerInv(w)
    <2>1. /\ beat[w].at = "rest" /\ beat[w].age = silence[w] /\ beat[w].lease = NoLease
          /\ beat[w].word = "ok" /\ silence[w] \in 0..Beat
      BY <1>2
    <2>2. /\ claim[w].at = "rest" /\ claim[w].age = 0 /\ claim[w].lease = NoLease
          /\ job[w] = NoJob /\ job[w].at = "none" /\ job[w].age = 0
          /\ deadFor[w] = 0 /\ online[w]
          /\ \A t \in Tasks : ~HeldBy(t, w)
      BY <1>3 DEF Init, NoJob, HeldBy
    <2>3. Loops(w) /\ Mourned(w) /\ Watched(w)
      BY <2>1, <2>2 DEF Loops, Mourned, Watched, BeatLimit, ClaimLimit
    <2>4. Tended(w) /\ InTime(w)
      BY <2>1, <2>2 DEF Tended, TendedBeat, TendedJobs, InTime, SilenceBound
    <2> QED BY <2>1, <2>2, <2>3, <2>4 DEF WorkerInv, Steady
  <1> QED BY <1>1, <1>4, <1>5 DEF IInv

LEMMA NextInv == IInv /\ [Next]_vars => IInv'
  <1> SUFFICES ASSUME IInv, [Next]_vars PROVE IInv'
    OBVIOUS
  <1>1. TypeOK' /\ Tried'
    BY NextType, NextTried DEF IInv
  <1>2. CASE UNCHANGED vars
    <2>1. UNCHANGED <<proc, beat, claim, job, online, silence, row, sweep, deadFor>>
      BY <1>2 DEF vars, process
    <2>2. \A w \in Workers : WorkerInv(w)'
      BY <2>1, Undisturbed DEF IInv, HeldBy
    <2> QED BY <1>1, <2>1, <2>2 DEF IInv, Swept
  <1>3. CASE Next
    BY <1>1, <1>3, WorkerStepInv, ReaperMarkInv, ReaperRecoverInv, ReaperThrowsInv, TickInv,
       CreateInv DEF Next, Reaper
  <1> QED BY <1>2, <1>3

\* What a process, its heartbeats, its leases and the reaper know of each other
\* holds always: the induction the theorems below rest on.
THEOREM Invariance == Spec => []IInv
  BY InitInv, NextInv, PTL DEF Spec

\* A process that runs without interruption is never marked offline: what is
\* between two of its heartbeats in the table, two calls and a pause, is less
\* than the timeout.
THEOREM HealthyOnline == Spec => []HealthyStaysOnline
  <1>1. IInv => HealthyStaysOnline
    BY DEF IInv, WorkerInv, Steady, HealthyStaysOnline
  <1> QED BY <1>1, Invariance, PTL

\* Nor does it lose the lease of what it executes.
THEOREM HealthyLease == Spec => []HealthyKeepsLease
  <1>1. IInv => HealthyKeepsLease
    BY DEF IInv, WorkerInv, Steady, Tended, TendedBeat, TendedJobs, HealthyKeepsLease
  <1> QED BY <1>1, Invariance, PTL

LEMMA RecoveredBound == IInv => RecoveredInTime
  <1> SUFFICES ASSUME IInv, NEW t \in Tasks, row[t].status = "running", Dead(row[t].holder)
               PROVE  deadFor[row[t].holder] <= Delay + Overdue
    BY DEF RecoveredInTime
  <1> DEFINE w == row[t].holder
  <1>1. w \in Workers /\ row[t].age <= Lease + Sweep * sweep.skipped + sweep.age
    BY DEF IInv, Swept
  <1>2. deadFor[w] <= Delay + row[t].age
    BY <1>1 DEF IInv, WorkerInv, Mourned, HeldBy
  <1>3. /\ sweep.skipped \in Nat /\ sweep.skipped <= Skips /\ sweep.age \in Nat
        /\ sweep.age <= Sweep /\ Sweep \in Nat /\ Skips \in Nat /\ Lease \in Nat /\ Delay \in Nat
        /\ row[t].age \in Nat /\ deadFor[w] \in Nat
    BY <1>1, UnitsAssumption DEF IInv, TypeOK, RowSet
  <1>4. Sweep * sweep.skipped <= Sweep * Skips /\ Sweep * (Skips + 1) = Sweep * Skips + Sweep
    BY <1>3
  <1>5. Sweep * sweep.skipped \in Nat /\ Sweep * Skips \in Nat
    BY <1>3
  <1>6. row[t].age <= Overdue
    BY <1>1, <1>3, <1>4, <1>5 DEF Overdue
  <1> QED BY <1>2, <1>3, <1>6, OverdueNat

\* A process that died leaves no task running for longer than a lease, a call
\* and the sweeps it may take: the row is never older than its lease and the
\* time since the last tick of the reaper that did not fail.
THEOREM Recovery == Spec => []RecoveredInTime
  BY RecoveredBound, Invariance, PTL

\* The worker is offline before its task is recovered: the lease is at most two
\* calls older than the last heartbeat, and outlasts the timeout by as much.
THEOREM DetectionFirst == Spec => DetectedFirst
  <1>1. IInv /\ [Next]_vars =>
            [\A t \in Tasks : row[t].status = "running" /\ row'[t].status = "pending"
                              /\ proc[row[t].holder] = "dead" => ~online[row[t].holder]]_vars
    <2> SUFFICES ASSUME IInv, [Next]_vars, NEW t \in Tasks, row[t].status = "running",
                        row'[t].status = "pending", proc[row[t].holder] = "dead",
                        online[row[t].holder]
                 PROVE  FALSE
      OBVIOUS
    <2> DEFINE w == row[t].holder
    <2>1. w \in Workers /\ Watched(w)
      BY DEF IInv, Swept, WorkerInv
    <2>2. row[t] \in RowSet /\ row[t].age \in Nat /\ silence[w] \in Nat
      BY <2>1 DEF IInv, TypeOK, RowSet
    <2>3. row[t].age <= silence[w] + 2 * Delay
      BY <2>1 DEF Watched, HeldBy
    <2>4. ReaperRecover
      <3>1. ASSUME NEW u \in Workers, WorkerStep(u) PROVE FALSE
        <4>1. row'[t] # row[t]
          OBVIOUS
        <4>2. ServeBeat(u) \/ ServeClaim(u) \/ ServeAck(u)
          BY <3>1, <4>1 DEF WorkerStep, SendBeat, HearBeat, ServeEnroll, SendClaim, HearClaim,
             Finish, HearAck, Crash, Kill, Stall, Wake, Die
        <4>4. /\ ServeBeat(u) => row'[t] = Extended(row[t])
              /\ ServeClaim(u) => row'[t] = Granted(row[t], u)
              /\ ServeAck(u) => row'[t] = Acknowledged(row[t])
          <5>1. ServeBeat(u) => \/ row' = row
                               \/ row' = [row EXCEPT ![beat[u].lease.task] = Extended(@)]
            BY DEF ServeBeat
          <5>2. ServeClaim(u) => \/ row' = row
                                \/ \E s \in Tasks : row' = [row EXCEPT ![s] = Granted(@, u)]
            BY DEF ServeClaim
          <5>3. ServeAck(u) => \/ row' = row
                              \/ row' = [row EXCEPT ![job[u].lease.task] = Acknowledged(@)]
            BY DEF ServeAck
          <5> QED BY <4>1, <5>1, <5>2, <5>3 DEF IInv, TypeOK
        <4>3. /\ Granted(row[t], u).status = "running" /\ Extended(row[t]).status = "running"
              /\ Acknowledged(row[t]).status # "pending"
          BY <2>2, RowOps, RowAcknowledged DEF Granted
        <4> QED BY <4>2, <4>3, <4>4
      <3>2. ~Tick
        <4>1. OlderRow(row[t]).status = "running"
          BY <2>2, RowOlder
        <4> QED BY <4>1 DEF Tick
      <3>3. ASSUME NEW s \in Tasks, NEW kind \in Kinds, Create(s, kind) PROVE FALSE
        BY <3>3 DEF Create, IInv, TypeOK
      <3>4. ~ReaperMark /\ ~ReaperThrows /\ ~UNCHANGED vars
        BY DEF ReaperMark, ReaperThrows, vars
      <3> QED BY <3>1, <3>2, <3>3, <3>4 DEF Next, Reaper
    <2>5. Lapsed(t) /\ sweep.at = "marked"
      BY <2>4 DEF ReaperRecover
    <2>6. silence[w] <= Silence
      BY <2>1, <2>5 DEF IInv, Swept
    <2> QED BY <2>2, <2>3, <2>5, <2>6, UnitsAssumption, TimingAssumption DEF Lapsed
  <1> QED BY <1>1, Invariance, PTL DEF Spec, DetectedFirst

-----------------------------------------------------------------------------
(* The demo: the cap of seedBridge.ts                                        *)

\* Of finitely many numbers one is the largest.
LEMMA Largest ==
  ASSUME NEW n \in Nat, NEW S \in SUBSET (1..n), S # {}
  PROVE  \E m \in S : \A i \in S : i <= m
  <1> DEFINE R == {p \in Nat \X Nat : p[1] < p[2]}
             T == {n - i : i \in S}
  <1>1. IsWellFoundedOn(R, Nat)
    BY NatLessThanWellFounded DEF OpToRel
  <1>2. T \subseteq Nat /\ T # {}
    <2>1. \A i \in S : i \in Nat /\ n - i \in Nat
      OBVIOUS
    <2>2. QED
      BY <2>1
  <1>3. PICK x \in T : \A y \in T : ~(<<y, x>> \in R)
    BY <1>1, <1>2, WFMin
  <1>4. PICK m \in S : x = n - m
    OBVIOUS
  <1>5. \A y, z \in Nat : <<y, z>> \in R <=> y < z
    OBVIOUS
  <1>6. ASSUME NEW i \in S PROVE i <= m
    <2>1. n - i \in T /\ n - i \in Nat /\ n - m \in Nat
      OBVIOUS
    <2>2. ~(n - i < n - m)
      BY <1>3, <1>4, <1>5, <2>1
    <2>3. QED
      BY <2>2
  <1>7. QED
    BY <1>6

\* seedBridge.ts: whatever the generator draws, no more crash tasks pass the cap
\* than were asked for: the last of them counts them all.
LEMMA CapHolds ==
  ASSUME NEW n \in Nat, NEW items, DOMAIN items = 1..n, NEW c \in Nat
  PROVE  LET S == {i \in 1..n : CapCrashes(items, c)[i] = "demo.crash"}
         IN  IsFiniteSet(S) /\ Cardinality(S) <= c
  <1> DEFINE S == {i \in 1..n : CapCrashes(items, c)[i] = "demo.crash"}
  <1>1. \A i \in S : items[i] = "demo.crash" /\ ~(CrashesPassed(items, i) > c)
    BY DEF CapCrashes
  <1>2. IsFiniteSet(S)
    BY FS_Interval, FS_Subset
  <1>3. CASE S = {}
    BY <1>3, FS_EmptySet
  <1>4. CASE S # {}
    <2>1. PICK m \in S : \A i \in S : i <= m
      BY <1>4, Largest
    <2> DEFINE J == {j \in 1..m : items[j] = "demo.crash"}
    <2>2. IsFiniteSet(J)
      BY FS_Interval, FS_Subset
    <2>3. S \subseteq J
      BY <1>1, <2>1
    <2>4. Cardinality(S) <= Cardinality(J)
      BY <2>2, <2>3, FS_Subset
    <2>5. ~(Cardinality(J) > c)
      BY <1>1 DEF CrashesPassed
    <2>6. Cardinality(S) \in Nat /\ Cardinality(J) \in Nat
      BY <1>2, <2>2, FS_CardinalityType
    <2>7. QED
      BY <1>2, <2>4, <2>5, <2>6
  <1>5. QED
    BY <1>3, <1>4

-----------------------------------------------------------------------------
(* The demo: what a step does to rows, leases and processes *)

SameRow(t) ==
    /\ row'[t].status = row[t].status /\ row'[t].kind = row[t].kind
    /\ row'[t].attempt = row[t].attempt /\ row'[t].holder = row[t].holder
    /\ row[t].status = "none" => row'[t] = row[t]
SameLeases(w) ==
    claim'[w].lease = claim[w].lease /\ job'[w].lease = job[w].lease /\ job'[w].at = job[w].at
SameFate == UNCHANGED <<proc, kills, stalls>>

\* Calls, pauses and time.
Calm == SameFate /\ (\A t \in Tasks : SameRow(t)) /\ \A w \in Workers : SameLeases(w)

Grant(w, t) ==
    /\ SameFate
    /\ claim[w].at = "ask" /\ claim[w].lease = NoLease /\ job[w] = NoJob /\ job'[w] = job[w]
    /\ claim'[w].lease = [task |-> t, attempt |-> row[t].attempt + 1]
    /\ Claimable(t) /\ row'[t] = Granted(row[t], w)
    /\ \A s \in Tasks \ {t} : SameRow(s)
    /\ \A u \in Workers \ {w} : SameLeases(u)

\* The execution of w goes on: it begins, is aborted, ends, is forgotten.
Proceed(w) ==
    /\ SameFate /\ Live(w) /\ \A t \in Tasks : SameRow(t)
    /\ \A u \in Workers \ {w} : SameLeases(u)
    /\ \/ /\ claim[w].lease # NoLease /\ claim'[w].lease = NoLease
          /\ job[w] = NoJob /\ job'[w].at = "run" /\ job'[w].lease = claim[w].lease
       \/ /\ claim'[w].lease = claim[w].lease /\ job'[w].lease = job[w].lease
          /\ job[w].at = "run"
          /\ job'[w].at = "aborted" \/ (job'[w].at = "ack" /\ ~Crashes(w))
       \/ /\ claim'[w].lease = claim[w].lease
          /\ job[w].at \in {"aborted", "done"} /\ job'[w] = NoJob

Acknowledge(w) ==
    /\ SameFate
    /\ claim'[w].lease = claim[w].lease /\ job'[w].lease = job[w].lease
    /\ job[w].at = "ack" /\ job'[w].at = "done"
    /\ \A u \in Workers \ {w} : SameLeases(u)
    /\ \A t \in Tasks : \/ SameRow(t)
                        \/ /\ t = job[w].lease.task /\ Owns(w, job[w].lease)
                           /\ row'[t] = Acknowledged(row[t])

\* w dies, is stopped or goes on.
Befall(w) ==
    /\ (\A t \in Tasks : SameRow(t)) /\ (\A u \in Workers : SameLeases(u))
    /\ \A u \in Workers \ {w} : proc'[u] = proc[u]
    /\ \/ /\ Live(w) /\ Crashes(w) /\ UNCHANGED <<kills, stalls>>
          /\ proc'[w] = IF proc[w] = "steady" THEN "dead" ELSE "lost"
       \/ /\ ~Dead(w) /\ kills' = kills + 1 /\ stalls' = stalls
          /\ proc'[w] = IF proc[w] = "steady" THEN "dead" ELSE "lost"
       \/ kills' = kills /\ stalls' = stalls + 1 /\ Live(w) /\ proc'[w] = "stalled"
       \/ UNCHANGED <<kills, stalls>> /\ proc[w] = "stalled" /\ proc'[w] = "woken"

Requeue ==
    /\ SameFate /\ (\A w \in Workers : SameLeases(w))
    /\ \A t \in Tasks : SameRow(t) \/ (Lapsed(t) /\ row'[t] = Requeued(row[t]))

Admit(t, kind) ==
    /\ SameFate /\ (\A w \in Workers : SameLeases(w))
    /\ row[t].status = "none"
    /\ row'[t] = [status |-> "pending", kind |-> kind, attempt |-> 0,
                  holder |-> NoWorker, age |-> 0]
    /\ \A s \in Tasks \ {t} : SameRow(s)

LEMMA UnchangedCalm ==
    ASSUME UNCHANGED <<proc, claim, job, row, kills, stalls>>
    PROVE  Calm
  BY DEF Calm, SameFate, SameRow, SameLeases

LEMMA WorkerMoves ==
    ASSUME IInv, NEW w \in Workers, WorkerStep(w)
    PROVE  \/ Calm \/ (\E t \in Tasks : Grant(w, t)) \/ Proceed(w) \/ Acknowledge(w) \/ Befall(w)
  <1>0. /\ beat[w] \in BeatSet /\ claim[w] \in ClaimSet /\ job[w] \in JobSet /\ Loops(w)
        /\ beat \in [Workers -> BeatSet] /\ claim \in [Workers -> ClaimSet]
        /\ job \in [Workers -> JobSet] /\ row \in [Tasks -> RowSet]
        /\ proc \in [Workers -> {"steady", "stalled", "woken", "dead", "lost"}]
    BY DEF IInv, TypeOK, WorkerInv
  <1>1. CASE SendBeat(w) \/ ServeEnroll(w)
    BY <1>1, UnchangedCalm DEF SendBeat, ServeEnroll, troubles
  <1>2. CASE ServeBeat(w)
    <2>1. ASSUME NEW r \in RowSet
          PROVE  /\ Extended(r).status = r.status /\ Extended(r).kind = r.kind
                 /\ Extended(r).attempt = r.attempt /\ Extended(r).holder = r.holder
      <3>1. Extended(r) = [status |-> r.status, kind |-> r.kind, attempt |-> r.attempt,
                           holder |-> r.holder, age |-> 0]
        BY RowOps
      <3> QED BY <3>1
    <2>2. \/ row' = row
          \/ Owns(w, beat[w].lease) /\ row' = [row EXCEPT ![beat[w].lease.task] = Extended(@)]
      BY <1>2 DEF ServeBeat
    <2>3. \A t \in Tasks : \/ row'[t] = row[t]
                           \/ row'[t] = Extended(row[t]) /\ row[t].status = "running"
      BY <1>0, <2>2 DEF Owns
    <2>4. \A t \in Tasks : SameRow(t)
      BY <1>0, <2>1, <2>3 DEF SameRow
    <2>5. UNCHANGED <<proc, claim, job, kills, stalls>>
      BY <1>2 DEF ServeBeat, troubles
    <2> QED BY <2>4, <2>5 DEF Calm, SameFate, SameLeases
  <1>3. CASE HearBeat(w)
    <2>1. /\ UNCHANGED <<proc, claim, row, kills, stalls>> /\ Live(w)
          /\ \A u \in Workers \ {w} : job'[u] = job[u]
          /\ job'[w] = job[w] \/ (job[w].at = "run" /\ job'[w] = [job[w] EXCEPT !.at = "aborted"])
      BY <1>0, <1>3 DEF HearBeat, troubles
    <2>2. \A t \in Tasks : SameRow(t)
      BY <2>1 DEF SameRow
    <2>3. \A u \in Workers \ {w} : SameLeases(u)
      BY <2>1 DEF SameLeases
    <2>4. CASE job'[w] = job[w]
      BY <2>1, <2>2, <2>3, <2>4 DEF Calm, SameFate, SameLeases
    <2>5. CASE job[w].at = "run" /\ job'[w] = [job[w] EXCEPT !.at = "aborted"]
      <3>1. job'[w].at = "aborted" /\ job'[w].lease = job[w].lease
        BY <1>0, <2>5 DEF JobSet
      <3> QED BY <2>1, <2>2, <2>3, <2>5, <3>1 DEF Proceed, SameFate
    <2> QED BY <2>1, <2>4, <2>5
  <1>4. CASE SendClaim(w)
    <2>1. /\ UNCHANGED <<proc, job, row, kills, stalls>> /\ claim[w].lease = NoLease
          /\ \A u \in Workers \ {w} : claim'[u] = claim[u]
          /\ claim'[w].lease = NoLease
      BY <1>0, <1>4 DEF SendClaim, troubles, ClaimPhase, Loops
    <2> QED BY <2>1 DEF Calm, SameFate, SameRow, SameLeases
  <1>5. CASE ServeClaim(w)
    <2>1. /\ UNCHANGED <<proc, job, kills, stalls>>
          /\ claim[w].lease = NoLease /\ claim[w].at = "ask" /\ job[w] = NoJob
          /\ \A u \in Workers \ {w} : claim'[u] = claim[u]
      BY <1>0, <1>5 DEF ServeClaim, troubles, Loops
    <2>2. \A u \in Workers \ {w} : SameLeases(u)
      BY <2>1 DEF SameLeases
    <2>3. ASSUME NEW t \in Tasks, Claimable(t),
                 row' = [row EXCEPT ![t] = Granted(@, w)],
                 claim' = [claim EXCEPT ![w] = ClaimPhase("answer",
                              [task |-> t, attempt |-> row[t].attempt + 1])]
          PROVE  Grant(w, t)
      <3>1. /\ row'[t] = Granted(row[t], w)
            /\ claim'[w].lease = [task |-> t, attempt |-> row[t].attempt + 1]
            /\ \A s \in Tasks \ {t} : SameRow(s)
        BY <1>0, <2>3 DEF ClaimPhase, SameRow
      <3> QED BY <2>1, <2>2, <2>3, <3>1 DEF Grant, SameFate
    <2>4. CASE row' = row /\ claim' = [claim EXCEPT ![w] = ClaimPhase("answer", NoLease)]
      <3>1. claim'[w].lease = NoLease
        BY <1>0, <2>4 DEF ClaimPhase
      <3> QED BY <2>1, <2>2, <2>4, <3>1 DEF Calm, SameFate, SameRow, SameLeases
    <2> QED BY <1>5, <2>3, <2>4 DEF ServeClaim
  <1>6. CASE HearClaim(w)
    <2>1. /\ UNCHANGED <<proc, row, kills, stalls>> /\ Live(w) /\ job[w] = NoJob
          /\ \A u \in Workers \ {w} : claim'[u] = claim[u] /\ job'[u] = job[u]
          /\ claim'[w].lease = NoLease
          /\ job'[w] = IF claim[w].lease = NoLease THEN job[w]
                        ELSE JobPhase("run", claim[w].lease)
      BY <1>0, <1>6 DEF HearClaim, troubles, Loops, ClaimPhase
    <2>2. (\A t \in Tasks : SameRow(t)) /\ \A u \in Workers \ {w} : SameLeases(u)
      BY <2>1 DEF SameRow, SameLeases
    <2>3. CASE claim[w].lease = NoLease
      BY <2>1, <2>2, <2>3 DEF Calm, SameFate, SameLeases
    <2>4. CASE claim[w].lease # NoLease
      BY <2>1, <2>2, <2>4 DEF Proceed, SameFate, JobPhase
    <2> QED BY <2>3, <2>4
  <1>7. CASE Finish(w)
    <2>1. /\ UNCHANGED <<proc, claim, row, kills, stalls>> /\ Live(w) /\ ~Crashes(w)
          /\ \A u \in Workers \ {w} : job'[u] = job[u]
          /\ \/ job[w].at = "run" /\ job'[w] = JobPhase("ack", job[w].lease)
             \/ job[w].at = "aborted" /\ job'[w] = NoJob
      BY <1>0, <1>7 DEF Finish, troubles
    <2> QED BY <2>1 DEF Proceed, SameFate, SameRow, SameLeases, JobPhase
  <1>8. CASE ServeAck(w)
    <2>1. /\ UNCHANGED <<proc, claim, kills, stalls>> /\ job[w].at = "ack"
          /\ \A u \in Workers \ {w} : job'[u] = job[u]
          /\ job'[w].lease = job[w].lease /\ job'[w].at = "done"
      BY <1>0, <1>8 DEF ServeAck, troubles, JobPhase
    <2>2. \/ row' = row
          \/ Owns(w, job[w].lease) /\ row' = [row EXCEPT ![job[w].lease.task] = Acknowledged(@)]
      BY <1>8 DEF ServeAck
    <2>3. \A t \in Tasks : \/ SameRow(t)
                           \/ /\ t = job[w].lease.task /\ Owns(w, job[w].lease)
                              /\ row'[t] = Acknowledged(row[t])
      BY <1>0, <2>2 DEF SameRow
    <2> QED BY <2>1, <2>3 DEF Acknowledge, SameFate, SameLeases
  <1>9. CASE HearAck(w)
    <2>1. /\ UNCHANGED <<proc, claim, row, kills, stalls>> /\ Live(w) /\ job[w].at = "done"
          /\ \A u \in Workers \ {w} : job'[u] = job[u]
          /\ job'[w] = NoJob
      BY <1>0, <1>9 DEF HearAck, troubles
    <2> QED BY <2>1 DEF Proceed, SameFate, SameRow, SameLeases
  <1>10. CASE Crash(w) \/ Kill(w)
    <2>1. /\ UNCHANGED <<claim, job, row, stalls>>
          /\ \A u \in Workers \ {w} : proc'[u] = proc[u]
          /\ proc'[w] = IF proc[w] = "steady" THEN "dead" ELSE "lost"
          /\ (kills' = kills /\ Live(w) /\ Crashes(w)) \/ (kills' = kills + 1 /\ ~Dead(w))
      BY <1>0, <1>10 DEF Crash, Kill, Die, troubles
    <2> QED BY <2>1 DEF Befall, SameRow, SameLeases
  <1>11. CASE Stall(w) \/ Wake(w)
    <2>1. /\ UNCHANGED <<claim, job, row, kills>>
          /\ \A u \in Workers \ {w} : proc'[u] = proc[u]
          /\ \/ stalls' = stalls + 1 /\ Live(w) /\ proc'[w] = "stalled"
             \/ stalls' = stalls /\ proc[w] = "stalled" /\ proc'[w] = "woken"
      BY <1>0, <1>11 DEF Stall, Wake, troubles
    <2> QED BY <2>1 DEF Befall, SameRow, SameLeases
  <1> QED BY <1>1, <1>2, <1>3, <1>4, <1>5, <1>6, <1>7, <1>8, <1>9, <1>10, <1>11 DEF WorkerStep

LEMMA ReaperMoves ==
    ASSUME IInv, Reaper
    PROVE  Calm \/ Requeue
  <1>1. CASE ReaperMark \/ ReaperThrows
    BY <1>1, UnchangedCalm DEF ReaperMark, ReaperThrows, process, troubles
  <1>2. CASE ReaperRecover
    <2>1. /\ UNCHANGED <<proc, claim, job, kills, stalls>>
          /\ \A t \in Tasks : row'[t] = IF Lapsed(t) THEN Requeued(row[t]) ELSE row[t]
      BY <1>2 DEF ReaperRecover, process, troubles
    <2> QED BY <2>1 DEF Requeue, SameFate, SameLeases, SameRow
  <1> QED BY <1>1, <1>2 DEF Reaper

LEMMA TickMoves ==
    ASSUME IInv, Tick
    PROVE  Calm
  <1> USE UnitsAssumption
  <1>1. UNCHANGED <<proc, kills, stalls>>
    BY DEF Tick, troubles
  <1>2. ASSUME NEW w \in Workers PROVE SameLeases(w)
    <2>1. /\ claim'[w] = Aged(claim[w], ClaimLimit(claim[w].at))
          /\ job'[w] = IF job[w].at = "none" THEN job[w] ELSE Aged(job[w], JobLimit(job[w]))
      BY DEF Tick
    <2>2. ClaimLimit(claim[w].at) \in Nat /\ JobLimit(job[w]) \in Nat
      BY DEF ClaimLimit, JobLimit
    <2> QED BY <2>1, <2>2, AgedFields DEF IInv, SameLeases
  <1>3. ASSUME NEW t \in Tasks PROVE SameRow(t)
    <2>1. row[t] \in RowSet /\ row'[t] = OlderRow(row[t])
      BY DEF Tick, IInv, TypeOK
    <2> QED BY <2>1, RowOlder DEF SameRow
  <1> QED BY <1>1, <1>2, <1>3 DEF Calm, SameFate

LEMMA CreateMoves ==
    ASSUME IInv, NEW t \in Tasks, NEW kind, Create(t, kind)
    PROVE  Admit(t, kind)
  BY DEF Create, Admit, IInv, TypeOK, process, troubles, SameFate, SameLeases, SameRow

PlanType == plan \in [Tasks -> DemoTypes]

LEMMA PlanStays ==
    ASSUME [SNext]_svars
    PROVE  plan' = plan
  BY DEF SNext, ScriptStep, Seed, List, Watch, GiveUp, SystemStep, Passes, Over, svars

\* The steps of the demo are steps of the system; those of the script leave it alone.
LEMMA ScenarioStep ==
    ASSUME PlanType, [SNext]_svars
    PROVE  [Next]_vars
  <1>1. DemoTypes \subseteq Kinds
    BY DEF DemoTypes, Kinds
  <1>2. CASE Seed
    <2>1. CASE UNCHANGED vars
      BY <2>1
    <2>2. CASE script.next \in Tasks /\ Create(script.next, plan[script.next])
      <3>1. plan[script.next] \in Kinds
        BY <1>1, <2>2 DEF PlanType
      <3> QED BY <2>2, <3>1 DEF Next
    <2> QED BY <1>2, <2>1, <2>2 DEF Seed
  <1>3. CASE List \/ Watch \/ GiveUp
    BY <1>3 DEF List, Watch, GiveUp
  <1>4. CASE SystemStep
    BY <1>4 DEF SystemStep, Next
  <1>5. CASE Passes
    BY <1>5 DEF Passes, Next
  <1>6. CASE Over \/ UNCHANGED svars
    BY <1>6 DEF Over, svars
  <1> QED BY <1>2, <1>3, <1>4, <1>5, <1>6 DEF SNext, ScriptStep

LEMMA PlanStartType == SInit => PlanType
  <1> SUFFICES ASSUME SInit PROVE PlanType
    OBVIOUS
  <1>1. PICK draws \in [Tasks -> Draws] : plan = CapCrashes(PlanSeedMix(draws), CrashCount)
    BY DEF SInit
  <1>2. \A t \in Tasks : TypeOfDraw(draws[t]) \in DemoTypes
    BY DEF TypeOfDraw, DemoTypes
  <1>3. PlanSeedMix(draws) \in [Tasks -> DemoTypes]
    BY <1>2 DEF PlanSeedMix
  <1> QED BY <1>1, <1>3 DEF CapCrashes, PlanType, DemoTypes

\* The demo is a run of the system of FailureDetection: the script only creates
\* tasks and watches, so what is proved above holds of it too.
THEOREM DemoIsDetection == SSpec => Spec
  <1>1. SInit => Init /\ PlanType
    BY PlanStartType DEF SInit
  <1>2. PlanType /\ [SNext]_svars => [Next]_vars
    BY ScenarioStep
  <1>3. PlanType /\ [SNext]_svars => PlanType'
    BY PlanStays DEF PlanType
  <1> QED BY <1>1, <1>2, <1>3, PTL DEF SSpec, Spec

\* Every step of the demo is one of these moves.
LEMMA Moves ==
    ASSUME IInv, [SNext]_svars
    PROVE  \/ Calm \/ Requeue
           \/ \E w \in Workers :
                (\E t \in Tasks : Grant(w, t)) \/ Proceed(w) \/ Acknowledge(w) \/ Befall(w)
           \/ \E t \in Tasks : Admit(t, plan[t])
  <1>1. CASE Seed
    <2>1. CASE UNCHANGED vars
      BY <2>1, UnchangedCalm DEF vars, process, troubles
    <2>2. CASE script.next \in Tasks /\ Create(script.next, plan[script.next])
      BY <2>2, CreateMoves
    <2> QED BY <1>1, <2>1, <2>2 DEF Seed
  <1>2. CASE List \/ Watch \/ GiveUp \/ Over \/ UNCHANGED svars
    <2>1. UNCHANGED vars
      BY <1>2 DEF List, Watch, GiveUp, Over, svars
    <2> QED BY <2>1, UnchangedCalm DEF vars, process, troubles
  <1>3. CASE SystemStep
    BY <1>3, WorkerMoves, ReaperMoves DEF SystemStep
  <1>4. CASE Passes
    BY <1>4, TickMoves DEF Passes
  <1> QED BY <1>1, <1>2, <1>3, <1>4 DEF SNext, ScriptStep

-----------------------------------------------------------------------------
(* The demo: leases, and who dies *)

Names(w, l) == l # NoLease /\ l \in {claim[w].lease, job[w].lease}

\* A lease is of an attempt that was made, and of one process.
LeaseInv ==
    /\ \A t \in Tasks : row[t].status = "none" => row[t] = NoRow
    /\ \A t \in Tasks : row[t].status \notin {"none", "pending"} => row[t].attempt > 0
    /\ \A w \in Workers : \A l : Names(w, l) =>
          l.task \in Tasks /\ l.attempt \in 1..row[l.task].attempt
    /\ \A u, v \in Workers : \A l : Names(u, l) /\ Names(v, l) => u = v

\* The execution w died of.
Fatal(w) ==
    /\ job[w].at \in {"run", "aborted"} /\ job[w].lease.attempt = 1
    /\ job[w].lease.task \in Tasks /\ row[job[w].lease.task].kind = "demo.crash"

\* Only first attempts of a crash task kill, and nobody survives one.
CrashInv ==
    /\ \A t \in Tasks : row[t].status # "none" => row[t].kind = plan[t]
    /\ \A t \in Tasks : row[t].kind = "demo.crash" =>
          /\ row[t].status \notin {"retrying", "dead_letter"}
          /\ row[t].status = "completed" => row[t].attempt > 1
    /\ \A w \in Workers : job[w].at \in {"ack", "done"} =>
          ~(row[job[w].lease.task].kind = "demo.crash" /\ job[w].lease.attempt = 1)
    /\ \E K \in SUBSET Workers :
         /\ IsFiniteSet(K) /\ Cardinality(K) <= kills
         /\ \A w \in Workers \ K : Dead(w) => Fatal(w)

PlanInv ==
    LET S == {t \in Tasks : plan[t] = "demo.crash"}
    IN  IsFiniteSet(S) /\ Cardinality(S) <= CrashCount

LEMMA RowMoves ==
    ASSUME IInv, IInv', LeaseInv, [SNext]_svars, NEW t \in Tasks
    PROVE  \/ SameRow(t)
           \/ \E w \in Workers : /\ Grant(w, t) /\ row'[t].attempt = row[t].attempt + 1
                                 /\ row'[t].status = "running" /\ row'[t].kind = row[t].kind
                                 /\ row'[t].holder = w
           \/ /\ row[t].status = "running" /\ row'[t].status = "pending" /\ Lapsed(t) /\ Requeue
              /\ row'[t].attempt = row[t].attempt /\ row'[t].kind = row[t].kind
           \/ /\ row[t].status = "running" /\ row'[t] = Acknowledged(row[t])
              /\ row'[t].status \in {"completed", "dead_letter", "retrying"}
              /\ row'[t].attempt = row[t].attempt /\ row'[t].kind = row[t].kind
              /\ row'[t].holder = row[t].holder
              /\ \E w \in Workers : /\ Acknowledge(w) /\ t = job[w].lease.task
                                    /\ Owns(w, job[w].lease)
           \/ /\ row[t].status = "none" /\ row'[t].status = "pending"
              /\ row'[t].attempt = 0 /\ row[t].attempt = 0
              /\ row'[t].kind = plan[t] /\ Admit(t, plan[t])
  <1>1. row[t] \in RowSet
    BY DEF IInv, TypeOK
  <1>2. CASE Calm
    BY <1>2 DEF Calm
  <1>3. CASE Requeue
    <2>1. SameRow(t) \/ (Lapsed(t) /\ row'[t] = Requeued(row[t]))
      BY <1>3 DEF Requeue
    <2>2. CASE Lapsed(t) /\ row'[t] = Requeued(row[t])
      <3>1. /\ row[t].status = "running" /\ row'[t].status = "pending"
            /\ row'[t].attempt = row[t].attempt /\ row'[t].kind = row[t].kind
        BY <2>2 DEF Lapsed, Requeued
      <3> QED BY <1>3, <2>2, <3>1
    <2> QED BY <2>1, <2>2
  <1>4. ASSUME NEW w \in Workers, Proceed(w) \/ Befall(w) PROVE SameRow(t)
    BY <1>4 DEF Proceed, Befall
  <1>5. ASSUME NEW w \in Workers, NEW s \in Tasks, Grant(w, s)
        PROVE  \/ SameRow(t)
               \/ /\ Grant(w, t) /\ row'[t].attempt = row[t].attempt + 1
                  /\ row'[t].status = "running" /\ row'[t].kind = row[t].kind
                  /\ row'[t].holder = w
    BY <1>1, <1>5 DEF Grant, Granted
  <1>6. ASSUME NEW w \in Workers, Acknowledge(w)
        PROVE  \/ SameRow(t)
               \/ /\ row[t].status = "running" /\ row'[t] = Acknowledged(row[t])
                  /\ row'[t].status \in {"completed", "dead_letter", "retrying"}
                  /\ row'[t].attempt = row[t].attempt /\ row'[t].kind = row[t].kind
                  /\ row'[t].holder = row[t].holder
                  /\ t = job[w].lease.task /\ Owns(w, job[w].lease)
    <2>1. SameRow(t) \/ (t = job[w].lease.task /\ Owns(w, job[w].lease)
                          /\ row'[t] = Acknowledged(row[t]))
      BY <1>6 DEF Acknowledge
    <2> QED BY <1>1, <2>1, RowAcknowledged DEF Owns
  <1>7. ASSUME NEW s \in Tasks, Admit(s, plan[s])
        PROVE  \/ SameRow(t)
               \/ /\ row[t].status = "none" /\ row'[t].status = "pending"
                  /\ row'[t].attempt = 0 /\ row[t].attempt = 0
                  /\ row'[t].kind = plan[t] /\ Admit(t, plan[t])
    BY <1>7 DEF Admit, LeaseInv, NoRow
  <1> QED BY <1>2, <1>3, <1>4, <1>5, <1>6, <1>7, Moves

\* A process names a lease as long as it executes it; it gets one from a grant.
LEMMA NamesMoves ==
    ASSUME IInv, [SNext]_svars, NEW w \in Workers, NEW l, Names(w, l)'
    PROVE  \/ Names(w, l)
           \/ \E t \in Tasks : Grant(w, t) /\ l = [task |-> t, attempt |-> row[t].attempt + 1]
  <1>0. NoJob.lease = NoLease
    BY DEF NoJob
  <1>1. CASE SameLeases(w)
    BY <1>1 DEF SameLeases, Names
  <1>2. CASE Calm \/ Requeue \/ \E t \in Tasks : Admit(t, plan[t])
    BY <1>1, <1>2 DEF Calm, Requeue, Admit
  <1>3. ASSUME NEW u \in Workers, Befall(u) PROVE SameLeases(w)
    BY <1>3 DEF Befall
  <1>4. ASSUME NEW u \in Workers, Proceed(u) \/ Acknowledge(u) \/ \E t \in Tasks : Grant(u, t),
               u # w
        PROVE  SameLeases(w)
    BY <1>4 DEF Proceed, Acknowledge, Grant
  <1>5. CASE Proceed(w)
    BY <1>0, <1>5 DEF Proceed, Names
  <1>6. CASE Acknowledge(w)
    BY <1>6 DEF Acknowledge, Names
  <1>7. ASSUME NEW t \in Tasks, Grant(w, t)
        PROVE  Names(w, l) \/ l = [task |-> t, attempt |-> row[t].attempt + 1]
    BY <1>7 DEF Grant, Names
  <1> QED BY <1>1, <1>2, <1>3, <1>4, <1>5, <1>6, <1>7, Moves

LEMMA LeaseStep ==
    ASSUME IInv, IInv', LeaseInv, [SNext]_svars
    PROVE  LeaseInv'
  <1>0. \A t \in Tasks : row[t] \in RowSet /\ row'[t] \in RowSet
    BY DEF IInv, TypeOK
  <1>1. ASSUME NEW t \in Tasks
        PROVE  /\ row'[t].status = "none" => row'[t] = NoRow
               /\ row'[t].status \notin {"none", "pending"} => row'[t].attempt > 0
               /\ row'[t].attempt >= row[t].attempt
    BY <1>0, RowMoves DEF SameRow, LeaseInv, RowSet
  <1>2. ASSUME NEW w \in Workers, NEW l, Names(w, l)'
        PROVE  l.task \in Tasks /\ l.attempt \in 1..row'[l.task].attempt
    <2>1. CASE Names(w, l)
      <3>1. l.task \in Tasks /\ l.attempt \in 1..row[l.task].attempt
        BY <2>1 DEF LeaseInv
      <3> QED BY <1>0, <1>1, <3>1 DEF RowSet
    <2>2. ASSUME NEW t \in Tasks, Grant(w, t), l = [task |-> t, attempt |-> row[t].attempt + 1]
          PROVE  l.task \in Tasks /\ l.attempt \in 1..row'[l.task].attempt
      <3>1. row'[t].attempt = row[t].attempt + 1
        BY <2>2 DEF Grant, Granted
      <3> QED BY <1>0, <2>2, <3>1 DEF RowSet
    <2> QED BY <1>2, <2>1, <2>2, NamesMoves
  <1>3. ASSUME NEW u \in Workers, NEW v \in Workers, NEW l, Names(u, l)', Names(v, l)'
        PROVE  u = v
    <2>1. ASSUME NEW x \in Workers, NEW y \in Workers, NEW t \in Tasks, Grant(x, t), x # y,
                 l = [task |-> t, attempt |-> row[t].attempt + 1]
          PROVE  ~Names(y, l)
      BY <1>0, <2>1 DEF LeaseInv, RowSet
    <2>2. ASSUME NEW x \in Workers, NEW y \in Workers, NEW t \in Tasks, Grant(x, t), x # y,
                 NEW s \in Tasks
          PROVE  ~Grant(y, s)
      <3>1. claim[x].lease = NoLease /\ claim'[x].lease # NoLease
        BY <2>2, NamesAssumption DEF Grant, NoLease
      <3>2. Grant(y, s) => claim'[x].lease = claim[x].lease
        BY <2>2 DEF Grant, SameLeases
      <3> QED BY <3>1, <3>2
    <2>3. CASE Names(u, l) /\ Names(v, l)
      BY <2>3 DEF LeaseInv
    <2> QED BY <1>3, <2>1, <2>2, <2>3, NamesMoves
  <1> QED BY <1>1, <1>2, <1>3 DEF LeaseInv

\* What a process died of stays what it died of.
LEMMA FatalStays ==
    ASSUME IInv, IInv', LeaseInv, [SNext]_svars, NEW w \in Workers, Dead(w), Fatal(w)
    PROVE  Fatal(w)'
  <1>0. job[w].lease.task \in Tasks /\ job[w].lease # NoLease /\ ~Live(w)
    BY NamesAssumption DEF Fatal, NoLease, Dead, Live
  <1>1. Names(w, job[w].lease) /\ row[job[w].lease.task].status # "none"
    BY <1>0 DEF Names, LeaseInv, NoRow
  <1>2. row'[job[w].lease.task].kind = row[job[w].lease.task].kind
    BY <1>0, <1>1, RowMoves DEF SameRow
  <1>3. job'[w].at = job[w].at /\ job'[w].lease = job[w].lease
    <2>1. ASSUME NEW u \in Workers,
                 (\E t \in Tasks : Grant(u, t)) \/ Proceed(u) \/ Acknowledge(u) \/ Befall(u)
          PROVE  job'[w].at = job[w].at /\ job'[w].lease = job[w].lease
      BY <1>0, <2>1 DEF Grant, Proceed, Acknowledge, Befall, SameLeases, Fatal
    <2> QED BY <2>1, Moves DEF Calm, Requeue, Admit, SameLeases
  <1> QED BY <1>2, <1>3 DEF Fatal

LEMMA CrashStep ==
    ASSUME IInv, IInv', LeaseInv, LeaseInv', CrashInv, [SNext]_svars
    PROVE  CrashInv'
  <1>0. /\ \A t \in Tasks : row[t] \in RowSet /\ row'[t] \in RowSet
        /\ plan' = plan /\ kills \in Nat /\ kills' \in Nat /\ stalls \in Nat
    BY PlanStays, UnitsAssumption DEF IInv, TypeOK
  <1>1. ASSUME NEW t \in Tasks, row'[t].status # "none" PROVE row'[t].kind = plan'[t]
    BY <1>0, <1>1, RowMoves DEF SameRow, CrashInv, Grant, Claimable
  <1>2. ASSUME NEW t \in Tasks, row'[t].kind = "demo.crash"
        PROVE  /\ row'[t].status \notin {"retrying", "dead_letter"}
               /\ row'[t].status = "completed" => row'[t].attempt > 1
    <2>1. CASE SameRow(t)
      BY <1>2, <2>1 DEF SameRow, CrashInv
    <2>2. ASSUME NEW w \in Workers, Acknowledge(w), t = job[w].lease.task, Owns(w, job[w].lease),
                 row'[t].attempt = row[t].attempt, row'[t].kind = row[t].kind,
                 row'[t] = Acknowledged(row[t])
          PROVE  row'[t].status = "completed" /\ row'[t].attempt > 1
      <3>1. job[w].at = "ack" /\ job[w].lease.attempt = row[t].attempt 
            /\ row[t].status = "running"
        BY <2>2 DEF Acknowledge, Owns
      <3>2. row[t].attempt # 1 /\ row[t].attempt > 0
        BY <1>2, <2>2, <3>1 DEF CrashInv, LeaseInv
      <3>3. ~Fails("demo.crash", row[t].attempt)
        BY DEF Fails
      <3> QED BY <1>0, <1>2, <2>2, <3>2, <3>3, RowAcknowledged DEF RowSet
    <2> QED BY <1>2, <2>1, <2>2, RowMoves
  <1>3. ASSUME NEW w \in Workers, job'[w].at \in {"ack", "done"}
        PROVE  ~(row'[job'[w].lease.task].kind = "demo.crash" /\ job'[w].lease.attempt = 1)
    <2>1. /\ job'[w].lease = job[w].lease
          /\ (job[w].at \in {"ack", "done"} \/ (job[w].at = "run" /\ ~Crashes(w)))
      <3>1. ASSUME NEW u \in Workers,
                   (\E t \in Tasks : Grant(u, t)) \/ Proceed(u) \/ Acknowledge(u) \/ Befall(u)
            PROVE  /\ job'[w].lease = job[w].lease
                   /\ (job[w].at \in {"ack", "done"} \/ (job[w].at = "run" /\ ~Crashes(w)))
        <4>1. CASE SameLeases(w) \/ job'[w] = job[w]
          BY <1>3, <4>1 DEF SameLeases
        <4>2. CASE u # w \/ (\E t \in Tasks : Grant(u, t)) \/ Befall(u)
          BY <3>1, <4>1, <4>2 DEF Grant, Proceed, Acknowledge, Befall
        <4>3. CASE u = w /\ Acknowledge(w)
          BY <4>3 DEF Acknowledge
        <4>4. CASE u = w /\ Proceed(w)
          BY <1>3, <4>4 DEF Proceed, NoJob
        <4> QED BY <3>1, <4>2, <4>3, <4>4
      <3> QED BY <1>3, <3>1, Moves DEF Calm, Requeue, Admit, SameLeases
    <2>2. ~(row[job[w].lease.task].kind = "demo.crash" /\ job[w].lease.attempt = 1)
      BY <2>1 DEF CrashInv, Crashes, Kills
    <2>3. job[w].lease.task \in Tasks /\ job[w].lease # NoLease
      BY <2>1, NamesAssumption DEF IInv, WorkerInv, Loops, NoLease
    <2>4. row[job[w].lease.task].status # "none"
      BY <2>3 DEF Names, LeaseInv, NoRow
    <2>5. row'[job[w].lease.task].kind = row[job[w].lease.task].kind
      BY <2>3, <2>4, RowMoves DEF SameRow
    <2> QED BY <2>1, <2>2, <2>5
  <1>4. \E K \in SUBSET Workers :
          /\ IsFiniteSet(K) /\ Cardinality(K) <= kills'
          /\ \A w \in Workers \ K : Dead(w)' => Fatal(w)'
    <2>1. PICK K \in SUBSET Workers :
            /\ IsFiniteSet(K) /\ Cardinality(K) <= kills
            /\ \A w \in Workers \ K : Dead(w) => Fatal(w)
      BY DEF CrashInv
    <2>2. CASE SameFate
      BY <1>0, <2>1, <2>2, FatalStays DEF SameFate, Dead
    <2>3. ASSUME NEW w \in Workers, Befall(w)
          PROVE  \E L \in SUBSET Workers :
                    /\ IsFiniteSet(L) /\ Cardinality(L) <= kills'
                    /\ \A u \in Workers \ L : Dead(u)' => Fatal(u)'
      <3>1. \A u \in Workers \ {w} : Dead(u)' = Dead(u)
        BY <2>3 DEF Befall, Dead
      <3>2. CASE kills' = kills + 1
        <4> DEFINE L == K \cup {w}
        <4>0. Cardinality(K) \in Nat
          BY <2>1, FS_CardinalityType
        <4>1. IsFiniteSet(L) /\ Cardinality(L) <= Cardinality(K) + 1
          <5>1. /\ IsFiniteSet(L)
                /\ Cardinality(L) = IF w \in K THEN Cardinality(K) ELSE Cardinality(K) + 1
            BY <2>1, FS_AddElement
          <5> QED BY <4>0, <5>1
        <4>2. Cardinality(L) \in Nat
          BY <4>1, FS_CardinalityType
        <4>3. Cardinality(L) <= kills'
          BY <1>0, <2>1, <3>2, <4>0, <4>1, <4>2
        <4>4. \A u \in Workers \ L : Dead(u)' => Fatal(u)'
          BY <2>1, <3>1, FatalStays
        <4> QED BY <4>1, <4>3, <4>4
      <3>3. CASE kills' = kills
        <4>1. Dead(w)' => Dead(w) \/ (Live(w) /\ Crashes(w))
          BY <1>0, <2>3, <3>3 DEF Befall, Dead
        <4>2. Crashes(w) => Fatal(w)'
          <5>1. SUFFICES ASSUME Crashes(w) PROVE Fatal(w)'
            OBVIOUS
          <5>2. job'[w].at = job[w].at /\ job'[w].lease = job[w].lease
            BY <2>3 DEF Befall, SameLeases
          <5>3. job[w].lease.task \in Tasks
            BY <5>1 DEF IInv, WorkerInv, Loops, Crashes, Kills
          <5>4. row'[job[w].lease.task].kind = row[job[w].lease.task].kind
            BY <2>3, <5>3 DEF Befall, SameRow
          <5> QED BY <5>1, <5>2, <5>3, <5>4 DEF Fatal, Crashes, Kills
        <4>3. \A u \in Workers \ K : Dead(u)' => Fatal(u)'
          BY <2>1, <3>1, <4>1, <4>2, FatalStays
        <4> QED BY <2>1, <3>3, <4>3
      <3> QED BY <1>0, <2>3, <3>2, <3>3 DEF Befall
    <2> QED BY <2>2, <2>3, Moves DEF Calm, Requeue, Grant, Proceed, Acknowledge, Admit
  <1> QED BY <1>1, <1>2, <1>3, <1>4 DEF CrashInv

LEMMA PlanStart == SInit => PlanInv
  <1> SUFFICES ASSUME SInit PROVE PlanInv
    OBVIOUS
  <1>1. PICK draws \in [Tasks -> Draws] : plan = CapCrashes(PlanSeedMix(draws), CrashCount)
    BY DEF SInit
  <1> DEFINE n == Cardinality(Tasks)
  <1>2. n \in Nat /\ Tasks = 1..n /\ CrashCount \in Nat
    BY ScenarioAssumption, FS_CardinalityType
  <1>3. DOMAIN PlanSeedMix(draws) = 1..n
    BY <1>2 DEF PlanSeedMix
  <1> HIDE DEF n
  <1> QED BY <1>1, <1>2, <1>3, CapHolds DEF PlanInv

\* Who dies without being killed from outside takes a crash task of its own along.
LEMMA FewDie ==
    ASSUME IInv, LeaseInv, CrashInv, PlanInv
    PROVE  NoCascade
  <1> DEFINE D == {w \in Workers : Dead(w)}
             S == {t \in Tasks : plan[t] = "demo.crash"}
  <1>1. PICK K \in SUBSET Workers :
          /\ IsFiniteSet(K) /\ Cardinality(K) <= kills
          /\ \A w \in Workers \ K : Dead(w) => Fatal(w)
    BY DEF CrashInv
  <1>2. IsFiniteSet(S) /\ Cardinality(S) <= CrashCount
    BY DEF PlanInv
  <1> DEFINE F == D \ K
             task == [w \in F |-> job[w].lease.task]
  <1>3. \A w \in F : /\ w \in Workers /\ Fatal(w) /\ job[w].lease \in LeaseSet
                     /\ job[w].lease = [task |-> job[w].lease.task, attempt |-> 1]
                     /\ job[w].lease # NoLease
    BY <1>1, NamesAssumption DEF IInv, TypeOK, JobSet, LeaseSet, Fatal, NoLease
  <1>4. task \in Injection(F, S)
    <2>1. \A w \in F : task[w] \in S
      <3> SUFFICES ASSUME NEW w \in F PROVE task[w] \in S
        OBVIOUS
      <3> DEFINE t == job[w].lease.task
      <3>1. t \in Tasks /\ row[t].kind = "demo.crash"
        BY <1>3 DEF Fatal
      <3>2. row[t].status # "none"
        BY <3>1 DEF LeaseInv, NoRow
      <3> QED BY <3>1, <3>2 DEF CrashInv
    <2>2. ASSUME NEW u \in F, NEW v \in F, task[u] = task[v] PROVE u = v
      <3>1. job[u].lease = job[v].lease
        BY <1>3, <2>2
      <3>2. Names(u, job[u].lease) /\ Names(v, job[u].lease)
        BY <1>3, <3>1 DEF Names
      <3> QED BY <1>3, <3>2 DEF LeaseInv
    <2> QED BY <2>1, <2>2 DEF Injection, IsInjective
  <1> HIDE DEF task, S, F, D
  <1>5. IsFiniteSet(F) /\ Cardinality(F) <= Cardinality(S)
    BY <1>2, <1>4, FS_Injection
  <1>6. /\ IsFiniteSet(K \cup F) /\ IsFiniteSet(K \cap F)
        /\ Cardinality(K \cup F) = Cardinality(K) + Cardinality(F) - Cardinality(K \cap F)
    <2>1. IsFiniteSet(K \cap F)
      BY <1>1, FS_Subset
    <2> QED BY <1>1, <1>5, <2>1, FS_Union
  <1>7. IsFiniteSet(D) /\ Cardinality(D) <= Cardinality(K \cup F)
    <2>1. D \in SUBSET (K \cup F)
      BY DEF F
    <2> QED BY <1>6, <2>1, FS_Subset
  <1>8. /\ {Cardinality(D), Cardinality(S), Cardinality(F), Cardinality(K),
            Cardinality(K \cup F), Cardinality(K \cap F)} \subseteq Nat
        /\ kills \in Nat /\ CrashCount \in Nat
    BY <1>1, <1>2, <1>5, <1>6, <1>7, FS_CardinalityType, ScenarioAssumption, UnitsAssumption
       DEF IInv, TypeOK
  <1>9. Cardinality(D) <= CrashCount + kills
    BY <1>1, <1>2, <1>5, <1>6, <1>7, <1>8
  <1> QED BY <1>9 DEF NoCascade, D

-----------------------------------------------------------------------------
(* The demo: what a second attempt and a PASS go by *)

FirstDied(t) == \E w \in Workers : Dead(w) /\ Names(w, [task |-> t, attempt |-> 1])

\* Without a stall, a row was recovered from a process that had died at work.
RecoverInv ==
    stalls = 0 =>
      /\ \A w \in Workers : proc[w] \in {"steady", "dead"}
      /\ \A w \in Workers : proc[w] = "dead" =>
            \A t \in Tasks : HeldBy(t, w) => Names(w, LeaseOf(t))
      /\ \A t \in Tasks :
            /\ row[t].kind = "demo.crash"
            /\ row[t].attempt > 1 \/ (row[t].attempt = 1 /\ row[t].status = "pending")
            => FirstDied(t)

PassInv ==
    script.at = "pass" => /\ script.victim \in Tasks /\ script.recovered
                          /\ row[script.victim].status = "completed"
                          /\ row[script.victim].attempt > 1
                          /\ row[script.victim].kind = "demo.crash"

\* A dead process goes on naming what it named.
LEMMA DeadNames ==
    ASSUME IInv, [SNext]_svars, NEW w \in Workers, Dead(w)
    PROVE  Dead(w)' /\ \A l : Names(w, l) => Names(w, l)'
  <1>0. ~Live(w) /\ proc[w] # "stalled" /\ proc[w] # "steady"
    BY DEF Dead, Live
  <1>1. Dead(w)'
    <2>1. CASE SameFate
      BY <2>1 DEF SameFate, Dead
    <2>2. ASSUME NEW u \in Workers, Befall(u) PROVE Dead(w)'
      BY <1>0, <2>2 DEF Befall, Dead
    <2> QED BY <2>1, <2>2, Moves DEF Calm, Requeue, Grant, Proceed, Acknowledge, Admit
  <1>2. ASSUME NEW l, Names(w, l) PROVE Names(w, l)'
    <2>1. CASE SameLeases(w)
      BY <1>2, <2>1 DEF SameLeases, Names
    <2>2. ASSUME NEW u \in Workers,
                 (\E t \in Tasks : Grant(u, t)) \/ Proceed(u) \/ Acknowledge(u) \/ Befall(u)
          PROVE  Names(w, l)'
      <3>1. CASE u # w \/ Befall(u)
        BY <2>1, <2>2, <3>1 DEF Grant, Proceed, Acknowledge, Befall
      <3>2. CASE u = w /\ Acknowledge(w)
        BY <1>2, <3>2 DEF Acknowledge, Names
      <3>3. ~Proceed(w)
        BY <1>0 DEF Proceed
      <3>4. ASSUME NEW t \in Tasks PROVE ~Grant(w, t)
        BY <1>2 DEF Grant, Names, NoJob
      <3> QED BY <2>2, <3>1, <3>2, <3>3, <3>4
    <2> QED BY <2>1, <2>2, Moves DEF Calm, Requeue, Admit
  <1> QED BY <1>1, <1>2

LEMMA RecoverStep ==
    ASSUME IInv, IInv', LeaseInv, CrashInv, RecoverInv, [SNext]_svars
    PROVE  RecoverInv'
  <1> SUFFICES ASSUME stalls' = 0 PROVE RecoverInv'
    BY DEF RecoverInv
  <1>0. /\ \A t \in Tasks : row[t] \in RowSet /\ row'[t] \in RowSet
        /\ stalls = 0
    <2>1. stalls \in Nat
      BY UnitsAssumption DEF IInv, TypeOK
    <2>2. ASSUME NEW w \in Workers, Befall(w) PROVE stalls' = stalls \/ stalls' = stalls + 1
      BY <2>2 DEF Befall
    <2>3. stalls' = stalls \/ stalls' = stalls + 1
      BY <2>2, Moves DEF Calm, Requeue, Grant, Proceed, Acknowledge, Admit, SameFate
    <2> QED BY <2>1, <2>3 DEF IInv, TypeOK
  <1>1. ASSUME NEW w \in Workers
        PROVE  proc'[w] = proc[w] \/ (proc[w] = "steady" /\ proc'[w] = "dead" /\ Befall(w))
    <2>1. proc[w] \in {"steady", "dead"}
      BY <1>0 DEF RecoverInv
    <2>2. CASE SameFate
      BY <2>2 DEF SameFate
    <2>3. ASSUME NEW u \in Workers, Befall(u), u # w PROVE proc'[w] = proc[w]
      BY <2>3 DEF Befall
    <2>4. CASE Befall(w)
      BY <1>0, <2>1, <2>4 DEF Befall, Live, Dead
    <2> QED BY <2>2, <2>3, <2>4, Moves DEF Calm, Requeue, Grant, Proceed, Acknowledge, Admit
  <1>2. \A w \in Workers : proc'[w] \in {"steady", "dead"}
    BY <1>0, <1>1 DEF RecoverInv
  <1>3. ASSUME NEW w \in Workers, proc'[w] = "dead", NEW t \in Tasks, HeldBy(t, w)'
        PROVE  Names(w, LeaseOf(t))'
    <2>1. ASSUME SameRow(t)
          PROVE  HeldBy(t, w) /\ LeaseOf(t)' = LeaseOf(t)
      BY <1>3, <2>1 DEF SameRow, HeldBy, LeaseOf
    <2>2. CASE SameRow(t) /\ proc[w] = "dead"
      BY <1>0, <2>1, <2>2, DeadNames DEF RecoverInv, Dead
    <2>3. CASE SameRow(t) /\ proc[w] = "steady" /\ Befall(w)
      <3>1. Tended(w)
        BY <2>3 DEF IInv, WorkerInv, Steady
      <3>2. LeaseOf(t) # NoLease
        BY NoLeaseType DEF LeaseOf
      <3>3. Names(w, LeaseOf(t))
        BY <2>1, <2>3, <3>1, <3>2 DEF Tended, TendedBeat, TendedJobs, Names
      <3>4. SameLeases(w)
        BY <2>3 DEF Befall
      <3> QED BY <2>1, <2>3, <3>3, <3>4 DEF Names, SameLeases
    <2>4. ASSUME NEW u \in Workers, Grant(u, t), row'[t].holder = u PROVE Names(w, LeaseOf(t))'
      <3>1. u = w /\ row'[t].attempt = row[t].attempt + 1
        BY <1>3, <2>4 DEF HeldBy, Grant, Granted
      <3>2. LeaseOf(t)' = claim'[w].lease
        BY <2>4, <3>1 DEF Grant, LeaseOf
      <3>3. LeaseOf(t)' # NoLease
        BY NoLeaseType DEF LeaseOf
      <3> QED BY <3>2, <3>3 DEF Names
    <2> QED BY <1>1, <1>3, <2>2, <2>3, <2>4, RowMoves DEF HeldBy, RecoverInv
  <1>4. ASSUME NEW t \in Tasks, row'[t].kind = "demo.crash",
               row'[t].attempt > 1 \/ (row'[t].attempt = 1 /\ row'[t].status = "pending")
        PROVE  FirstDied(t)'
    <2>1. FirstDied(t) => FirstDied(t)'
      BY DeadNames DEF FirstDied
    <2>2. /\ row[t].kind = "demo.crash"
          /\ row[t].attempt > 1 \/ (row[t].attempt = 1 /\ row[t].status = "pending")
          => FirstDied(t)
      BY <1>0 DEF RecoverInv
    <2>3. CASE SameRow(t)
      BY <1>4, <2>1, <2>2, <2>3 DEF SameRow
    <2>4. ASSUME NEW w \in Workers, Grant(w, t), row'[t].attempt = row[t].attempt + 1,
                 row'[t].kind = row[t].kind
          PROVE  FirstDied(t)'
      <3>1. row[t].status = "pending" /\ row'[t].status = "running"
        BY <1>4, <2>4 DEF Grant, Granted, Claimable, CrashInv
      <3> QED BY <1>0, <1>4, <2>1, <2>2, <2>4, <3>1 DEF RowSet
    <2>5. CASE /\ row[t].status = "running" /\ Lapsed(t)
               /\ row'[t].attempt = row[t].attempt /\ row'[t].kind = row[t].kind
      <3>1. row[t].holder \in Workers /\ row[t].attempt > 0
        BY <2>5 DEF IInv, Swept, LeaseInv
      <3>2. CASE row[t].attempt > 1
        BY <1>4, <2>1, <2>2, <2>5, <3>2
      <3>3. CASE row[t].attempt = 1
        <4> DEFINE w == row[t].holder
        <4>1. HeldBy(t, w)
          BY <2>5 DEF HeldBy
        <4>2. proc[w] # "steady"
          BY <1>0, <2>5, <3>1, <4>1, SteadyInTime, UnitsAssumption DEF Lapsed, RowSet
        <4>3. proc[w] = "dead" /\ Names(w, LeaseOf(t))
          BY <1>0, <3>1, <4>1, <4>2 DEF RecoverInv
        <4>4. LeaseOf(t) = [task |-> t, attempt |-> 1]
          BY <3>3 DEF LeaseOf
        <4> HIDE DEF w
        <4>5. FirstDied(t)
          <5>1. w \in Workers
            BY <3>1 DEF w
          <5> QED BY <4>3, <4>4, <5>1 DEF FirstDied, Dead
        <4> QED BY <2>1, <4>5
      <3> QED BY <1>0, <3>1, <3>2, <3>3 DEF RowSet
    <2>6. CASE /\ row'[t].status # "pending"
               /\ row'[t].attempt = row[t].attempt /\ row'[t].kind = row[t].kind
      BY <1>4, <2>1, <2>2, <2>6
    <2>7. CASE row'[t].attempt = 0
      BY <1>4, <2>7
    <2> QED BY <2>3, <2>4, <2>5, <2>6, <2>7, RowMoves
  <1> QED BY <1>2, <1>3, <1>4 DEF RecoverInv

\* One turn of the loop of the script, clause by clause.
LEMMA WatchMoves ==
    ASSUME STypeOK, Watch
    PROVE  /\ script.at = "watch" /\ UNCHANGED <<vars, plan>>
           /\ script'.elapsed = script.elapsed /\ script'.polled = TRUE
           /\ script'.next = script.next /\ script' \in ScriptSet
           /\ \E t \in CrashIds :
                /\ script'.victim = IF /\ script.victim = NoTask
                                       /\ row[t].status = "running" /\ row[t].attempt = 1
                                    THEN t ELSE script.victim
                /\ script'.at = IF /\ t = script'.victim
                                   /\ row[t].status = "completed" /\ row[t].attempt >= 2
                                THEN "pass" ELSE "watch"
                /\ script'.at = "pass" => script'.recovered = TRUE
  <1> USE DEF ScriptSet
  <1>1. PICK t \in CrashIds : script' = [Seen(script, t) EXCEPT !.polled = TRUE]
    BY DEF Watch
  <1> DEFINE v == IF /\ script.victim = NoTask
                                       /\ row[t].status = "running" /\ row[t].attempt = 1
                  THEN t ELSE script.victim
             again == row[t].attempt >= 2
             recovered == script.recovered \/ row[t].status = "pending" \/ again
             done == row[t].status = "completed" /\ again /\ recovered
             saw == script.reassigned \/ (row[t].status = "running" /\ again)
  <1>2. /\ script.next \in Nat /\ script.elapsed \in 0..Deadline
        /\ script.recovered \in BOOLEAN /\ script.reassigned \in BOOLEAN
        /\ v \in Tasks \cup {NoTask} /\ script.at = "watch"
        /\ script = [at |-> script.at, next |-> script.next, victim |-> script.victim,
                     recovered |-> script.recovered, reassigned |-> script.reassigned,
                     elapsed |-> script.elapsed, polled |-> script.polled]
    BY DEF STypeOK, Watch, CrashIds
  <1>3. script' = [at |-> IF t = v /\ done THEN "pass" ELSE "watch", next |-> script.next,
                   victim |-> v,
                   recovered |-> IF t = v THEN recovered ELSE script.recovered,
                   reassigned |-> IF t = v THEN saw ELSE script.reassigned,
                   elapsed |-> script.elapsed, polled |-> TRUE]
    <2>1. CASE t # v
      BY <1>1, <1>2, <2>1 DEF Seen
    <2>2. CASE t = v
      BY <1>1, <1>2, <2>2 DEF Seen
    <2> QED BY <2>1, <2>2
  <1>4. again \in BOOLEAN /\ recovered \in BOOLEAN /\ saw \in BOOLEAN /\ (again => recovered)
    BY <1>2
  <1>5. (t = v /\ done) <=> (t = v /\ row[t].status = "completed" /\ again)
    BY <1>4
  <1>6. script'.victim = v /\ (script'.at = "pass" => script'.recovered = TRUE)
    <2>1. done => recovered = TRUE
      BY <1>4
    <2> HIDE DEF v, done, recovered, saw, again
    <2> QED BY <1>3, <2>1
  <1>7. script'.at = IF t = v /\ row[t].status = "completed" /\ again THEN "pass" ELSE "watch"
    <2> HIDE DEF v, done, recovered, saw, again
    <2> QED BY <1>3, <1>5
  <1>8. script' \in ScriptSet
    <2> HIDE DEF v, done, recovered, saw, again
    <2> QED BY <1>2, <1>3, <1>4
  <1>9. /\ script.at = "watch" /\ UNCHANGED <<vars, plan>>
        /\ script'.elapsed = script.elapsed /\ script'.polled = TRUE
        /\ script'.next = script.next
    <2> HIDE DEF v, done, recovered, saw, again
    <2> QED BY <1>2, <1>3 DEF Watch
  <1> QED BY <1>6, <1>7, <1>8, <1>9

LEMMA ScriptType ==
    ASSUME STypeOK, TypeOK', [SNext]_svars
    PROVE  STypeOK'
  <1> USE DEF ScriptSet
  <1>1. plan' = plan
    BY PlanStays
  <1>2. script \in ScriptSet /\ Deadline \in Nat
    BY ScenarioAssumption DEF STypeOK
  <1>3. script' \in ScriptSet
    <2>1. CASE Seed \/ List \/ GiveUp
      <3>1. CASE Seed
        BY <1>2, <3>1 DEF Seed
      <3>2. CASE List \/ GiveUp
        BY <1>2, <3>2 DEF List, GiveUp
      <3> QED BY <2>1, <3>1, <3>2
    <2>2. CASE Watch
      BY <2>2, WatchMoves
    <2>3. CASE Passes
      <3>1. script' = [script EXCEPT !.elapsed = script.elapsed + 1, !.polled = FALSE]
        BY <2>3 DEF Passes
      <3>2. script.elapsed + 1 \in 0..Deadline
        BY <1>2, <2>3 DEF Passes
      <3> QED BY <1>2, <3>1, <3>2
    <2>4. CASE SystemStep \/ Over \/ UNCHANGED svars
      BY <1>2, <2>4 DEF SystemStep, Over, svars
    <2> QED BY <2>1, <2>2, <2>3, <2>4 DEF SNext, ScriptStep
  <1> QED BY <1>1, <1>3 DEF STypeOK

LEMMA PassStep ==
    ASSUME STypeOK, IInv, PassInv, [SNext]_svars
    PROVE  PassInv'
  <1> SUFFICES ASSUME script'.at = "pass" PROVE PassInv'
    BY DEF PassInv
  <1>1. CASE Seed \/ List \/ GiveUp \/ Passes
    BY <1>1 DEF Seed, List, GiveUp, Passes, STypeOK, ScriptSet
  <1>2. CASE Watch
    <2>1. PICK t \in CrashIds :
            t = script'.victim /\ row[t].status = "completed" /\ row[t].attempt >= 2
      BY <1>2, WatchMoves
    <2>2. script'.recovered /\ row' = row
      BY <1>2, WatchMoves DEF vars
    <2>3. t \in Tasks /\ row[t].attempt \in Nat /\ row[t].kind = "demo.crash"
      BY DEF CrashIds, IInv, TypeOK, RowSet
    <2> QED BY <2>1, <2>2, <2>3 DEF PassInv
  <1>3. CASE SystemStep
    BY <1>3 DEF SystemStep, Ended
  <1>4. CASE Over \/ UNCHANGED svars
    BY <1>4 DEF Over, svars, vars, PassInv
  <1> QED BY <1>1, <1>2, <1>3, <1>4 DEF SNext, ScriptStep

DemoInv ==
    /\ IInv /\ STypeOK /\ LeaseInv /\ CrashInv /\ PlanInv
    /\ RecoverInv /\ PassInv

LEMMA DemoStart == SInit => DemoInv
  <1> SUFFICES ASSUME SInit PROVE DemoInv
    OBVIOUS
  <1>0. Init
    BY DEF SInit
  <1>1. IInv
    BY <1>0, InitInv
  <1>2. STypeOK
    <2>2. plan \in [Tasks -> DemoTypes]
      BY PlanStartType DEF PlanType
    <2> QED BY <1>1, <2>2, ScenarioAssumption DEF SInit, STypeOK, ScriptSet, IInv
  <1>3. \A t \in Tasks : row[t] = NoRow
    BY <1>0 DEF Init
  <1>4. \A w \in Workers : claim[w].lease = NoLease /\ job[w] = NoJob /\ proc[w] = "steady"
    BY <1>0 DEF Init
  <1>5. LeaseInv
    BY <1>3, <1>4 DEF LeaseInv, NoRow, Names, NoJob
  <1>6. CrashInv
    <2>1. \A t \in Tasks : row[t].kind = "demo.echo" /\ row[t].status = "none"
      BY <1>3 DEF NoRow
    <2>2. \A w \in Workers : job[w].at = "none" /\ ~Dead(w)
      BY <1>4 DEF NoJob, Dead
    <2>3. kills = 0 /\ IsFiniteSet({}) /\ Cardinality({}) <= 0
      BY <1>0, FS_EmptySet DEF Init
    <2> QED BY <2>1, <2>2, <2>3 DEF CrashInv
  <1>7. RecoverInv
    BY <1>3, <1>4 DEF RecoverInv, NoRow
  <1>8. PassInv
    BY DEF SInit, PassInv
  <1> QED BY <1>1, <1>2, <1>5, <1>6, <1>7, <1>8, PlanStart DEF DemoInv

LEMMA DemoStep == DemoInv /\ [SNext]_svars => DemoInv'
  <1> SUFFICES ASSUME DemoInv, [SNext]_svars PROVE DemoInv'
    OBVIOUS
  <1>1. IInv'
    BY ScenarioStep, NextInv DEF DemoInv, STypeOK, PlanType
  <1>2. STypeOK'
    BY <1>1, ScriptType DEF DemoInv, IInv
  <1>3. LeaseInv'
    BY <1>1, LeaseStep DEF DemoInv
  <1>4. CrashInv'
    BY <1>1, <1>3, CrashStep DEF DemoInv
  <1>5. PlanInv'
    BY PlanStays DEF DemoInv, PlanInv
  <1>6. RecoverInv'
    BY <1>1, RecoverStep DEF DemoInv
  <1>7. PassInv'
    BY PassStep DEF DemoInv
  <1> QED BY <1>1, <1>2, <1>3, <1>4, <1>5, <1>6, <1>7 DEF DemoInv

\* The rows, leases, processes and findings of the script fit together in every
\* state of the demo, which is a run of FailureDetection as well.
THEOREM DemoInvariance == SSpec => []DemoInv
  BY DemoStart, DemoStep, PTL DEF SSpec

\* "the guided demo kills exactly one worker instead of cascading through the
\* fleet": the cap of seedBridge.ts lets CrashCount crash tasks pass, and each of
\* them kills only the one process that has the lease of its first attempt.
THEOREM CrashesAreCapped == SSpec => []NoCascade
  BY DemoInvariance, FewDie, PTL DEF DemoInv

\* A PASS of the script tells the truth: without a stall, a second attempt is
\* granted only after the process that had the first died and its lease lapsed.
THEOREM PassTellsTheTruth == SSpec => []PassIsRecovery
  <1>1. DemoInv => PassIsRecovery
    <2> SUFFICES ASSUME DemoInv, script.at = "pass", stalls = 0
                 PROVE  /\ script.recovered /\ row[script.victim].status = "completed"
                        /\ \E w \in Workers :
                            /\ Dead(w)
                            /\ [task |-> script.victim, attempt |-> 1]
                                   \in {job[w].lease, claim[w].lease}
      BY DEF PassIsRecovery
    <2>1. /\ script.victim \in Tasks /\ script.recovered
          /\ row[script.victim].status = "completed" /\ row[script.victim].attempt > 1
          /\ row[script.victim].kind = "demo.crash"
      BY DEF DemoInv, PassInv
    <2>2. FirstDied(script.victim)
      BY <2>1 DEF DemoInv, RecoverInv
    <2> QED BY <2>1, <2>2 DEF FirstDied, Names
  <1> QED BY <1>1, DemoInvariance, PTL

-----------------------------------------------------------------------------
(* The demo: how long it takes *)

\* Nobody kills or stops a process from outside.
Quiet == kills = 0 /\ stalls = 0

JobAges == \A w \in Workers : job[w].age <= JobLimit(job[w])

\* From one claim of a worker to its next, unless the crash task is what it claims
\* (no other handler of the demo takes its time), and from the grant of the crash
\* task until its lease is recovered.
Cycle == 4 * Delay + Poll
Lost == 2 * Delay + Work + Overdue

\* How long a worker may take until its next claim is served.
TurnOf(j, c) ==
    CASE j.at = "run"  -> 3 * Delay + Poll
      [] j.at = "ack"  -> (Delay - j.age) + 2 * Delay + Poll
      [] j.at = "done" -> (Delay - j.age) + Delay + Poll
      [] j.at = "none" /\ c.at = "rest" -> (Poll - c.age) + Delay
      [] j.at = "none" /\ c.at = "ask"  -> Delay - c.age
      [] OTHER -> (Delay - c.age)
                    + IF c.lease = NoLease THEN Poll + Delay ELSE 3 * Delay + Poll

\* How long ago a worker was granted what it holds, and how long it may still
\* take to complete a second attempt of the crash task.
SpentOf(j, c) == IF j.at = "none" THEN c.age ELSE Delay + j.age
LeftOf(j, c) ==
    CASE j.at = "none" -> (Delay - c.age) + Delay
      [] j.at = "run"  -> Delay
      [] OTHER -> Delay - j.age

Turn(w) == TurnOf(job[w], claim[w])
Spent(w) == IF Dead(w) THEN Delay + Work + deadFor[w] ELSE SpentOf(job[w], claim[w])
Left(w) == LeftOf(job[w], claim[w])

\* Every task is claimed as often as its retry budget allows; one worker alone
\* would need Load for the claims that are left.
Tries == Tasks \X (1..MaxAttempts)
Ahead == {p \in Tries : row[p[1]].attempt < p[2]}
Load == Cardinality(Ahead) * Cycle
Full == Cardinality(Tries) * Cycle

\* When the crash task is completed at the latest.
Last == Full + Lost + 2 * Delay

Late(t) == IF row[t].attempt = 0 THEN 0 ELSE Lost

\* What waits to be claimed has an attempt left.
BudgetInv ==
    Quiet => \A t \in Tasks :
        row[t].status \in {"pending", "retrying"} => row[t].attempt < MaxAttempts

OnTime(t) ==
    LET e == script.elapsed IN
    /\ row[t].status = "pending" => \A w \in Workers : proc[w] = "steady" =>
          e + Turn(w) + Load <= Full + Cycle + Late(t)
    /\ row[t].status = "running" /\ row[t].attempt = 1 =>
          e + Load <= Full + Spent(row[t].holder)
    /\ row[t].status = "running" /\ row[t].attempt > 1 =>
          e + Left(row[t].holder) <= Last /\ proc[row[t].holder] = "steady"
    /\ row[t].status = "completed" => e <= Last \/ (e <= Last + 1 /\ ~script.polled)

\* The script has seen the first attempt of the crash task when that ends.
VictimInv ==
    /\ \A t \in Tasks : row[t].kind = "demo.crash" /\ row[t].attempt > 0 /\ script.victim = NoTask =>
        /\ row[t].status = "running" /\ row[t].attempt = 1
        /\ row[t].age = 0 \/ (row[t].age = 1 /\ ~script.polled)
    /\ script.victim # NoTask => row[script.victim].kind = "demo.crash"

WatchInv ==
    /\ script.at \in {"seed", "list"} => script.elapsed = 0 /\ script.victim = NoTask
    /\ script.at \in {"watch", "pass", "fail"} => CrashIds # {}

TimeInv ==
    Quiet =>
      /\ script.at = "watch" => \A t \in Tasks : row[t].kind = "demo.crash" => OnTime(t)
      /\ script.at # "fail"

Patient ==
    /\ CrashCount = 1 /\ Workers # {} /\ \A w \in Workers : Workers # {w}
    /\ MaxAttempts >= 2 /\ Deadline >= Last + 2

LEMMA TriesFinite == IsFiniteSet(Tries) /\ Cardinality(Tries) = Cardinality(Tasks) * MaxAttempts
  <1>1. MaxAttempts \in Nat
    BY UnitsAssumption
  <1>2. IsFiniteSet(1..MaxAttempts) /\ Cardinality(1..MaxAttempts) = MaxAttempts
    BY <1>1, FS_Interval
  <1> QED BY <1>2, ScenarioAssumption, FS_Product DEF Tries

LEMMA Sizes ==
    /\ Cycle \in Nat /\ Lost \in Nat /\ Full \in Nat /\ Last \in Nat
    /\ {Work, Delay, Poll, Overdue, Lease} \subseteq Nat /\ Lease >= 1
    /\ \A n \in Nat : n * Cycle \in Nat /\ (n + 1) * Cycle = n * Cycle + Cycle
    /\ \A m, n \in Nat : m <= n => m * Cycle <= n * Cycle
  <1>1. {Work, Delay, Poll, Lease} \subseteq Nat /\ Lease >= 1
    BY UnitsAssumption, TimingAssumption
  <1>2. Cycle \in Nat /\ Lost \in Nat
    BY <1>1, OverdueNat DEF Cycle, Lost
  <1>3. /\ \A n \in Nat : n * Cycle \in Nat /\ (n + 1) * Cycle = n * Cycle + Cycle
        /\ \A m, n \in Nat : m <= n => m * Cycle <= n * Cycle
    <2> DEFINE c == Cycle
    <2>1. c \in Nat
      BY <1>2
    <2> HIDE DEF c
    <2>2. /\ \A n \in Nat : n * c \in Nat /\ (n + 1) * c = n * c + c
          /\ \A m, n \in Nat : m <= n => m * c <= n * c
      BY <2>1
    <2> QED BY <2>2 DEF c
  <1>4. Full \in Nat
    BY <1>3, TriesFinite, FS_CardinalityType DEF Full
  <1>5. Last \in Nat
    BY <1>1, <1>2, <1>4 DEF Last
  <1> QED BY <1>1, <1>2, <1>3, <1>4, <1>5, OverdueNat

LEMMA LoadBounds ==
    ASSUME IInv
    PROVE  /\ IsFiniteSet(Ahead) /\ Cardinality(Ahead) \in Nat
           /\ Load \in Nat /\ Load <= Full
           /\ \A t \in Tasks : row[t].attempt < MaxAttempts => Load >= Cycle
  <1>1. IsFiniteSet(Tries) /\ Ahead \in SUBSET Tries
    BY TriesFinite DEF Ahead
  <1>2. /\ IsFiniteSet(Ahead) /\ Cardinality(Ahead) <= Cardinality(Tries)
        /\ Cardinality(Ahead) \in Nat /\ Cardinality(Tries) \in Nat
    BY <1>1, FS_Subset, FS_CardinalityType
  <1>3. Load \in Nat /\ Load <= Full
    BY <1>2, Sizes DEF Load, Full
  <1>4. ASSUME NEW t \in Tasks, row[t].attempt < MaxAttempts PROVE Load >= Cycle
    <2>1. Ahead # {}
      <3>1. MaxAttempts \in Nat \ {0} /\ row[t].attempt \in Nat
        BY UnitsAssumption DEF IInv, TypeOK, RowSet
      <3>2. <<t, MaxAttempts>> \in Ahead
        BY <1>4, <3>1 DEF Ahead, Tries
      <3> QED BY <3>2
    <2>2. Cardinality(Ahead) # 0
      BY <1>2, <2>1, FS_EmptySet
    <2>3. PICK n \in Nat : Cardinality(Ahead) = n + 1
      <3>1. /\ Cardinality(Ahead) - 1 \in Nat
            /\ Cardinality(Ahead) = (Cardinality(Ahead) - 1) + 1
        BY <1>2, <2>2
      <3> QED BY <3>1
    <2> QED BY <2>3, Sizes DEF Load
  <1> QED BY <1>2, <1>3, <1>4

\* Claims that are left, before and after one of them is made.
LEMMA OneMore ==
    ASSUME NEW S \in SUBSET Tries, NEW T \in SUBSET Tries, NEW p \in Tries
    PROVE  /\ T \subseteq S => Cardinality(T) * Cycle <= Cardinality(S) * Cycle
           /\ p \in S /\ T = S \ {p} => Cardinality(T) * Cycle + Cycle = Cardinality(S) * Cycle
  <1>1. /\ IsFiniteSet(S) /\ IsFiniteSet(T)
        /\ Cardinality(S) \in Nat /\ Cardinality(T) \in Nat
    BY TriesFinite, FS_Subset, FS_CardinalityType
  <1>2. ASSUME T \subseteq S PROVE Cardinality(T) <= Cardinality(S)
    BY <1>1, <1>2, FS_Subset
  <1>4. ASSUME p \in S, T = S \ {p}
        PROVE  Cardinality(S) = Cardinality(T) + 1
    <2>1. Cardinality(T) = IF p \in S THEN Cardinality(S) - 1 ELSE Cardinality(S)
      BY <1>1, <1>4, FS_RemoveElement
    <2> QED BY <1>1, <1>4, <2>1
  <1>5. T \subseteq S => Cardinality(T) * Cycle <= Cardinality(S) * Cycle
    BY <1>1, <1>2, Sizes
  <1>7. p \in S /\ T = S \ {p} => Cardinality(T) * Cycle + Cycle = Cardinality(S) * Cycle
    BY <1>1, <1>4, Sizes
  <1> QED BY <1>5, <1>7

\* With one crash task asked for, there is one at most.
LEMMA OneCrash ==
    ASSUME CrashCount = 1, LeaseInv, CrashInv, PlanInv, NEW s \in Tasks, NEW t \in Tasks,
           row[s].kind = "demo.crash", row[t].kind = "demo.crash"
    PROVE  s = t
  <1> DEFINE S == {i \in Tasks : plan[i] = "demo.crash"}
  <1>0. row[s].status # "none" /\ row[t].status # "none"
    BY DEF LeaseInv, NoRow
  <1>1. IsFiniteSet(S) /\ Cardinality(S) <= 1 /\ s \in S /\ t \in S
    BY <1>0 DEF PlanInv, CrashInv
  <1>2. Cardinality(S) = 1
    <2>1. Cardinality(S) \in Nat
      BY <1>1, FS_CardinalityType
    <2>2. Cardinality(S) # 0
      BY <1>1, FS_EmptySet
    <2> QED BY <1>1, <2>1, <2>2
  <1>3. PICK x : S = {x}
    BY <1>1, <1>2, FS_Singleton
  <1> QED BY <1>1, <1>3

\* Undisturbed, every process is steady or died of the crash task.
LEMMA Untroubled ==
    ASSUME DemoInv, Quiet, NEW w \in Workers
    PROVE  /\ proc[w] \in {"steady", "dead"}
           /\ proc[w] = "dead" =>
                /\ Fatal(w) /\ claim[w].at = "rest" /\ claim[w].lease = NoLease
                /\ \A t \in Tasks : HeldBy(t, w) =>
                      /\ job[w].lease = LeaseOf(t) /\ row[t].kind = "demo.crash" /\ row[t].attempt = 1
  <1>1. proc[w] \in {"steady", "dead"}
    BY DEF DemoInv, RecoverInv, Quiet
  <1>2. Dead(w) => Fatal(w)
    <2>1. PICK K \in SUBSET Workers :
            /\ IsFiniteSet(K) /\ Cardinality(K) <= kills
            /\ \A u \in Workers \ K : Dead(u) => Fatal(u)
      BY DEF DemoInv, CrashInv
    <2>2. Cardinality(K) \in Nat /\ Cardinality(K) <= 0
      BY <2>1, FS_CardinalityType DEF Quiet
    <2>3. Cardinality(K) = 0
      BY <2>2
    <2>4. K = {}
      BY <2>1, <2>3, FS_EmptySet
    <2> QED BY <2>1, <2>4
  <1>3. ASSUME proc[w] = "dead"
        PROVE  Fatal(w) /\ claim[w].at = "rest" /\ claim[w].lease = NoLease
    <2>1. Fatal(w) /\ Loops(w) /\ claim[w] \in ClaimSet
      BY <1>2, <1>3 DEF Dead, DemoInv, IInv, WorkerInv, TypeOK
    <2>2. job[w] # NoJob
      BY <2>1 DEF Fatal, NoJob
    <2> QED BY <2>1, <2>2 DEF Loops, ClaimSet
  <1>4. ASSUME proc[w] = "dead", NEW t \in Tasks, HeldBy(t, w)
        PROVE  job[w].lease = LeaseOf(t) /\ row[t].kind = "demo.crash" /\ row[t].attempt = 1
    <2>1. Names(w, LeaseOf(t))
      BY <1>4 DEF DemoInv, RecoverInv, Quiet
    <2>2. job[w].lease = LeaseOf(t)
      BY <1>3, <1>4, <2>1 DEF Names
    <2> QED BY <1>3, <1>4, <2>2 DEF Fatal, LeaseOf
  <1> QED BY <1>1, <1>3, <1>4

\* Only the crash task is recovered, from the process it killed.
LEMMA Lapses ==
    ASSUME DemoInv, Quiet, NEW t \in Tasks, Lapsed(t)
    PROVE  /\ row[t].kind = "demo.crash" /\ row[t].attempt = 1 /\ row[t].status = "running"
           /\ row[t].holder \in Workers /\ proc[row[t].holder] = "dead"
           /\ deadFor[row[t].holder] <= Delay + Overdue
  <1> DEFINE w == row[t].holder
  <1>1. w \in Workers /\ HeldBy(t, w) /\ row[t].status = "running"
    BY DEF Lapsed, DemoInv, IInv, Swept, HeldBy
  <1>2. proc[w] # "steady"
    BY <1>1, SteadyInTime, UnitsAssumption DEF Lapsed, DemoInv, IInv, TypeOK, RowSet
  <1>3. proc[w] = "dead" /\ row[t].kind = "demo.crash" /\ row[t].attempt = 1
    BY <1>1, <1>2, Untroubled
  <1>4. deadFor[w] <= Delay + Overdue
    BY <1>1, <1>3, RecoveredBound DEF DemoInv, RecoveredInTime, Dead
  <1> QED BY <1>1, <1>3, <1>4

\* Where the lease of a row is that a steady process holds.
LEMMA Holder ==
    ASSUME DemoInv, NEW t \in Tasks, NEW w \in Workers, HeldBy(t, w), proc[w] = "steady"
    PROVE  \/ /\ claim[w].at = "answer" /\ claim[w].lease = LeaseOf(t) /\ claim[w].lease # NoLease
              /\ job[w] = NoJob /\ job[w].at = "none"
           \/ /\ job[w].at \in {"run", "ack"} /\ job[w].lease = LeaseOf(t)
              /\ claim[w].at = "rest" /\ claim[w].lease = NoLease
              /\ row[t].kind = "demo.crash" /\ row[t].attempt = 1 => job[w].at = "run"
  <1>1. Loops(w) /\ Tended(w) /\ claim[w] \in ClaimSet
    BY DEF DemoInv, IInv, TypeOK, WorkerInv, Steady
  <1>2. LeaseOf(t) # NoLease /\ NoJob.at = "none"
    BY NoLeaseType DEF LeaseOf, NoJob
  <1>3. CASE claim[w].lease = LeaseOf(t)
    BY <1>1, <1>2, <1>3 DEF Loops, ClaimSet
  <1>4. CASE job[w].at \in {"run", "ack"} /\ job[w].lease = LeaseOf(t)
    <2>1. row[t].kind = "demo.crash" /\ row[t].attempt = 1 => job[w].at # "ack"
      BY <1>4 DEF DemoInv, CrashInv, LeaseOf
    <2> QED BY <1>1, <1>2, <1>4, <2>1 DEF Loops, ClaimSet
  <1> QED BY <1>1, <1>3, <1>4 DEF Tended, TendedBeat, TendedJobs

LEMMA Ages ==
    ASSUME DemoInv, JobAges, NEW w \in Workers
    PROVE  /\ claim[w].age \in Nat /\ job[w].age \in Nat /\ deadFor[w] \in Nat
           /\ claim[w].at \in {"rest", "ask", "answer"}
           /\ job[w].at \in {"none", "run", "aborted", "ack", "done"}
           /\ claim[w].age <= ClaimLimit(claim[w].at) /\ job[w].age <= JobLimit(job[w])
           /\ claim[w].at # "rest" => job[w] = NoJob /\ job[w].at = "none"
           /\ claim[w].at # "answer" => claim[w].lease = NoLease
           /\ job[w].at = "none" => job[w] = NoJob
           /\ proc[w] = "steady" => job[w].at # "aborted"
  BY DEF DemoInv, IInv, TypeOK, ClaimSet, JobSet, WorkerInv, Loops, JobAges, Steady, Tended, TendedBeat, TendedJobs, NoJob

\* What is known of the loops of a steady process while the crash task waits.
Fits(j, c) ==
    /\ j.age \in Nat /\ c.age \in Nat
    /\ c.at \in {"rest", "ask", "answer"} /\ j.at \in {"none", "run", "ack", "done"}
    /\ c.age <= ClaimLimit(c.at) /\ (j.at \in {"ack", "done"} => j.age <= Delay)
    /\ c.at # "rest" => j.at = "none"

LEMMA Turns ==
    ASSUME NEW j, NEW c, Fits(j, c)
    PROVE  /\ TurnOf(j, c) \in Nat /\ TurnOf(j, c) <= Cycle
           /\ j.at = "run" => TurnOf(j, c) = 3 * Delay + Poll
           /\ j.at = "ack" => TurnOf(j, c) = (Delay - j.age) + 2 * Delay + Poll
           /\ j.at = "done" => TurnOf(j, c) = (Delay - j.age) + Delay + Poll
           /\ j.at = "none" /\ c.at = "rest" => TurnOf(j, c) = (Poll - c.age) + Delay
           /\ j.at = "none" /\ c.at = "ask" => TurnOf(j, c) = Delay - c.age
           /\ j.at = "none" /\ c.at = "answer" =>
                TurnOf(j, c) = (Delay - c.age)
                    + IF c.lease = NoLease THEN Poll + Delay ELSE 3 * Delay + Poll
  <1> USE Sizes
  <1>1. CASE j.at = "run"
    BY <1>1 DEF TurnOf, Fits, Cycle
  <1>2. CASE j.at = "ack"
    BY <1>2 DEF TurnOf, Fits, Cycle
  <1>3. CASE j.at = "done"
    BY <1>3 DEF TurnOf, Fits, Cycle
  <1>4. CASE j.at = "none" /\ c.at = "rest"
    BY <1>4 DEF TurnOf, Fits, Cycle, ClaimLimit
  <1>5. CASE j.at = "none" /\ c.at = "ask"
    BY <1>5 DEF TurnOf, Fits, Cycle, ClaimLimit
  <1>6. CASE j.at = "none" /\ c.at = "answer"
    <2>1. TurnOf(j, c) = (Delay - c.age)
                    + IF c.lease = NoLease THEN Poll + Delay ELSE 3 * Delay + Poll
      BY <1>6 DEF TurnOf
    <2>2. c.age <= Delay /\ c.age \in Nat
      BY <1>6 DEF Fits, ClaimLimit
    <2>3. TurnOf(j, c) \in Nat /\ TurnOf(j, c) <= Cycle
      <3>1. Delay \in Nat /\ Poll \in Nat
        BY Sizes
      <3>2. TurnOf(j, c) \in {(Delay - c.age) + (Poll + Delay),
                              (Delay - c.age) + (3 * Delay + Poll)}
        BY <2>1
      <3> QED BY <2>2, <3>1, <3>2 DEF Cycle
    <2> QED BY <1>6, <2>1, <2>3
  <1> QED BY <1>1, <1>2, <1>3, <1>4, <1>5, <1>6 DEF Fits

LEMMA SteadyFits ==
    ASSUME DemoInv, JobAges, NEW w \in Workers, proc[w] = "steady"
    PROVE  Fits(job[w], claim[w])
  BY Ages DEF Fits, JobLimit

LEMMA SteadyFitsNext ==
    ASSUME DemoInv', NEW w \in Workers, proc'[w] = "steady"
    PROVE  Fits(job'[w], claim'[w])
  <1>1. job'[w] \in JobSet /\ claim'[w] \in ClaimSet
    BY DEF DemoInv, IInv, TypeOK
  <1>2. /\ job'[w].at \in {"ack", "done"} => job'[w].age <= Delay
        /\ claim'[w].age <= ClaimLimit(claim'[w].at)
    BY DEF DemoInv, IInv, WorkerInv, Loops, ClaimLimit
  <1>3. job'[w].at # "aborted" /\ (claim'[w].at # "rest" => job'[w].at = "none")
    BY DEF DemoInv, IInv, WorkerInv, Loops, Steady, Tended, TendedBeat, TendedJobs, NoJob
  <1> QED BY <1>1, <1>2, <1>3 DEF Fits, JobSet, ClaimSet

\* The crash task is the only one that takes its time, and only the first time.
LEMMA Brisk ==
    ASSUME CrashCount = 1, DemoInv, NEW w \in Workers, proc[w] = "steady", job[w].at = "run",
           NEW t \in Tasks, row[t].kind = "demo.crash",
           row[t].status = "pending" \/ row[t].attempt > 1
    PROVE  JobLimit(job[w]) = 0
  <1> DEFINE s == job[w].lease.task
  <1>1. s \in Tasks /\ row[s].status = "running" /\ row[s].attempt = job[w].lease.attempt
    BY DEF DemoInv, IInv, WorkerInv, Steady, Tended, TendedJobs, Owns
  <1>2. row[s].kind \in DemoTypes
    BY <1>1 DEF DemoInv, CrashInv, STypeOK
  <1>3. row[s].kind # "demo.sleep"
    BY <1>2 DEF DemoTypes
  <1>4. ~(row[s].kind = "demo.crash" /\ job[w].lease.attempt = 1)
    <2>1. row[s].kind = "demo.crash" => s = t
      BY <1>1, OneCrash DEF DemoInv
    <2> QED BY <1>1, <2>1
  <1> QED BY <1>3, <1>4 DEF JobLimit, Slow, Kills

LEMMA SystemMoves ==
    ASSUME IInv, SystemStep
    PROVE  \/ Calm \/ Requeue
           \/ \E w \in Workers :
                (\E t \in Tasks : Grant(w, t)) \/ Proceed(w) \/ Acknowledge(w) \/ Befall(w)
  BY WorkerMoves, ReaperMoves DEF SystemStep

\* The system makes no rows.
LEMMA NoNewRows ==
    ASSUME IInv, SystemStep, NEW t \in Tasks, row[t].status = "none"
    PROVE  row'[t].status = "none"
  <1>1. CASE SameRow(t)
    BY <1>1 DEF SameRow
  <1>2. ASSUME NEW w \in Workers, NEW s \in Tasks, Grant(w, s) PROVE SameRow(t)
    BY <1>2 DEF Grant, Claimable
  <1>3. ASSUME NEW w \in Workers, Acknowledge(w) PROVE SameRow(t)
    BY <1>3 DEF Acknowledge, Owns
  <1>4. CASE Requeue
    BY <1>1, <1>4 DEF Requeue, Lapsed
  <1> QED BY <1>1, <1>2, <1>3, <1>4, SystemMoves DEF Calm, Proceed, Befall

\* A claim makes the load one claim less; nothing makes it more.
LEMMA LoadMoves ==
    ASSUME DemoInv, DemoInv', Quiet, BudgetInv, SystemStep
    PROVE  /\ \A w \in Workers, t \in Tasks : Grant(w, t) => Load' + Cycle = Load
           /\ Load' <= Load /\ Load' \in Nat
  <1>0. /\ Ahead \in SUBSET Tries /\ Ahead' \in SUBSET Tries /\ [SNext]_svars
        /\ Load = Cardinality(Ahead) * Cycle /\ Load' = Cardinality(Ahead') * Cycle
        /\ \A t \in Tasks : row[t] \in RowSet /\ row'[t] \in RowSet
        /\ MaxAttempts \in Nat \ {0}
    BY UnitsAssumption DEF Ahead, Tries, Load, Cycle, SNext, DemoInv, IInv, TypeOK
  <1>1. ASSUME NEW w \in Workers, NEW t \in Tasks, Grant(w, t) PROVE Load' + Cycle = Load
    <2>1. /\ row[t].status \in {"pending", "retrying"}
          /\ row'[t].attempt = row[t].attempt + 1
      BY <1>1 DEF Grant, Granted, Claimable
    <2>2. \A s \in Tasks \ {t} : row'[s].attempt = row[s].attempt
      BY <1>1 DEF Grant, SameRow
    <2>3. row[t].attempt < MaxAttempts /\ row[t].attempt \in Nat
      BY <1>0, <2>1 DEF BudgetInv, RowSet
    <2> DEFINE p == <<t, row[t].attempt + 1>>
    <2>4. p \in Ahead
      BY <1>0, <2>3 DEF Ahead, Tries
    <2>5. ASSUME NEW q \in Tries PROVE q \in Ahead' <=> (q \in Ahead /\ q # p)
      <3>1. PICK s \in Tasks, n \in 1..MaxAttempts : q = <<s, n>>
        BY DEF Tries
      <3>2. CASE s = t
        BY <1>0, <2>1, <2>3, <3>1, <3>2 DEF Ahead
      <3>3. CASE s # t
        BY <2>2, <3>1, <3>3 DEF Ahead
      <3> QED BY <3>2, <3>3
    <2>6. Ahead' = Ahead \ {p}
      BY <1>0, <2>5
    <2>7. p \in Tries
      BY <1>0, <2>4
    <2> HIDE DEF p
    <2> QED BY <1>0, <2>4, <2>6, <2>7, OneMore
  <1>2. \A t \in Tasks : row'[t].attempt >= row[t].attempt
    BY <1>0, RowMoves DEF DemoInv, SameRow, RowSet
  <1>3. Ahead' \subseteq Ahead
    <2>1. ASSUME NEW q \in Tries, q \in Ahead' PROVE q \in Ahead
      <3>1. PICK s \in Tasks, n \in 1..MaxAttempts : q = <<s, n>>
        BY DEF Tries
      <3> QED BY <1>0, <1>2, <2>1, <3>1 DEF Ahead, RowSet
    <2> QED BY <1>0, <2>1
  <1>4. Load' <= Load
    <2>1. CASE Tries = {}
      <3>1. Ahead' = Ahead
        BY <1>0, <2>1
      <3> QED BY <1>0, <3>1, LoadBounds DEF DemoInv
    <2>2. ASSUME NEW p \in Tries PROVE Load' <= Load
      BY <1>0, <1>3, <2>2, OneMore
    <2> QED BY <2>1, <2>2
  <1>5. Load' \in Nat
    <2>1. Cardinality(Ahead') \in Nat
      BY <1>0, TriesFinite, FS_Subset, FS_CardinalityType
    <2> QED BY <1>0, <2>1, Sizes
  <1> QED BY <1>1, <1>4, <1>5

\* A step of the system is that of one process, or of none.
LEMMA Alone ==
    ASSUME IInv, SystemStep, NEW w \in Workers
    PROVE  /\ deadFor' = deadFor
           /\ \/ WorkerStep(w)
              \/ claim'[w] = claim[w] /\ job'[w] = job[w] /\ proc'[w] = proc[w]
  <1>0. claim \in [Workers -> ClaimSet] /\ job \in [Workers -> JobSet]
    BY DEF IInv, TypeOK
  <1>1. ASSUME NEW u \in Workers, WorkerStep(u), u # w
        PROVE  claim'[w] = claim[w] /\ job'[w] = job[w] /\ proc'[w] = proc[w]
    BY <1>0, <1>1 DEF IInv, TypeOK, WorkerStep, SendBeat, ServeBeat, HearBeat,
         ServeEnroll, SendClaim, ServeClaim,
       HearClaim, Finish, ServeAck, HearAck, Crash, Kill, Stall, Wake, Die
  <1>2. ASSUME NEW u \in Workers, WorkerStep(u) PROVE deadFor' = deadFor
    BY <1>2 DEF WorkerStep, SendBeat, ServeBeat, HearBeat, ServeEnroll, SendClaim, ServeClaim,
       HearClaim, Finish, ServeAck, HearAck, Crash, Kill, Stall, Wake, Die
  <1>3. ASSUME Reaper
        PROVE  deadFor' = deadFor /\ claim' = claim /\ job' = job /\ proc' = proc
    BY <1>3 DEF Reaper, ReaperMark, ReaperRecover, ReaperThrows, process
  <1> QED BY <1>1, <1>2, <1>3 DEF SystemStep

\* What a process does to its loops, undisturbed.
LEMMA Paces ==
    ASSUME DemoInv, DemoInv', JobAges, Quiet, Quiet', NEW w \in Workers, WorkerStep(w)
    PROVE  \/ claim'[w] = claim[w] /\ job'[w] = job[w] /\ proc'[w] = proc[w]
           \/ /\ proc[w] = "steady" /\ proc'[w] = "steady"
              /\ \/ /\ claim[w].at = "rest" /\ claim[w].age = Poll /\ job'[w] = job[w]
                    /\ claim'[w].age = 0 /\ claim'[w].lease = NoLease
                    /\ claim'[w].at = IF job[w].at = "none" THEN "ask" ELSE "rest"
                 \/ /\ claim[w].at = "ask" /\ claim'[w].at = "answer" /\ claim'[w].age = 0
                    /\ job'[w] = job[w]
                    /\ \/ \E t \in Tasks : Grant(w, t)
                       \/ \A t \in Tasks : ~Claimable(t)
                 \/ /\ claim[w].at = "answer" /\ claim'[w].at = "rest" /\ claim'[w].age = 0
                    /\ \/ claim[w].lease = NoLease /\ job'[w] = job[w]
                       \/ claim[w].lease # NoLease /\ job'[w].at = "run" /\ job'[w].age = 0
                 \/ /\ job[w].at = "run" /\ job'[w].at = "ack" /\ job'[w].age = 0
                    /\ ~Crashes(w) /\ claim'[w] = claim[w]
                 \/ /\ job[w].at = "ack" /\ job'[w].at = "done" /\ job'[w].age = 0
                    /\ claim'[w] = claim[w]
                    /\ Owns(w, job[w].lease) => row'[job[w].lease.task].status # "running"
                 \/ /\ job[w].at = "done" /\ job'[w] = NoJob /\ claim'[w] = claim[w]
           \/ /\ proc[w] = "steady" /\ proc'[w] = "dead" /\ Crashes(w) /\ job[w].age = Work
              /\ claim'[w] = claim[w] /\ job'[w] = job[w]
  <1>0. /\ claim[w] \in ClaimSet /\ job[w] \in JobSet /\ proc[w] \in {"steady", "dead"}
        /\ proc'[w] \in {"steady", "dead"}
        /\ claim \in [Workers -> ClaimSet] /\ job \in [Workers -> JobSet]
        /\ row \in [Tasks -> RowSet]
        /\ proc \in [Workers -> {"steady", "stalled", "woken", "dead", "lost"}]
        /\ kills = 0 /\ stalls = 0 /\ kills' = 0 /\ stalls' = 0
    BY DEF DemoInv, IInv, TypeOK, RecoverInv, Quiet
  <1>1. Live(w) => proc[w] = "steady"
    BY <1>0 DEF Live
  <1>2. proc[w] = "steady" => job[w].at # "aborted"
    BY Ages
  <1>3. proc'[w] = "steady" => job'[w].at # "aborted"
    BY DEF DemoInv, IInv, WorkerInv, Steady, Tended, TendedBeat, TendedJobs
  <1>4. proc[w] = "dead" => Fatal(w) /\ claim[w].at = "rest"
    BY Untroubled
  <1>5. job[w].at = "none" <=> job[w] = NoJob
    BY Ages DEF NoJob
  <1>6. CASE SendBeat(w) \/ ServeBeat(w) \/ ServeEnroll(w)
    BY <1>6 DEF SendBeat, ServeBeat, ServeEnroll
  <1>7. CASE HearBeat(w)
    <2>1. claim' = claim /\ proc' = proc /\ Live(w)
      BY <1>7 DEF HearBeat
    <2>2. job'[w] = job[w] \/ job'[w] = [job[w] EXCEPT !.at = "aborted"]
      BY <1>0, <1>7 DEF HearBeat
    <2>3. job'[w] # [job[w] EXCEPT !.at = "aborted"]
      <3>1. [job[w] EXCEPT !.at = "aborted"].at = "aborted"
        BY <1>0 DEF JobSet
      <3> QED BY <1>1, <1>3, <2>1, <3>1
    <2> QED BY <2>1, <2>2, <2>3
  <1>8. CASE SendClaim(w)
    <2>1. /\ proc' = proc /\ job' = job /\ Live(w) /\ claim[w].at = "rest" /\ claim[w].age = Poll
          /\ claim'[w] = ClaimPhase(IF job[w] = NoJob THEN "ask" ELSE "rest", NoLease)
      BY <1>0, <1>8 DEF SendClaim
    <2>2. /\ claim'[w].age = 0 /\ claim'[w].lease = NoLease
          /\ claim'[w].at = IF job[w].at = "none" THEN "ask" ELSE "rest"
      BY <1>5, <2>1 DEF ClaimPhase
    <2> QED BY <1>1, <2>1, <2>2
  <1>9. CASE ServeClaim(w)
    <2>1. /\ proc' = proc /\ job' = job /\ claim[w].at = "ask"
          /\ claim'[w].at = "answer" /\ claim'[w].age = 0
      BY <1>0, <1>9 DEF ServeClaim, ClaimPhase
    <2>2. proc[w] = "steady"
      BY <1>0, <1>4, <2>1
    <2>3. claim[w].lease = NoLease
      BY <2>1, Ages
    <2>4. (\E t \in Tasks : Grant(w, t)) \/ \A t \in Tasks : ~Claimable(t)
      <3>1. ASSUME NEW t \in Tasks, claim'[w].lease = [task |-> t, attempt |-> row[t].attempt + 1]
            PROVE  \E s \in Tasks : Grant(w, s)
        <4>1. claim'[w].lease # NoLease
          BY <3>1, NamesAssumption DEF NoLease
        <4>2. ~SameLeases(w)
          BY <2>3, <4>1 DEF SameLeases
        <4>3. ~Proceed(w) /\ ~Acknowledge(w)
          BY <2>3, <4>1 DEF Proceed, Acknowledge
        <4> QED BY <4>2, <4>3, WorkerMoves DEF Calm, Befall, DemoInv
      <3>2. ASSUME NEW t \in Tasks,
                   claim' = [claim EXCEPT ![w] = ClaimPhase("answer",
                                [task |-> t, attempt |-> row[t].attempt + 1])]
            PROVE  claim'[w].lease = [task |-> t, attempt |-> row[t].attempt + 1]
        BY <1>0, <3>2 DEF ClaimPhase
      <3> QED BY <1>9, <3>1, <3>2 DEF ServeClaim
    <2> QED BY <2>1, <2>2, <2>4
  <1>10. CASE HearClaim(w)
    <2>1. /\ proc' = proc /\ Live(w) /\ claim[w].at = "answer"
          /\ claim'[w] = ClaimPhase("rest", NoLease)
          /\ job'[w] = IF claim[w].lease = NoLease THEN job[w]
                        ELSE JobPhase("run", claim[w].lease)
      BY <1>0, <1>10 DEF HearClaim
    <2>2. claim'[w].at = "rest" /\ claim'[w].age = 0
      BY <2>1 DEF ClaimPhase
    <2>3. \/ claim[w].lease = NoLease /\ job'[w] = job[w]
          \/ claim[w].lease # NoLease /\ job'[w].at = "run" /\ job'[w].age = 0
      BY <2>1 DEF JobPhase
    <2> QED BY <1>1, <2>1, <2>2, <2>3
  <1>11. CASE Finish(w)
    <2>1. /\ proc' = proc /\ claim' = claim /\ Live(w) /\ ~Crashes(w) /\ job[w].at = "run"
          /\ job'[w] = JobPhase("ack", job[w].lease)
      BY <1>0, <1>1, <1>2, <1>11 DEF Finish
    <2> QED BY <1>1, <2>1 DEF JobPhase
  <1>12. CASE ServeAck(w)
    <2>1. /\ proc' = proc /\ claim' = claim /\ job[w].at = "ack"
          /\ job'[w] = JobPhase("done", job[w].lease)
      BY <1>0, <1>12 DEF ServeAck
    <2>2. proc[w] = "steady"
      BY <1>0, <1>4, <2>1 DEF Fatal
    <2>3. Owns(w, job[w].lease) => row'[job[w].lease.task].status # "running"
      <3>1. ASSUME Owns(w, job[w].lease)
            PROVE  row'[job[w].lease.task] = Acknowledged(row[job[w].lease.task])
        BY <1>0, <1>12, <3>1 DEF ServeAck, Owns
      <3>2. \A r \in RowSet : Acknowledged(r).status # "running"
        BY RowAcknowledged
      <3> QED BY <1>0, <3>1, <3>2 DEF Owns
    <2> QED BY <2>1, <2>2, <2>3 DEF JobPhase
  <1>13. CASE HearAck(w)
    BY <1>0, <1>1, <1>13 DEF HearAck
  <1>14. CASE Crash(w)
    BY <1>0, <1>1, <1>14 DEF Crash, Die
  <1>15. CASE Kill(w) \/ Stall(w) \/ Wake(w)
    BY <1>0, <1>15 DEF Kill, Stall, Wake
  <1> QED BY <1>6, <1>7, <1>8, <1>9, <1>10, <1>11, <1>12, <1>13, <1>14, <1>15 DEF WorkerStep

LEMMA TurnStep ==
    ASSUME DemoInv, DemoInv', JobAges, Quiet, Quiet', SystemStep,
           NEW w \in Workers, proc'[w] = "steady", NEW s \in Tasks, row[s].status = "pending"
    PROVE  /\ proc[w] = "steady"
           /\ \/ Turn(w)' <= Turn(w)
              \/ (\E t \in Tasks : Grant(w, t)) /\ Turn(w)' <= Turn(w) + Cycle
  <1>0. (WorkerStep(w) \/ (claim'[w] = claim[w] /\ job'[w] = job[w] /\ proc'[w] = proc[w]))
        /\ proc[w] = "steady"
    BY Alone, Paces DEF DemoInv
  <1> DEFINE j == job[w]  c == claim[w]  jj == job'[w]  cc == claim'[w]
  <1>1. Fits(j, c)
    BY <1>0, SteadyFits
  <1>2. Fits(jj, cc)
    BY SteadyFitsNext
  <1>3. /\ Turn(w) = TurnOf(j, c) /\ Turn(w)' = TurnOf(jj, cc)
        /\ Delay \in Nat /\ Poll \in Nat /\ Cycle \in Nat
    BY Sizes DEF Turn
  <1>4. NoJob.at = "none"
    BY DEF NoJob
  <1>5. /\ TurnOf(j, c) \in Nat /\ TurnOf(jj, cc) \in Nat /\ TurnOf(jj, cc) <= Cycle
    BY <1>1, <1>2, Turns
  <1>6. \/ cc = c /\ jj = j
        \/ /\ c.at = "rest" /\ c.age = Poll /\ jj = j /\ cc.age = 0 /\ cc.lease = NoLease
           /\ cc.at = IF j.at = "none" THEN "ask" ELSE "rest"
        \/ (\E t \in Tasks : Grant(w, t))
        \/ /\ c.at = "answer" /\ cc.at = "rest" /\ cc.age = 0
           /\ \/ c.lease = NoLease /\ jj = j
              \/ c.lease # NoLease /\ jj.at = "run" /\ jj.age = 0
        \/ j.at = "run" /\ jj.at = "ack" /\ jj.age = 0
        \/ j.at = "ack" /\ jj.at = "done" /\ jj.age = 0
        \/ j.at = "done" /\ jj.at = "none" /\ cc = c
    BY <1>0, <1>4, Paces DEF Claimable
  <1> HIDE DEF j, c, jj, cc
  <1>7. CASE c.at = "rest" /\ c.age = Poll /\ jj = j /\ cc.age = 0 /\ cc.lease = NoLease
             /\ cc.at = IF j.at = "none" THEN "ask" ELSE "rest"
    <2>1. CASE j.at = "none"
      <3>1. TurnOf(j, c) = (Poll - Poll) + Delay /\ TurnOf(jj, cc) = Delay - 0
        BY <1>1, <1>2, <1>7, <2>1, Turns
      <3> QED BY <1>0, <1>3, <3>1
    <2>2. CASE j.at # "none"
      <3>1. TurnOf(jj, cc) = TurnOf(j, c)
        BY <1>1, <1>2, <1>7, <2>2, Turns DEF Fits
      <3> QED BY <1>0, <1>3, <1>5, <3>1
    <2> QED BY <2>1, <2>2
  <1>8. CASE \E t \in Tasks : Grant(w, t)
    BY <1>0, <1>3, <1>5, <1>8
  <1>9. CASE c.at = "answer" /\ cc.at = "rest" /\ cc.age = 0 /\ c.lease = NoLease /\ jj = j
    <2>1. j.at = "none" /\ c.age <= Delay /\ c.age \in Nat
      BY <1>1, <1>9 DEF Fits, ClaimLimit
    <2>2. TurnOf(j, c) = (Delay - c.age) + (Poll + Delay) /\ TurnOf(jj, cc) = (Poll - 0) + Delay
      BY <1>1, <1>2, <1>9, <2>1, Turns
    <2> QED BY <1>0, <1>3, <2>1, <2>2
  <1>10. CASE c.at = "answer" /\ c.lease # NoLease /\ jj.at = "run" /\ jj.age = 0
    <2>1. j.at = "none" /\ c.age <= Delay /\ c.age \in Nat
      BY <1>1, <1>10 DEF Fits, ClaimLimit
    <2>2. TurnOf(j, c) = (Delay - c.age) + (3 * Delay + Poll)
      BY <1>1, <1>10, <2>1, Turns
    <2>3. TurnOf(jj, cc) = 3 * Delay + Poll
      BY <1>2, <1>10, Turns
    <2> QED BY <1>0, <1>3, <2>1, <2>2, <2>3
  <1>11. CASE j.at = "run" /\ jj.at = "ack" /\ jj.age = 0
    <2>2. TurnOf(j, c) = 3 * Delay + Poll
      BY <1>1, <1>11, Turns
    <2>3. TurnOf(jj, cc) = (Delay - 0) + 2 * Delay + Poll
      BY <1>2, <1>11, Turns
    <2> QED BY <1>0, <1>3, <2>2, <2>3
  <1>12. CASE j.at = "ack" /\ jj.at = "done" /\ jj.age = 0
    <2>1. j.age <= Delay /\ j.age \in Nat
      BY <1>1, <1>12 DEF Fits
    <2>2. TurnOf(j, c) = (Delay - j.age) + 2 * Delay + Poll
      BY <1>1, <1>12, Turns
    <2>3. TurnOf(jj, cc) = (Delay - 0) + Delay + Poll
      BY <1>2, <1>12, Turns
    <2> QED BY <1>0, <1>3, <2>1, <2>2, <2>3
  <1>13. CASE j.at = "done" /\ jj.at = "none" /\ cc = c
    <2>1. j.age <= Delay /\ j.age \in Nat /\ c.at = "rest" /\ c.age \in Nat /\ c.age <= Poll
      BY <1>1, <1>13 DEF Fits, ClaimLimit
    <2>2. TurnOf(j, c) = (Delay - j.age) + Delay + Poll
      BY <1>1, <1>13, Turns
    <2>3. TurnOf(jj, cc) = (Poll - c.age) + Delay
      BY <1>2, <1>13, <2>1, Turns
    <2> QED BY <1>0, <1>3, <2>1, <2>2, <2>3
  <1>14. CASE cc = c /\ jj = j
    BY <1>0, <1>3, <1>5, <1>14
  <1> QED BY <1>6, <1>7, <1>8, <1>9, <1>10, <1>11, <1>12, <1>13, <1>14

\* Who holds the crash task, undisturbed.
LEMMA SpentBounds ==
    ASSUME DemoInv, JobAges, Quiet, NEW t \in Tasks, row[t].status = "running"
    PROVE  /\ row[t].holder \in Workers /\ Spent(row[t].holder) \in Nat
           /\ Spent(row[t].holder) <= Lost
           /\ proc[row[t].holder] = "steady" =>
                Left(row[t].holder) \in Nat /\ Left(row[t].holder) <= 2 * Delay
  <1> DEFINE w == row[t].holder
  <1>1. w \in Workers /\ HeldBy(t, w)
    BY DEF DemoInv, IInv, Swept, HeldBy
  <1>2. proc[w] \in {"steady", "dead"} /\ (proc[w] = "dead" <=> Dead(w))
    BY <1>1, Untroubled DEF Dead
  <1>3. ~Dead(w) \/ (deadFor[w] <= Delay + Overdue /\ deadFor[w] \in Nat)
    BY <1>1, RecoveredBound, Ages DEF DemoInv, RecoveredInTime
  <1>4. Delay \in Nat /\ Work \in Nat /\ Overdue \in Nat
    BY Sizes
  <1>5. CASE Dead(w)
    <2>1. Spent(w) = Delay + Work + deadFor[w]
      BY <1>5 DEF Spent
    <2> QED BY <1>1, <1>2, <1>3, <1>4, <1>5, <2>1 DEF Lost
  <1>6. CASE proc[w] = "steady"
    <2>1. /\ claim[w].age \in Nat /\ job[w].age \in Nat
          /\ claim[w].at = "answer" => claim[w].age <= Delay
          /\ job[w].at = "run" => job[w].age <= Work
          /\ job[w].at = "ack" => job[w].age <= Delay
      <3>1. JobLimit(job[w]) <= Work \/ job[w].at # "run"
        BY <1>4 DEF JobLimit
      <3>2. JobLimit(job[w]) = Delay \/ job[w].at # "ack"
        BY DEF JobLimit
      <3>3. JobLimit(job[w]) \in Nat
        BY <1>4 DEF JobLimit
      <3> QED BY <1>1, <1>4, <3>1, <3>2, <3>3, Ages DEF ClaimLimit
    <2>2. Spent(w) = SpentOf(job[w], claim[w])
      BY <1>2, <1>6 DEF Spent
    <2>3. \/ claim[w].at = "answer" /\ job[w].at = "none"
          \/ job[w].at \in {"run", "ack"}
      BY <1>1, <1>6, Holder
    <2>4. Spent(w) \in Nat /\ Spent(w) <= Lost
      <3>1. Delay + job[w].age <= Lost \/ job[w].at \notin {"run", "ack"}
        BY <1>4, <2>1 DEF Lost
      <3>2. claim[w].age <= Lost \/ claim[w].at # "answer"
        BY <1>4, <2>1 DEF Lost
      <3> QED BY <1>4, <2>1, <2>2, <2>3, <3>1, <3>2 DEF SpentOf
    <2>5. Left(w) \in Nat /\ Left(w) <= 2 * Delay
      BY <1>4, <2>1, <2>3 DEF Left, LeftOf
    <2> QED BY <1>1, <2>4, <2>5
  <1> QED BY <1>2, <1>5, <1>6


LEMMA SpentStep ==
    ASSUME DemoInv, DemoInv', JobAges, Quiet, Quiet', SystemStep, NEW t \in Tasks,
           NEW w \in Workers, HeldBy(t, w), row[t].kind = "demo.crash", row[t].attempt = 1
    PROVE  Spent(w)' >= Spent(w)
  <1> DEFINE j == job[w]  c == claim[w]  jj == job'[w]  cc == claim'[w]
  <1>1. Spent(w) \in Nat
    BY SpentBounds DEF HeldBy
  <1>2. /\ deadFor' = deadFor /\ proc[w] \in {"steady", "dead"}
        /\ WorkerStep(w) \/ (cc = c /\ jj = j /\ proc'[w] = proc[w])
    BY <1>1, Alone, Untroubled DEF DemoInv
  <1>3. CASE cc = c /\ jj = j /\ proc'[w] = proc[w]
    BY <1>1, <1>2, <1>3 DEF Spent, SpentOf, Dead
  <1>4. CASE WorkerStep(w) /\ proc[w] = "dead"
    BY <1>1, <1>3, <1>4, Paces
  <1>5. CASE WorkerStep(w) /\ proc[w] = "steady"
    <2>1. /\ c.age \in Nat /\ j.age \in Nat /\ Delay \in Nat /\ Work \in Nat
          /\ c.at = "answer" => c.age <= Delay
      BY <1>1, Ages, Sizes DEF ClaimLimit
    <2>2. \/ /\ c.at = "answer" /\ c.lease # NoLease /\ j.at = "none"
          \/ /\ j.at = "run" /\ j.lease = LeaseOf(t) /\ c.at = "rest"
      BY <1>1, <1>5, Holder
    <2>3. j.at = "run" => Crashes(w)
      <3>1. j.lease = LeaseOf(t) => j.lease.task = t /\ j.lease.attempt = 1
        BY DEF LeaseOf
      <3> QED BY <2>2, <3>1 DEF Crashes, Kills
    <2>4. Spent(w) = SpentOf(j, c)
      BY <1>5 DEF Spent, Dead
    <2>5. CASE proc'[w] = "steady"
      <3>1. Spent(w)' = SpentOf(jj, cc)
        BY <2>5 DEF Spent, Dead
      <3>2. \/ cc = c /\ jj = j
            \/ c.at = "rest" /\ jj = j
            \/ c.at = "answer" /\ jj.at = "run" /\ jj.age = 0
        BY <1>1, <1>5, <2>2, <2>3, <2>5, Paces
      <3>3. SpentOf(jj, cc) >= SpentOf(j, c)
        BY <2>1, <2>2, <3>2 DEF SpentOf
      <3> QED BY <2>4, <3>1, <3>3
    <2>6. CASE proc'[w] = "dead"
      <3>1. j.age = Work /\ Crashes(w) /\ jj = j
        BY <1>1, <1>5, <2>6, Paces
      <3>2. Spent(w) = Delay + Work
        BY <2>4, <3>1 DEF SpentOf, Crashes, Kills
      <3>3. Spent(w)' = Delay + Work + deadFor'[w]
        BY <2>6 DEF Spent, Dead
      <3>4. deadFor'[w] \in Nat
        BY <1>1, <1>2, Ages
      <3> QED BY <2>1, <3>2, <3>3, <3>4
    <2> QED BY <1>1, <1>5, <2>5, <2>6, Paces
  <1> QED BY <1>2, <1>3, <1>4, <1>5

LEMMA LeftStep ==
    ASSUME DemoInv, DemoInv', JobAges, Quiet, Quiet', SystemStep, NEW t \in Tasks,
           NEW w \in Workers, HeldBy(t, w), row[t].attempt > 1, proc[w] = "steady",
           row'[t].status = "running"
    PROVE  Left(w)' <= Left(w) /\ proc'[w] = "steady"
  <1> DEFINE j == job[w]  c == claim[w]  jj == job'[w]  cc == claim'[w]
  <1>1. Left(w) \in Nat
    BY SpentBounds DEF HeldBy
  <1>2. WorkerStep(w) \/ (cc = c /\ jj = j /\ proc'[w] = proc[w])
    BY <1>1, Alone DEF DemoInv
  <1>3. CASE cc = c /\ jj = j /\ proc'[w] = proc[w]
    BY <1>1, <1>3 DEF Left
  <1>4. CASE WorkerStep(w)
    <2>1. /\ c.age \in Nat /\ j.age \in Nat /\ Delay \in Nat /\ Work \in Nat
          /\ c.at = "answer" => c.age <= Delay
      BY <1>1, Ages, Sizes DEF ClaimLimit
    <2>2. \/ /\ c.at = "answer" /\ c.lease # NoLease /\ j.at = "none"
          \/ /\ j.at \in {"run", "ack"} /\ j.lease = LeaseOf(t) /\ c.at = "rest"
      BY <1>1, Holder
    <2>3. ~Crashes(w) /\ (j.at = "ack" => Owns(w, j.lease))
      <3>1. row[t].attempt # 1
        BY DEF DemoInv, IInv, TypeOK, RowSet
      <3>2. j.lease = LeaseOf(t) => j.lease.task = t /\ j.lease.attempt = row[t].attempt
        BY DEF LeaseOf
      <3> QED BY <1>1, <2>2, <3>1, <3>2 DEF Crashes, Kills, Owns, HeldBy
    <2>4. j.at = "ack" => j.lease.task = t
      BY <2>2 DEF LeaseOf
    <2>5. proc'[w] = "steady"
      BY <1>1, <1>4, <2>3, Paces
    <2>6. \/ cc = c /\ jj = j
          \/ c.at = "rest" /\ jj = j /\ j.at # "none"
          \/ c.at = "answer" /\ jj.at = "run" /\ jj.age = 0
          \/ j.at = "run" /\ jj.at = "ack" /\ jj.age = 0
      BY <1>1, <1>4, <2>2, <2>3, <2>4, <2>5, Paces
    <2>7. LeftOf(jj, cc) <= LeftOf(j, c)
      BY <2>1, <2>2, <2>6 DEF LeftOf
    <2> QED BY <2>5, <2>7 DEF Left
  <1> QED BY <1>2, <1>3, <1>4

\* A unit of time is one for every loop of a process that runs.
LEMMA TickPaces ==
    ASSUME DemoInv, JobAges, Tick, NEW w \in Workers
    PROVE  /\ proc' = proc /\ claim'[w].at = claim[w].at /\ claim'[w].lease = claim[w].lease
           /\ job'[w].at = job[w].at /\ job'[w].age \in Nat
           /\ job'[w].age <= JobLimit(job[w])
           /\ proc[w] = "steady" /\ job[w].at # "none" =>
                job'[w].age = job[w].age + 1 /\ job[w].age < JobLimit(job[w])
           /\ proc[w] = "steady" =>
                claim'[w].age = claim[w].age + 1 /\ claim[w].age < ClaimLimit(claim[w].at)
           /\ Dead(w) /\ deadFor[w] <= Delay + Overdue => deadFor'[w] = deadFor[w] + 1
  <1>0. /\ claim[w] \in ClaimSet /\ job[w] \in JobSet
        /\ BeatLimit(beat[w].at) \in Nat /\ ClaimLimit(claim[w].at) \in Nat
        /\ JobLimit(job[w]) \in Nat /\ TypeOK
        /\ Delay \in Nat /\ Overdue \in Nat
    BY UnitsAssumption, OverdueNat DEF DemoInv, IInv, TypeOK, BeatLimit, ClaimLimit, JobLimit
  <1>1. /\ proc' = proc
        /\ claim'[w] = Aged(claim[w], ClaimLimit(claim[w].at))
        /\ job'[w] = IF job[w].at = "none" THEN job[w] ELSE Aged(job[w], JobLimit(job[w]))
        /\ MayWait(w, claim[w], ClaimLimit(claim[w].at))
        /\ MayWait(w, job[w], JobLimit(job[w]))
        /\ deadFor'[w] = IF Dead(w) THEN Older(deadFor[w], Delay + Overdue + 1) ELSE deadFor[w]
    BY DEF Tick
  <1>2. /\ Aged(claim[w], ClaimLimit(claim[w].at)).at = claim[w].at
        /\ Aged(claim[w], ClaimLimit(claim[w].at)).lease = claim[w].lease
        /\ Aged(claim[w], ClaimLimit(claim[w].at)).age
             = Older(claim[w].age, ClaimLimit(claim[w].at))
        /\ Aged(job[w], JobLimit(job[w])).at = job[w].at
        /\ Aged(job[w], JobLimit(job[w])).age = Older(job[w].age, JobLimit(job[w]))
    BY <1>0 DEF Aged, ClaimSet, JobSet
  <1>3. /\ job[w].age \in Nat /\ job[w].age <= JobLimit(job[w]) /\ claim[w].age \in Nat
        /\ deadFor[w] \in Nat /\ claim[w].at # "none"
    BY Ages
  <1>4. proc[w] = "steady" => Live(w)
    BY DEF Live
  <1>5. /\ proc[w] = "steady" => claim[w].age < ClaimLimit(claim[w].at)
        /\ proc[w] = "steady" /\ job[w].at # "none" => job[w].age < JobLimit(job[w])
    BY <1>1, <1>3, <1>4 DEF MayWait
  <1>6. Dead(w) /\ deadFor[w] <= Delay + Overdue => deadFor'[w] = deadFor[w] + 1
    BY <1>0, <1>1, <1>3 DEF Older
  <1>7. job'[w].at = job[w].at /\ job'[w].age \in Nat /\ job'[w].age <= JobLimit(job[w])
    BY <1>0, <1>1, <1>2, <1>3 DEF Older
  <1> QED BY <1>0, <1>1, <1>2, <1>3, <1>5, <1>6, <1>7 DEF Older

LEMMA TickTurn ==
    ASSUME CrashCount = 1, DemoInv, JobAges, Tick, NEW w \in Workers, proc[w] = "steady",
           NEW t \in Tasks, row[t].kind = "demo.crash", row[t].status = "pending"
    PROVE  Turn(w)' + 1 = Turn(w)
  <1>1. /\ job'[w].at = job[w].at /\ claim'[w].at = claim[w].at
        /\ claim'[w].lease = claim[w].lease
        /\ job[w].at # "none" => job'[w].age = job[w].age + 1
        /\ claim'[w].age = claim[w].age + 1
    BY TickPaces
  <1>2. /\ job[w].age \in Nat /\ claim[w].age \in Nat
        /\ job[w].at \in {"none", "ack", "done"}
        /\ claim[w].at \in {"rest", "ask", "answer"}
        /\ Delay \in Nat /\ Poll \in Nat
    <2>1. job[w].at # "run"
      <3>1. job[w].at = "run" => JobLimit(job[w]) = 0 /\ job[w].age < 0 /\ job[w].age \in Nat
        BY Brisk, TickPaces, Ages
      <3> QED BY <3>1
    <2> QED BY <2>1, Ages, Sizes
  <1>3. CASE job[w].at # "none"
    BY <1>1, <1>2, <1>3 DEF Turn, TurnOf
  <1>4. CASE job[w].at = "none" /\ claim[w].at # "answer"
    BY <1>1, <1>2, <1>4 DEF Turn, TurnOf
  <1>5. CASE job[w].at = "none" /\ claim[w].at = "answer"
    <2> DEFINE rest == IF claim[w].lease = NoLease THEN Poll + Delay ELSE 3 * Delay + Poll
    <2>1. rest \in Nat
      BY <1>2
    <2>2. /\ Turn(w) = (Delay - claim[w].age) + rest
          /\ Turn(w)' = (Delay - (claim[w].age + 1)) + rest
      BY <1>1, <1>5 DEF Turn, TurnOf
    <2> HIDE DEF rest
    <2> QED BY <1>2, <2>1, <2>2
  <1> QED BY <1>3, <1>4, <1>5

LEMMA TickHolder ==
    ASSUME CrashCount = 1, DemoInv, JobAges, Quiet, Tick, NEW t \in Tasks, NEW w \in Workers,
           HeldBy(t, w), row[t].kind = "demo.crash"
    PROVE  /\ Spent(w)' = Spent(w) + 1
           /\ proc[w] = "steady" /\ row[t].attempt > 1 => Left(w)' + 1 = Left(w)
  <1>2. /\ proc[w] \in {"steady", "dead"} /\ proc' = proc
        /\ job'[w].at = job[w].at /\ claim'[w].at = claim[w].at
        /\ proc[w] = "steady" /\ job[w].at # "none" => job'[w].age = job[w].age + 1
        /\ proc[w] = "steady" => claim'[w].age = claim[w].age + 1
        /\ job[w].age \in Nat /\ claim[w].age \in Nat /\ deadFor[w] \in Nat
        /\ Delay \in Nat /\ Work \in Nat
    BY TickPaces, Untroubled, Ages, Sizes
  <1>3. CASE proc[w] = "dead"
    <2>1. deadFor[w] <= Delay + Overdue
      BY <1>3, RecoveredBound DEF DemoInv, RecoveredInTime, Dead, HeldBy
    <2>2. deadFor'[w] = deadFor[w] + 1
      BY <1>3, <2>1, TickPaces DEF Dead
    <2>3. Spent(w) = Delay + Work + deadFor[w] /\ Spent(w)' = Delay + Work + deadFor'[w]
      BY <1>2, <1>3 DEF Spent, Dead
    <2> QED BY <1>2, <1>3, <2>2, <2>3
  <1>4. CASE proc[w] = "steady"
    <2>1. Spent(w) = SpentOf(job[w], claim[w]) /\ Spent(w)' = SpentOf(job'[w], claim'[w])
      BY <1>2, <1>4 DEF Spent, Dead
    <2>2. Spent(w)' = Spent(w) + 1
      BY <1>2, <1>4, <2>1 DEF SpentOf
    <2>3. ASSUME row[t].attempt > 1 PROVE Left(w)' + 1 = Left(w)
      <3>1. job[w].at \in {"none", "ack"}
        <4>1. job[w].at = "run" => JobLimit(job[w]) = 0 /\ job[w].age < 0
          BY <1>4, <2>3, Brisk, TickPaces
        <4>2. job[w].at \in {"none", "run", "ack"}
          BY <1>4, Holder
        <4> QED BY <1>2, <4>1, <4>2
      <3> QED BY <1>2, <1>4, <3>1 DEF Left, LeftOf
    <2> QED BY <2>2, <2>3
  <1> QED BY <1>2, <1>3, <1>4

LEMMA SomeoneSteady ==
    ASSUME Patient, DemoInv, Quiet
    PROVE  \E w \in Workers : proc[w] = "steady"
  <1> SUFFICES ASSUME \A w \in Workers : proc[w] # "steady" PROVE FALSE
    OBVIOUS
  <1>1. PICK u \in Workers, v \in Workers : u # v
    BY DEF Patient
  <1>2. ASSUME NEW w \in Workers
        PROVE  /\ job[w].lease = [task |-> job[w].lease.task, attempt |-> 1]
               /\ job[w].lease.task \in Tasks /\ row[job[w].lease.task].kind = "demo.crash"
               /\ Names(w, job[w].lease)
    <2>1. Fatal(w) /\ job[w].lease \in LeaseSet
      BY Untroubled DEF DemoInv, IInv, TypeOK, JobSet
    <2>2. job[w].lease = [task |-> job[w].lease.task, attempt |-> 1]
      BY <2>1 DEF Fatal, LeaseSet
    <2>3. job[w].lease # NoLease
      BY <2>1, NamesAssumption DEF Fatal, NoLease
    <2> QED BY <2>1, <2>2, <2>3 DEF Fatal, Names
  <1>3. job[u].lease.task = job[v].lease.task
    BY <1>2, OneCrash DEF Patient, DemoInv
  <1>4. job[u].lease = job[v].lease
    BY <1>2, <1>3
  <1> QED BY <1>1, <1>2, <1>4 DEF DemoInv, LeaseInv

\* The lease is new, extended, or as old as it was.
LEMMA RowAges ==
    ASSUME IInv, SystemStep, NEW t \in Tasks, row'[t].status = "running"
    PROVE  row'[t].age = 0 \/ row'[t].age = row[t].age
  <1>0. row \in [Tasks -> RowSet]
    BY DEF IInv, TypeOK
  <1>1. \A r \in RowSet : /\ Extended(r).age = 0 /\ Acknowledged(r).status # "running"
                          /\ Requeued(r).status = "pending"
                          /\ \A w \in Workers : Granted(r, w).age = 0
    <2> SUFFICES ASSUME NEW r \in RowSet
                 PROVE  /\ Extended(r).age = 0 /\ Acknowledged(r).status # "running"
                        /\ Requeued(r).status = "pending"
                        /\ \A w \in Workers : Granted(r, w).age = 0
      OBVIOUS
    <2>1. Extended(r).age = 0
      <3>1. Extended(r) = [status |-> r.status, kind |-> r.kind, attempt |-> r.attempt,
                           holder |-> r.holder, age |-> 0]
        BY RowOps
      <3> QED BY <3>1
    <2>2. Acknowledged(r).status # "running"
      BY RowAcknowledged
    <2> QED BY <2>1, <2>2 DEF Requeued, Granted
  <1>2. ASSUME NEW w \in Workers, WorkerStep(w)
        PROVE  \/ row'[t] = row[t] \/ row'[t] = Extended(row[t]) \/ row'[t] = Granted(row[t], w)
               \/ row'[t] = Acknowledged(row[t])
    <2>1. CASE ServeBeat(w)
      BY <1>0, <2>1 DEF ServeBeat
    <2>2. CASE ServeClaim(w)
      BY <1>0, <2>2 DEF ServeClaim
    <2>3. CASE ServeAck(w)
      BY <1>0, <2>3 DEF ServeAck
    <2>4. CASE row' = row
      BY <2>4
    <2> QED BY <1>2, <2>1, <2>2, <2>3, <2>4 DEF WorkerStep,
               SendBeat, HearBeat, ServeEnroll, SendClaim,
            HearClaim, Finish, HearAck, Crash, Kill, Stall, Wake, Die
  <1>3. ASSUME Reaper PROVE row'[t] = row[t] \/ row'[t] = Requeued(row[t])
    BY <1>0, <1>3 DEF Reaper, ReaperMark, ReaperRecover, ReaperThrows
  <1> QED BY <1>0, <1>1, <1>2, <1>3 DEF SystemStep

LEMMA JobAgesStep ==
    ASSUME DemoInv, DemoInv', JobAges, [SNext]_svars
    PROVE  JobAges'
  <1>0. /\ job \in [Workers -> JobSet] /\ \A w \in Workers : JobLimit(job[w])' \in Nat
    BY UnitsAssumption DEF DemoInv, IInv, TypeOK, JobLimit
  <1>a. ASSUME NEW w \in Workers, job'[w].lease = job[w].lease,
               \/ job'[w].at = job[w].at
               \/ job[w].at = "run" /\ job'[w].at = "aborted"
        PROVE  JobLimit(job[w])' = JobLimit(job[w])
    <2>1. CASE job[w].at \in {"run", "aborted"}
      <3> DEFINE s == job[w].lease.task
      <3>1. s \in Tasks
        BY <2>1 DEF DemoInv, IInv, WorkerInv, Loops
      <3>2. Names(w, job[w].lease)
        BY <3>1, NamesAssumption DEF Names, NoLease
      <3>3. row[s].status # "none"
        BY <3>1, <3>2 DEF DemoInv, LeaseInv, NoRow
      <3>4. row'[s].kind = row[s].kind
        BY <3>1, <3>3, RowMoves DEF DemoInv, SameRow
      <3> QED BY <1>a, <2>1, <3>4 DEF JobLimit, Slow, Kills
    <2>2. CASE job[w].at \notin {"run", "aborted"}
      BY <1>a, <2>2 DEF JobLimit
    <2> QED BY <2>1, <2>2
  <1>b. ASSUME NEW w \in Workers, job'[w] = job[w] PROVE job'[w].age <= JobLimit(job[w])'
    BY <1>a, <1>b DEF JobAges
  <1>1. CASE job' = job
    BY <1>b, <1>1 DEF JobAges
  <1>2. ASSUME NEW u \in Workers, WorkerStep(u), NEW w \in Workers
        PROVE  job'[w].age <= JobLimit(job[w])'
    <2>1. CASE job'[w] = job[w]
      BY <1>b, <2>1
    <2>2. CASE job'[w].age = 0
      BY <1>0, <2>2
    <2>3. CASE job[w].at = "run" /\ job'[w] = [job[w] EXCEPT !.at = "aborted"]
      <3>1. /\ job'[w].at = "aborted" /\ job'[w].age = job[w].age
            /\ job'[w].lease = job[w].lease
        BY <1>0, <2>3 DEF JobSet
      <3> QED BY <1>a, <2>3, <3>1 DEF JobAges
    <2>4. \A at, l : JobPhase(at, l).age = 0
      BY DEF JobPhase
    <2>5. NoJob.age = 0
      BY DEF NoJob
    <2>6. CASE HearBeat(u)
      BY <1>0, <2>1, <2>3, <2>6 DEF HearBeat
    <2>7. CASE HearClaim(u)
      BY <1>0, <2>1, <2>2, <2>4, <2>7 DEF HearClaim
    <2>8. CASE Finish(u) \/ HearAck(u)
      BY <1>0, <2>1, <2>2, <2>4, <2>5, <2>8 DEF Finish, HearAck
    <2>9. CASE ServeAck(u)
      BY <1>0, <2>1, <2>2, <2>4, <2>9 DEF ServeAck
    <2> QED BY <1>2, <2>1, <2>6, <2>7, <2>8, <2>9 DEF WorkerStep,
               SendBeat, ServeBeat, ServeEnroll,
            SendClaim, ServeClaim, Crash, Kill, Stall, Wake, Die
  <1>3. CASE Reaper
    BY <1>1, <1>3 DEF Reaper, ReaperMark, ReaperRecover, ReaperThrows, process
  <1>4. CASE Passes
    <2>1. ASSUME NEW w \in Workers PROVE job'[w].age <= JobLimit(job[w])'
      <3>1. job'[w].at = job[w].at /\ job'[w].age <= JobLimit(job[w])
        BY <1>4, TickPaces DEF Passes
      <3>2. job'[w].lease = job[w].lease
        BY <1>4, TickMoves DEF Passes, DemoInv, Calm, SameLeases
      <3> QED BY <1>a, <3>1, <3>2
    <2> QED BY <2>1 DEF JobAges
  <1>5. CASE Seed \/ List \/ Watch \/ GiveUp \/ Over \/ UNCHANGED svars
    BY <1>1, <1>5 DEF Seed, Create, List, Watch, GiveUp, Over, svars, vars, process
  <1>6. CASE SystemStep
    BY <1>2, <1>3, <1>6 DEF SystemStep, JobAges
  <1> QED BY <1>4, <1>5, <1>6 DEF SNext, ScriptStep

\* A crash task stays one.
LEMMA CrashStays ==
    ASSUME DemoInv, DemoInv', [SNext]_svars, NEW t \in Tasks, row[t].kind = "demo.crash"
    PROVE  /\ row'[t].kind = "demo.crash" /\ row[t].status # "none" /\ row'[t].status # "none"
  <1>1. row[t].status # "none"
    BY DEF DemoInv, LeaseInv, NoRow
  <1>2. row'[t].kind = "demo.crash"
    BY <1>1, RowMoves DEF DemoInv, SameRow
  <1>3. row'[t].status # "none"
    BY <1>2 DEF DemoInv, LeaseInv, NoRow
  <1> QED BY <1>1, <1>2, <1>3

LEMMA WatchStep ==
    ASSUME DemoInv, DemoInv', WatchInv, [SNext]_svars
    PROVE  WatchInv'
  <1>0. CrashIds \subseteq CrashIds'
    BY CrashStays DEF CrashIds
  <1> USE DEF ScriptSet
  <1>1. script \in ScriptSet
    BY DEF DemoInv, STypeOK
  <1>2. CASE Seed
    BY <1>1, <1>2 DEF Seed, WatchInv
  <1>3. CASE List
    <2>1. script'.at = IF CrashIds = {} THEN "abort" ELSE "watch"
      BY <1>1, <1>3 DEF List
    <2> QED BY <1>0, <2>1 DEF WatchInv
  <1>4. CASE Watch
    <2>1. script.at = "watch" /\ script'.at \in {"watch", "pass"}
      BY <1>4, WatchMoves DEF DemoInv
    <2> QED BY <1>0, <2>1 DEF WatchInv
  <1>5. CASE GiveUp
    BY <1>0, <1>1, <1>5 DEF GiveUp, WatchInv
  <1>6. CASE Passes
    BY <1>0, <1>1, <1>6 DEF Passes, WatchInv
  <1>7. CASE SystemStep \/ Over \/ UNCHANGED svars
    <2>1. script' = script
      BY <1>7 DEF SystemStep, Over, svars
    <2> QED BY <1>0, <2>1 DEF WatchInv
  <1> QED BY <1>2, <1>3, <1>4, <1>5, <1>6, <1>7 DEF SNext, ScriptStep

LEMMA VictimStep ==
    ASSUME CrashCount = 1, DemoInv, DemoInv', WatchInv, VictimInv, [SNext]_svars
    PROVE  VictimInv'
  <1> USE DEF ScriptSet
  <1>1. /\ script \in ScriptSet
        /\ NoTask \notin Tasks /\ \A t \in Tasks : row[t] \in RowSet /\ row'[t] \in RowSet
    BY NamesAssumption DEF DemoInv, IInv, STypeOK, TypeOK
  <1>2. ASSUME script'.victim = script.victim
        PROVE  script'.victim # NoTask => row'[script'.victim].kind = "demo.crash"
    BY <1>1, <1>2, CrashStays DEF VictimInv
  <1>3. CASE Seed
    <2>1. script'.victim = script.victim /\ script'.polled = script.polled
      BY <1>1, <1>3 DEF Seed
    <2>2. \A t \in Tasks : row'[t] = row[t] \/ row'[t].attempt = 0
      BY <1>3 DEF Seed, Create, vars, DemoInv, IInv, TypeOK
    <2> QED BY <1>2, <2>1, <2>2 DEF VictimInv
  <1>4. CASE List \/ GiveUp \/ Over \/ UNCHANGED svars
    <2>1. script'.victim = script.victim /\ script'.polled = script.polled /\ row' = row
      BY <1>1, <1>4 DEF List, GiveUp, Over, svars, vars
    <2> QED BY <2>1 DEF VictimInv
  <1>5. CASE Watch
    <2>1. PICK t \in CrashIds :
            script'.victim = IF /\ script.victim = NoTask
                                /\ row[t].status = "running" /\ row[t].attempt = 1
                             THEN t ELSE script.victim
      BY <1>5, WatchMoves DEF DemoInv
    <2>2. t \in Tasks /\ row[t].kind = "demo.crash" /\ row' = row
      BY <1>5 DEF CrashIds, Watch, vars
    <2>3. script'.victim # NoTask => row'[script'.victim].kind = "demo.crash"
      BY <2>1, <2>2 DEF VictimInv
    <2>4. ASSUME NEW s \in Tasks, row'[s].kind = "demo.crash", row'[s].attempt > 0,
                  script'.victim = NoTask
          PROVE  FALSE
      <3>1. s = t
        BY <2>2, <2>4, OneCrash DEF DemoInv
      <3>2. script.victim = NoTask
        BY <1>1, <2>1, <2>2, <2>4
      <3> QED BY <1>1, <2>1, <2>2, <2>4, <3>1, <3>2 DEF VictimInv
    <2> QED BY <2>3, <2>4 DEF VictimInv
  <1>6. CASE SystemStep
    <2>1. script' = script
      BY <1>6 DEF SystemStep
    <2>2. ASSUME NEW t \in Tasks, row'[t].kind = "demo.crash", row'[t].attempt > 0,
                  script.victim = NoTask
          PROVE  /\ row'[t].status = "running" /\ row'[t].attempt = 1
                 /\ row'[t].age = 0 \/ (row'[t].age = 1 /\ ~script.polled)
      <3>1. row[t].kind = "demo.crash" /\ row[t].attempt > 0 =>
                /\ row[t].status = "running" /\ row[t].attempt = 1
                /\ row[t].age = 0 \/ (row[t].age = 1 /\ ~script.polled)
        BY <2>2 DEF VictimInv
      <3>2. CASE SameRow(t)
        <4>1. row[t].kind = "demo.crash" /\ row[t].attempt > 0
          BY <2>2, <3>2 DEF SameRow
        <4>2. row'[t].status = "running" /\ row'[t].attempt = 1
          BY <3>1, <3>2, <4>1 DEF SameRow
        <4> QED BY <1>6, <3>1, <4>1, <4>2, RowAges DEF DemoInv
      <3>3. ASSUME NEW w \in Workers, Grant(w, t), row'[t].attempt = row[t].attempt + 1,
                   row'[t].kind = row[t].kind
            PROVE  row'[t].status = "running" /\ row'[t].attempt = 1 /\ row'[t].age = 0
        <4>1. row[t].status # "running" /\ row'[t].status = "running" /\ row'[t].age = 0
          BY <3>3 DEF Grant, Granted, Claimable
        <4>2. row[t].attempt = 0
          BY <1>1, <2>2, <3>1, <3>3, <4>1 DEF RowSet
        <4> QED BY <3>3, <4>1, <4>2
      <3>4. ~Lapsed(t)
        <4>1. SUFFICES ASSUME Lapsed(t) PROVE FALSE
          OBVIOUS
        <4>2. row[t].status = "running" /\ row[t].age > Lease /\ row[t].attempt > 0
          BY <4>1 DEF Lapsed, DemoInv, LeaseInv
        <4>3. row[t].kind = "demo.crash"
          BY <2>2, <4>2, RowMoves DEF DemoInv, SameRow
        <4> QED BY <1>1, <3>1, <4>2, <4>3, Sizes DEF RowSet
      <3>5. \/ row'[t].status \notin {"completed", "dead_letter", "retrying"}
            \/ row[t].status # "running"
        <4>1. SUFFICES ASSUME row'[t].status \in {"completed", "dead_letter", "retrying"},
                              row[t].status = "running"
                       PROVE  FALSE
          OBVIOUS
        <4>2. row'[t].attempt > 1 /\ row[t].attempt > 0
          BY <2>2, <4>1 DEF DemoInv, CrashInv, LeaseInv
        <4>3. row'[t].attempt = row[t].attempt /\ row'[t].kind = row[t].kind
          BY <4>1, RowMoves DEF DemoInv, SameRow, Grant, Granted
        <4> QED BY <1>1, <2>2, <3>1, <4>2, <4>3 DEF RowSet
      <3>6. row'[t].attempt # 0
        BY <1>1, <2>2 DEF RowSet
      <3> QED BY <3>2, <3>3, <3>4, <3>5, <3>6, RowMoves DEF DemoInv
    <2> QED BY <1>2, <2>1, <2>2 DEF VictimInv
  <1>7. CASE Passes
    <2>1. script'.victim = script.victim /\ script'.polled = FALSE /\ script.polled
      BY <1>1, <1>7 DEF Passes
    <2>2. \A t \in Tasks : row'[t] = OlderRow(row[t])
      BY <1>7 DEF Passes, Tick
    <2>3. \A t \in Tasks : /\ row'[t].status = row[t].status /\ row'[t].kind = row[t].kind
                           /\ row'[t].attempt = row[t].attempt
                           /\ row[t].status = "running" => row'[t].age = row[t].age + 1
      BY <1>1, <2>2, RowOlder
    <2>4. ASSUME NEW t \in Tasks, row'[t].kind = "demo.crash", row'[t].attempt > 0,
                  script'.victim = NoTask
          PROVE  row'[t].status = "running" /\ row'[t].attempt = 1 /\ row'[t].age = 1
      BY <2>1, <2>3, <2>4 DEF VictimInv
    <2> QED BY <1>2, <2>1, <2>4 DEF VictimInv
  <1> QED BY <1>3, <1>4, <1>5, <1>6, <1>7 DEF SNext, ScriptStep

\* What OnTime says is never later than the last moment.
LEMMA OnTimeBound ==
    ASSUME Patient, DemoInv, JobAges, Quiet, BudgetInv,
           NEW t \in Tasks, row[t].kind = "demo.crash", OnTime(t)
    PROVE  script.elapsed <= Last + 1
  <1>0. /\ Cycle \in Nat /\ Lost \in Nat /\ Full \in Nat /\ Last \in Nat
        /\ Delay \in Nat /\ Work \in Nat /\ Load \in Nat /\ script.elapsed \in Nat
    BY Sizes, LoadBounds DEF DemoInv, STypeOK, ScriptSet
  <1>1. row[t].status \in {"pending", "running", "completed"} /\ row[t].attempt \in Nat
    BY DEF DemoInv, IInv, TypeOK, RowSet, LeaseInv, NoRow, CrashInv
  <1>2. CASE row[t].status = "pending"
    <2>1. PICK w \in Workers : proc[w] = "steady"
      BY SomeoneSteady
    <2>2. script.elapsed + Turn(w) + Load <= Full + Cycle + Late(t)
      BY <1>2, <2>1 DEF OnTime
    <2>3. Turn(w) \in Nat
      BY <2>1, SteadyFits, Turns DEF Turn
    <2>4. Load >= Cycle
      BY <1>2, LoadBounds DEF BudgetInv, DemoInv
    <2>5. Late(t) \in Nat /\ Late(t) <= Lost
      BY <1>0 DEF Late
    <2> QED BY <1>0, <2>2, <2>3, <2>4, <2>5 DEF Last
  <1>3. CASE row[t].status = "running" /\ row[t].attempt = 1
    <2>1. script.elapsed + Load <= Full + Spent(row[t].holder)
      BY <1>3 DEF OnTime
    <2>2. Spent(row[t].holder) \in Nat /\ Spent(row[t].holder) <= Lost
      BY <1>3, SpentBounds
    <2> QED BY <1>0, <2>1, <2>2 DEF Last
  <1>4. CASE row[t].status = "running" /\ row[t].attempt > 1
    <2>1. script.elapsed + Left(row[t].holder) <= Last /\ Left(row[t].holder) \in Nat
      BY <1>4, SpentBounds DEF OnTime
    <2> QED BY <1>0, <2>1
  <1>5. CASE row[t].status = "completed"
    BY <1>0, <1>5 DEF OnTime
  <1>6. row[t].status = "running" => row[t].attempt > 0
    BY DEF DemoInv, LeaseInv
  <1> QED BY <1>1, <1>2, <1>3, <1>4, <1>5, <1>6

\* At the first look, nothing has taken time yet.
LEMMA OnTimeAtFirst ==
    ASSUME Patient, DemoInv, JobAges, VictimInv, Quiet,
           NEW t \in Tasks, row[t].kind = "demo.crash", script.elapsed = 0, script.victim = NoTask
    PROVE  OnTime(t)
  <1>0. /\ Cycle \in Nat /\ Lost \in Nat /\ Full \in Nat /\ Last \in Nat
        /\ Load \in Nat /\ Load <= Full /\ row[t].attempt \in Nat
    BY Sizes, LoadBounds DEF DemoInv, IInv, TypeOK, RowSet
  <1>1. ASSUME NEW w \in Workers, proc[w] = "steady"
        PROVE  script.elapsed + Turn(w) + Load <= Full + Cycle + Late(t)
    <2>1. Turn(w) \in Nat /\ Turn(w) <= Cycle
      BY <1>1, SteadyFits, Turns DEF Turn
    <2>2. Late(t) \in Nat
      BY <1>0 DEF Late
    <2> QED BY <1>0, <2>1, <2>2
  <1>2. CASE row[t].attempt > 0
    <2>1. row[t].status = "running" /\ row[t].attempt = 1
      BY <1>2 DEF VictimInv
    <2>2. Spent(row[t].holder) \in Nat
      BY <2>1, SpentBounds
    <2> QED BY <1>0, <2>1, <2>2 DEF OnTime
  <1>3. CASE row[t].attempt = 0
    <2>1. row[t].status \notin {"running", "completed"}
      BY <1>3 DEF DemoInv, LeaseInv
    <2> QED BY <1>1, <2>1 DEF OnTime
  <1> QED BY <1>0, <1>2, <1>3

\* A step of the system takes no time.
LEMMA OnTimeStep ==
    ASSUME Patient, DemoInv, DemoInv', JobAges, Quiet, Quiet', BudgetInv, SystemStep,
           NEW t \in Tasks, row[t].kind = "demo.crash", OnTime(t)
    PROVE  OnTime(t)'
  <1>0. /\ Cycle \in Nat /\ Lost \in Nat /\ Full \in Nat /\ Last \in Nat
        /\ Delay \in Nat /\ Work \in Nat /\ Overdue \in Nat
        /\ Load \in Nat /\ script' = script /\ script.elapsed \in Nat
        /\ row[t] \in RowSet /\ row'[t] \in RowSet /\ CrashCount = 1 /\ [SNext]_svars
    BY Sizes, LoadBounds DEF DemoInv, IInv, TypeOK, STypeOK, ScriptSet, SystemStep,
       Patient, SNext
  <1>00. Load' \in Nat
    BY LoadMoves
  <1> DEFINE e == script.elapsed
  <1>1. ASSUME NEW w \in Workers, proc'[w] = "steady", row[t].status = "pending"
        PROVE  /\ proc[w] = "steady" /\ Turn(w) \in Nat /\ Turn(w)' \in Nat
               /\ SameRow(t) => Turn(w)' + Load' <= Turn(w) + Load
    <2>1. /\ proc[w] = "steady"
          /\ \/ Turn(w)' <= Turn(w)
             \/ (\E s \in Tasks : Grant(w, s)) /\ Turn(w)' <= Turn(w) + Cycle
      BY <1>1, TurnStep
    <2>2. Turn(w) \in Nat
      BY <2>1, SteadyFits, Turns DEF Turn
    <2>3. Turn(w)' \in Nat
      BY <1>1, SteadyFitsNext, Turns DEF Turn
    <2>4. ASSUME SameRow(t) PROVE Turn(w)' + Load' <= Turn(w) + Load
      <3>1. Load' <= Load
        BY <1>0, <2>4, LoadMoves
      <3>2. ASSUME NEW s \in Tasks, Grant(w, s) PROVE Load' + Cycle = Load
        BY <1>0, <3>2, LoadMoves
      <3>3. CASE Turn(w)' <= Turn(w)
        BY <1>0, <1>00, <2>2, <2>3, <3>1, <3>3
      <3>4. CASE (\E s \in Tasks : Grant(w, s)) /\ Turn(w)' <= Turn(w) + Cycle
        <4>1. Load' + Cycle = Load
          BY <3>2, <3>4
        <4> QED BY <1>0, <1>00, <2>2, <2>3, <3>4, <4>1
      <3> QED BY <2>1, <3>3, <3>4
    <2> QED BY <2>1, <2>2, <2>3, <2>4
  <1>2. CASE SameRow(t)
    <2>0. /\ row'[t].status = row[t].status /\ row'[t].attempt = row[t].attempt
          /\ row'[t].holder = row[t].holder /\ Late(t)' = Late(t) /\ Load' <= Load
      BY <1>0, <1>2, LoadMoves DEF SameRow, Late, Cycle, Lost
    <2>1. ASSUME row[t].status = "pending", NEW w \in Workers, proc'[w] = "steady"
          PROVE  e + Turn(w)' + Load' <= Full + Cycle + Late(t)
      <3>1. e + Turn(w) + Load <= Full + Cycle + Late(t)
        BY <1>1, <2>1 DEF OnTime
      <3>2. Late(t) \in Nat
        BY <1>0 DEF Late
      <3> QED BY <1>0, <1>00, <1>1, <1>2, <2>1, <3>1, <3>2
    <2>2. ASSUME row[t].status = "running", NEW w \in Workers, w = row[t].holder
          PROVE  /\ row[t].attempt = 1 => e + Load' <= Full + Spent(w)'
                 /\ row[t].attempt > 1 => e + Left(w)' <= Last /\ proc'[w] = "steady"
      <3>0. HeldBy(t, w)
        BY <2>2 DEF HeldBy
      <3>1. ASSUME row[t].attempt = 1 PROVE e + Load' <= Full + Spent(w)'
        <4>1. e + Load <= Full + Spent(w) /\ Spent(w) \in Nat
          BY <2>2, <3>1, SpentBounds DEF OnTime
        <4>2. Spent(w)' >= Spent(w)
          BY <3>0, <3>1, SpentStep
        <4>3. Spent(w)' \in Nat
          <5>1. deadFor'[w] \in Nat /\ job'[w] \in JobSet /\ claim'[w] \in ClaimSet
            BY DEF DemoInv, IInv, TypeOK
          <5> QED BY <1>0, <5>1 DEF Spent, SpentOf, JobSet, ClaimSet
        <4> QED BY <1>0, <1>00, <2>0, <4>1, <4>2, <4>3
      <3>2. ASSUME row[t].attempt > 1 PROVE e + Left(w)' <= Last /\ proc'[w] = "steady"
        <4>1. e + Left(w) <= Last /\ proc[w] = "steady" /\ Left(w) \in Nat
          BY <2>2, <3>2, SpentBounds DEF OnTime
        <4>2. Left(w)' <= Left(w) /\ proc'[w] = "steady"
          BY <2>0, <2>2, <3>0, <3>2, <4>1, LeftStep
        <4>3. Left(w)' \in Int
          <5>1. job'[w] \in JobSet /\ claim'[w] \in ClaimSet
            BY DEF DemoInv, IInv, TypeOK
          <5> QED BY <1>0, <5>1 DEF Left, LeftOf, JobSet, ClaimSet
        <4> QED BY <1>0, <4>1, <4>2, <4>3
      <3> QED BY <3>1, <3>2
    <2>3. row[t].status = "running" => row[t].holder \in Workers
      BY DEF DemoInv, IInv, Swept
    <2>4. row[t].status = "completed" => e <= Last \/ (e <= Last + 1 /\ ~script.polled)
      BY DEF OnTime
    <2>5. Full' = Full /\ Cycle' = Cycle /\ Last' = Last
      BY DEF Full, Tries, Cycle, Last, Lost, Overdue
    <2> QED BY <1>0, <2>0, <2>1, <2>2, <2>3, <2>4, <2>5 DEF OnTime
  <1>3. ASSUME NEW w \in Workers, Grant(w, t), row'[t].attempt = row[t].attempt + 1,
               row'[t].status = "running", row'[t].holder = w
        PROVE  OnTime(t)'
    <2>0. row[t].status = "pending" /\ claim[w].at = "ask"
      BY <1>3 DEF Grant, Claimable, DemoInv, CrashInv
    <2>1. proc[w] = "steady"
      BY <2>0, Untroubled
    <2>2. proc'[w] = "steady" /\ claim'[w].age = 0 /\ job'[w].at = "none"
      <3>1. SameFate /\ claim'[w].lease # NoLease /\ job'[w] = NoJob
        BY <1>3, NamesAssumption DEF Grant, NoLease
      <3>2. claim'[w] # claim[w]
        BY <1>3, <3>1 DEF Grant
      <3>3. WorkerStep(w)
        BY <3>2, Alone DEF DemoInv
      <3>4. proc'[w] = "steady" /\ job'[w].at = "none"
        BY <2>1, <3>1 DEF SameFate, NoJob
      <3> QED BY <2>0, <2>1, <3>2, <3>3, <3>4, Paces
    <2>3. e + Turn(w) + Load <= Full + Cycle + Late(t) /\ Turn(w) \in Nat /\ Load' + Cycle = Load
      BY <1>0, <1>1, <1>3, <2>0, <2>1, <2>2, LoadMoves DEF OnTime
    <2>4. row[t].attempt = 0 => e + Load' <= Full + Spent(w)'
      <3>1. Spent(w)' = 0
        BY <2>2 DEF Spent, SpentOf, Dead
      <3>2. row[t].attempt = 0 => Late(t) = 0
        BY DEF Late
      <3> QED BY <1>0, <1>00, <2>3, <3>1, <3>2
    <2>5. row[t].attempt > 0 => e + Left(w)' <= Last
      <3>1. Left(w)' = (Delay - 0) + Delay
        BY <2>2 DEF Left, LeftOf
      <3>2. Late(t) <= Lost /\ Late(t) \in Nat
        BY <1>0 DEF Late
      <3>3. Cycle <= Load
        <4>1. {Cycle, Load, Load'} \subseteq Nat /\ Load' + Cycle = Load
          BY <1>0, <1>00, <2>3
        <4> QED BY <4>1
      <3>4. e <= Full + Lost
        <4>1. {Cycle, Lost, Full, Load, e, Late(t), Turn(w)} \subseteq Nat
          BY <1>0, <2>3, <3>2
        <4>2. e + Turn(w) + Load <= Full + Cycle + Late(t)
          BY <2>3
        <4> QED BY <3>2, <3>3, <4>1, <4>2
      <3> QED BY <1>0, <3>1, <3>4 DEF Last
    <2>6. /\ row'[t].attempt = 1 => row[t].attempt = 0
          /\ row'[t].attempt > 1 => row[t].attempt > 0
      BY <1>0, <1>3 DEF RowSet
    <2>7. Full' = Full /\ Cycle' = Cycle /\ Last' = Last
      BY DEF Full, Tries, Cycle, Last, Lost, Overdue
    <2> QED BY <1>0, <1>3, <2>2, <2>4, <2>5, <2>6, <2>7 DEF OnTime
  <1>4. CASE Lapsed(t) /\ row'[t].status = "pending" /\ row'[t].attempt = row[t].attempt
    <2> DEFINE u == row[t].holder
    <2>1. /\ row[t].attempt = 1 /\ row[t].status = "running" /\ u \in Workers
          /\ Spent(u) \in Nat /\ Spent(u) <= Lost
      BY <1>4, Lapses, SpentBounds
    <2>2. e + Load <= Full + Spent(u)
      BY <2>1 DEF OnTime
    <2>3. Load' <= Load
      BY LoadMoves
    <2>4. ASSUME NEW w \in Workers, proc'[w] = "steady"
          PROVE  Turn(w)' \in Nat /\ Turn(w)' <= Cycle
      BY <2>4, SteadyFitsNext, Turns DEF Turn
    <2>5. Late(t)' = Lost
      BY <1>4, <2>1 DEF Late, Lost, Overdue
    <2>6. ASSUME NEW w \in Workers, proc'[w] = "steady"
          PROVE  e + Turn(w)' + Load' <= Full + Cycle + Lost
      <3> HIDE DEF u
      <3> QED BY <1>0, <1>00, <2>1, <2>2, <2>3, <2>4, <2>6
    <2>7. Full' = Full /\ Cycle' = Cycle /\ Last' = Last
      BY DEF Full, Tries, Cycle, Last, Lost, Overdue
    <2> QED BY <1>0, <1>4, <2>5, <2>6, <2>7 DEF OnTime
  <1>5. ASSUME NEW w \in Workers, t = job[w].lease.task, Owns(w, job[w].lease),
               row'[t].status \in {"completed", "dead_letter", "retrying"},
               row'[t].attempt = row[t].attempt, row'[t].kind = row[t].kind
        PROVE  OnTime(t)'
    <2>1. row[t].status = "running" /\ row[t].holder = w
      BY <1>5 DEF Owns
    <2>2. row[t].attempt > 1 /\ row'[t].status = "completed"
      BY <1>5 DEF DemoInv, CrashInv
    <2>3. e + Left(w) <= Last /\ Left(w) \in Nat
      BY <2>1, <2>2, SpentBounds DEF OnTime
    <2>4. Last' = Last
      BY DEF Full, Tries, Cycle, Last, Lost, Overdue
    <2> QED BY <1>0, <1>5, <2>2, <2>3, <2>4 DEF OnTime
  <1>6. row[t].status # "none"
    BY DEF DemoInv, LeaseInv, NoRow
  <1> QED BY <1>0, <1>2, <1>3, <1>4, <1>5, <1>6, RowMoves DEF DemoInv

\* Time passes, for the script as for everybody else.
LEMMA OnTimeTick ==
    ASSUME Patient, DemoInv, DemoInv', JobAges, Quiet, Passes,
           NEW t \in Tasks, row[t].kind = "demo.crash", OnTime(t)
    PROVE  OnTime(t)'
  <1>0. /\ Cycle \in Nat /\ Lost \in Nat /\ Full \in Nat /\ Last \in Nat
        /\ Delay \in Nat /\ Work \in Nat /\ Load \in Nat /\ script.elapsed \in Nat
        /\ row[t] \in RowSet /\ Tick /\ script.polled
        /\ script'.elapsed = script.elapsed + 1 /\ script'.polled = FALSE
    BY Sizes, LoadBounds DEF DemoInv, IInv, TypeOK, STypeOK, ScriptSet, Passes
  <1> DEFINE e == script.elapsed
  <1>1. \A s \in Tasks : SameRow(s)
    BY <1>0, TickMoves DEF Calm, DemoInv
  <1>2. /\ row'[t].status = row[t].status /\ row'[t].attempt = row[t].attempt
        /\ row'[t].holder = row[t].holder /\ Late(t)' = Late(t)
    BY <1>1 DEF SameRow, Late, Cycle, Lost
  <1>3. Ahead' = Ahead
    <2>1. \A p \in Tries : row'[p[1]].attempt = row[p[1]].attempt
      BY <1>1 DEF Tries, SameRow
    <2> QED BY <2>1 DEF Ahead, Tries
  <1>4. /\ Load' = Load /\ Full' = Full /\ Cycle' = Cycle /\ Last' = Last /\ proc' = proc
    BY <1>0, <1>3 DEF Load, Full, Tries, Cycle, Last, Lost, Overdue, Tick
  <1>5. ASSUME row[t].status = "pending", NEW w \in Workers, proc[w] = "steady"
        PROVE  (e + 1) + Turn(w)' + Load <= Full + Cycle + Late(t)
    <2>1. e + Turn(w) + Load <= Full + Cycle + Late(t)
      BY <1>5 DEF OnTime
    <2>2. Turn(w)' + 1 = Turn(w) /\ Turn(w) \in Nat
      BY <1>0, <1>5, TickTurn, SteadyFits, Turns DEF Turn, Patient
    <2>3. Turn(w)' \in Nat
      BY <1>4, <1>5, SteadyFitsNext, Turns DEF Turn
    <2>4. Late(t) \in Nat
      BY <1>0 DEF Late
    <2> QED BY <1>0, <2>1, <2>2, <2>3, <2>4
  <1>6. ASSUME row[t].status = "running", NEW w \in Workers, w = row[t].holder
        PROVE  /\ row[t].attempt = 1 => (e + 1) + Load <= Full + Spent(w)'
               /\ row[t].attempt > 1 => (e + 1) + Left(w)' <= Last /\ proc[w] = "steady"
    <2>1. /\ HeldBy(t, w) /\ Spent(w) \in Nat
          /\ proc[w] = "steady" => Left(w) \in Nat
      BY <1>6, SpentBounds DEF HeldBy
    <2>2. /\ Spent(w)' = Spent(w) + 1
          /\ proc[w] = "steady" /\ row[t].attempt > 1 => Left(w)' + 1 = Left(w)
      BY <1>0, <2>1, TickHolder DEF Patient
    <2>3. /\ row[t].attempt = 1 => e + Load <= Full + Spent(w)
          /\ row[t].attempt > 1 => e + Left(w) <= Last /\ proc[w] = "steady"
      BY <1>6 DEF OnTime
    <2>4. Left(w)' \in Int
      <3>1. job'[w] \in JobSet /\ claim'[w] \in ClaimSet
        BY DEF DemoInv, IInv, TypeOK
      <3> QED BY <1>0, <3>1 DEF Left, LeftOf, JobSet, ClaimSet
    <2>5. row[t].attempt > 1 => (e + 1) + Left(w)' <= Last /\ proc[w] = "steady"
      BY <1>0, <2>1, <2>2, <2>3, <2>4
    <2>6. row[t].attempt = 1 => (e + 1) + Load <= Full + Spent(w)'
      BY <1>0, <2>1, <2>2, <2>3
    <2> QED BY <2>5, <2>6
  <1>7. row[t].status = "running" => row[t].holder \in Workers
    BY DEF DemoInv, IInv, Swept
  <1>8. row[t].status = "completed" => e + 1 <= Last + 1
    BY <1>0 DEF OnTime
  <1> QED BY <1>0, <1>2, <1>4, <1>5, <1>6, <1>7, <1>8 DEF OnTime

\* A look at the completed crash task is the last.
LEMMA LastLook ==
    ASSUME Patient, DemoInv, VictimInv, Watch, script'.at = "watch",
           NEW t \in Tasks, row[t].kind = "demo.crash"
    PROVE  row[t].status # "completed"
  <1> SUFFICES ASSUME row[t].status = "completed" PROVE FALSE
    OBVIOUS
  <1>1. PICK s \in CrashIds :
            /\ script'.victim = IF /\ script.victim = NoTask
                                   /\ row[s].status = "running" /\ row[s].attempt = 1
                                THEN s ELSE script.victim
            /\ script'.at = IF /\ s = script'.victim
                               /\ row[s].status = "completed" /\ row[s].attempt >= 2
                            THEN "pass" ELSE "watch"
    BY WatchMoves DEF DemoInv
  <1>2. s = t
    BY OneCrash DEF CrashIds, DemoInv, Patient
  <1>3. row[t].attempt > 1 /\ row[t].attempt \in Nat
    BY DEF DemoInv, CrashInv, IInv, TypeOK, RowSet
  <1>4. script.victim # NoTask
    BY <1>3 DEF VictimInv
  <1>5. script.victim \in Tasks /\ row[script.victim].kind = "demo.crash"
    BY <1>4 DEF VictimInv, DemoInv, STypeOK, ScriptSet
  <1>6. script.victim = t
    BY <1>5, OneCrash DEF DemoInv, Patient
  <1> QED BY <1>1, <1>2, <1>3, <1>4, <1>6

\* Who is undisturbed has always been.
LEMMA QuietBefore ==
    ASSUME DemoInv, [SNext]_svars, Quiet'
    PROVE  Quiet
  <1>1. kills \in Nat /\ stalls \in Nat
    BY UnitsAssumption DEF DemoInv, IInv, TypeOK
  <1>2. ASSUME NEW w \in Workers, Befall(w)
        PROVE  kills' \in {kills, kills + 1} /\ stalls' \in {stalls, stalls + 1}
    BY <1>2 DEF Befall
  <1>3. kills' \in {kills, kills + 1} /\ stalls' \in {stalls, stalls + 1}
    BY <1>2, Moves DEF DemoInv, Calm, Requeue, Grant, Proceed, Acknowledge, Admit, SameFate
  <1> QED BY <1>1, <1>3 DEF Quiet

LEMMA BudgetStep ==
    ASSUME MaxAttempts >= 2, DemoInv, DemoInv', BudgetInv, [SNext]_svars
    PROVE  BudgetInv'
  <1> SUFFICES ASSUME Quiet', NEW t \in Tasks, row'[t].status \in {"pending", "retrying"}
               PROVE  row'[t].attempt < MaxAttempts
    BY DEF BudgetInv
  <1>1. Quiet /\ MaxAttempts \in Nat /\ row[t] \in RowSet
    BY QuietBefore, UnitsAssumption DEF DemoInv, IInv, TypeOK
  <1>2. CASE SameRow(t)
    BY <1>1, <1>2 DEF SameRow, BudgetInv
  <1>3. CASE Lapsed(t) /\ row'[t].attempt = row[t].attempt
    BY <1>1, <1>3, Lapses
  <1>4. CASE row'[t] = Acknowledged(row[t])
    BY <1>1, <1>4, RowAcknowledged
  <1>5. CASE row'[t].attempt = 0
    BY <1>1, <1>5
  <1> QED BY <1>2, <1>3, <1>4, <1>5, RowMoves DEF DemoInv

LEMMA TimeStep ==
    ASSUME Patient, DemoInv, DemoInv', JobAges, BudgetInv, VictimInv, WatchInv, TimeInv,
           [SNext]_svars
    PROVE  TimeInv'
  <1> SUFFICES ASSUME Quiet' PROVE TimeInv'
    BY DEF TimeInv
  <1>0. Quiet
    BY QuietBefore
  <1>1. /\ script.at # "fail"
        /\ script.at = "watch" => \A t \in Tasks : row[t].kind = "demo.crash" => OnTime(t)
    BY <1>0 DEF TimeInv
  <1>2. ASSUME NEW t \in Tasks, row'[t].kind = "demo.crash"
        PROVE  row[t].kind = "demo.crash" \/ row[t].status = "none"
    BY <1>2, RowMoves DEF DemoInv, SameRow
  <1> USE DEF ScriptSet
  <1>3. script \in ScriptSet
    BY DEF DemoInv, STypeOK
  <1>4. CASE Seed
    BY <1>3, <1>4 DEF Seed, TimeInv
  <1>5. CASE List
    <2>1. /\ script'.elapsed = script.elapsed /\ script'.polled = script.polled
          /\ script'.at \in {"abort", "watch"} /\ UNCHANGED vars
          /\ script.elapsed = 0 /\ script.victim = NoTask
      BY <1>3, <1>5 DEF List, WatchInv
    <2>2. ASSUME NEW t \in Tasks, row'[t].kind = "demo.crash" PROVE OnTime(t)'
      <3>1. row[t].kind = "demo.crash"
        BY <2>1, <2>2 DEF vars
      <3>2. OnTime(t)
        BY <1>0, <2>1, <3>1, OnTimeAtFirst
      <3> QED BY <2>1, <3>2 DEF OnTime, vars, process, Late, Load,
                 Ahead, Turn, Spent, Left, Dead
    <2> QED BY <2>1, <2>2 DEF TimeInv
  <1>6. CASE Watch
    <2>1. /\ script'.elapsed = script.elapsed /\ script.at = "watch" /\ UNCHANGED vars
          /\ script'.at \in {"watch", "pass"}
      BY <1>6, WatchMoves DEF DemoInv
    <2>2. ASSUME script'.at = "watch", NEW t \in Tasks, row'[t].kind = "demo.crash" PROVE OnTime(t)'
      <3>1. row[t].kind = "demo.crash" /\ OnTime(t)
        BY <1>1, <2>1, <2>2 DEF vars
      <3>2. row[t].status # "completed"
        BY <1>6, <2>2, <3>1, LastLook
      <3> QED BY <2>1, <3>1, <3>2 DEF OnTime, vars, process, Late, Load,
                 Ahead, Turn, Spent, Left, Dead
    <2> QED BY <2>1, <2>2 DEF TimeInv
  <1>7. ~GiveUp
    <2> SUFFICES ASSUME GiveUp PROVE FALSE
      OBVIOUS
    <2>1. script.at = "watch" /\ script.elapsed = Deadline
      BY DEF GiveUp
    <2>2. PICK t \in CrashIds : TRUE
      BY <2>1 DEF WatchInv
    <2>3. t \in Tasks /\ row[t].kind = "demo.crash" /\ OnTime(t)
      BY <1>1, <2>1 DEF CrashIds
    <2>4. script.elapsed <= Last + 1
      BY <1>0, <2>3, OnTimeBound
    <2> QED BY <2>1, <2>4, Sizes, ScenarioAssumption DEF Patient
  <1>8. CASE SystemStep
    <2>1. script' = script
      BY <1>8 DEF SystemStep
    <2>2. ASSUME script.at = "watch", NEW t \in Tasks, row'[t].kind = "demo.crash" PROVE OnTime(t)'
      <3>1. row[t].kind = "demo.crash"
        <4>1. row'[t].status # "none"
          BY <2>2 DEF DemoInv, LeaseInv, NoRow
        <4> QED BY <1>2, <1>8, <2>2, <4>1, NoNewRows DEF DemoInv
      <3> QED BY <1>0, <1>1, <1>8, <2>2, <3>1, OnTimeStep
    <2> QED BY <1>1, <2>1, <2>2 DEF TimeInv
  <1>9. CASE Passes
    <2>1. script.at = "watch" /\ script'.at = "watch"
      BY <1>3, <1>9 DEF Passes
    <2>2. ASSUME NEW t \in Tasks, row'[t].kind = "demo.crash" PROVE OnTime(t)'
      <3>1. row[t].kind = "demo.crash"
        <4>1. SameRow(t)
          BY <1>9, TickMoves DEF Passes, Calm, DemoInv
        <4> QED BY <2>2, <4>1 DEF SameRow
      <3> QED BY <1>0, <1>1, <1>9, <2>1, <3>1, OnTimeTick
    <2> QED BY <2>1, <2>2 DEF TimeInv
  <1>10. CASE Over \/ UNCHANGED svars
    <2>1. UNCHANGED svars
      BY <1>10 DEF Over
    <2> QED BY <1>1, <2>1 DEF svars, TimeInv, OnTime, vars, process, Late, Load,
               Ahead, Turn, Spent, Left, Dead
  <1> QED BY <1>4, <1>5, <1>6, <1>7, <1>8, <1>9, <1>10 DEF SNext, ScriptStep

\* With two workers and one crash task, and with time for every attempt that the
\* retry budgets of all tasks allow, for the lease of the crash task, its recovery
\* and its second execution, the script passes, whatever the generator draws, the
\* phases of the loops, the delays of the calls and the failures of the reaper.
THEOREM PassesBeforeDeadline ==
    ASSUME CrashCount = 1, Workers # {}, \A w \in Workers : Workers # {w},
           MaxAttempts >= 2, Deadline >= Last + 2
    PROVE  SSpec => []PassesInTime
  <1> DEFINE I == DemoInv /\ JobAges /\ BudgetInv /\ VictimInv /\ WatchInv /\ TimeInv
  <1>0. Patient
    BY DEF Patient
  <1>1. SInit => I
    <2> SUFFICES ASSUME SInit PROVE I
      OBVIOUS
    <2>1. DemoInv
      BY DemoStart
    <2>2. script.at = "seed" /\ script.victim = NoTask /\ script.elapsed = 0
      BY DEF SInit
    <2>3. (\A t \in Tasks : row[t] = NoRow) /\ \A w \in Workers : job[w] = NoJob
      BY DEF SInit, Init
    <2>4. JobAges
      BY <2>3, UnitsAssumption DEF JobAges, JobLimit, NoJob
    <2>5. VictimInv
      BY <2>2, <2>3 DEF VictimInv, NoRow
    <2>6. BudgetInv
      BY <2>3 DEF BudgetInv, NoRow
    <2> QED BY <2>1, <2>2, <2>4, <2>5, <2>6 DEF WatchInv, TimeInv
  <1>2. I /\ [SNext]_svars => I'
    <2> SUFFICES ASSUME I, [SNext]_svars PROVE I'
      OBVIOUS
    <2>1. DemoInv'
      BY DemoStep
    <2>2. JobAges'
      BY <2>1, JobAgesStep
    <2>3. VictimInv'
      BY <2>1, VictimStep
    <2>4. WatchInv'
      BY <2>1, WatchStep
    <2>5. TimeInv'
      BY <1>0, <2>1, TimeStep
    <2>6. BudgetInv'
      BY <2>1, BudgetStep
    <2> QED BY <2>1, <2>2, <2>3, <2>4, <2>5, <2>6
  <1>3. I => PassesInTime
    <2> SUFFICES ASSUME I, script.at = "fail" PROVE kills + stalls > 0
      BY DEF PassesInTime
    <2>1. ~Quiet
      BY DEF TimeInv
    <2>2. kills \in Nat /\ stalls \in Nat
      BY UnitsAssumption DEF DemoInv, IInv, TypeOK
    <2> QED BY <2>1, <2>2 DEF Quiet
  <1> QED BY <1>1, <1>2, <1>3, PTL DEF SSpec

=============================================================================
