----------------------------- MODULE WorkerFleet -----------------------------
(***************************************************************************)
(* The worker processes of apps/worker and the network between them and    *)
(* the coordinator.                                                        *)
(*                                                                         *)
(* A process runs two loops (heartbeat, claim) and one execution per task  *)
(* it has claimed; they share the map of leases and the map of abort       *)
(* controllers, both keyed by task id only.  Every HTTP call of a loop or  *)
(* an execution is sent, served by the coordinator, and its answer         *)
(* delivered, in separate steps; it may be lost on either way, and is then *)
(* sent again or given up (fetchWithRetry).                                *)
(*                                                                         *)
(* The coordinator is TaskStore at the granularity of handlers: TaskServer *)
(* shows that what happens inside them does not matter to the rows.  The   *)
(* id of a worker stands for its process: a killed process is not started  *)
(* again under the same name.                                              *)
(***************************************************************************)
EXTENDS TaskStore

CONSTANTS
    Capacity,   \* WORKER_CAPACITY
    MaxLost,    \* bound: calls lost on the way, or whose answer is
    MaxKills,   \* bound: processes that die (crash, SIGKILL)
    MaxMoves,   \* bound: manual reassignments
    MayFail,    \* whether handlers may throw
    MayStop,    \* whether processes may be asked to stop (SIGTERM)
    MayPause,   \* whether the demo console may pause heartbeats
    Timely      \* whether leases and heartbeats lapse only when neglected

ASSUME FleetAssumption ==
    /\ Capacity \in Nat \ {0}
    /\ MaxLost \in Nat /\ MaxKills \in Nat /\ MaxMoves \in Nat
    /\ {MayFail, MayStop, MayPause, Timely} \subseteq BOOLEAN

VARIABLES
    life,      \* of a process: "off", "running", "stopping", "gone"
    leases,    \* VitalsApi.leases: token by task, NoToken where there is none
    aborts,    \* WorkerNode.aborts: the execution a task's controller stops
    runs,      \* the executions of a process
    paused,    \* WorkerNode.paused
    beat,      \* the heartbeat loop and its call
    claim,     \* the claim loop and its call
    shutdown,  \* the call of stop(): "none", "sent", "released", "done"
    cut,       \* ChaosSupervisor.paused
    reaping,   \* a reaper tick between its two statements
    budget,    \* how many more calls are lost, processes killed, tasks moved
    moved,     \* history: the token a task was last reassigned under
    ackedRun   \* history: the execution whose acknowledgement was accepted last

clientVars == <<life, leases, aborts, runs, paused, beat, claim, shutdown>>
auxVars == <<moved, ackedRun>>
vars == <<storeVars, clientVars, cut, reaping, budget, auxVars>>

\* An execution is known by its task and the token it was claimed under (run);
\* token is what its acknowledgement presents.
Execution == [task : Tasks, run : Nat, token : Nat, aborted : BOOLEAN,
              stage : {"working", "completing", "failing", "answered"}]

Leases == [task : Tasks, token : Nat]

BeatCall == [st : {"idle", "sent", "answered", "register"},
             leases : SUBSET Leases, revoked : SUBSET Tasks, paused : BOOLEAN]
ClaimCall == [st : {"idle", "sent", "answered"}, batch : 0..Capacity, got : SUBSET Leases]

IdleBeat == [st |-> "idle", leases |-> {}, revoked |-> {}, paused |-> FALSE]
IdleClaim == [st |-> "idle", batch |-> 0, got |-> {}]

TypeOK ==
    /\ StoreTypeOK
    /\ life \in [WorkerIds -> {"off", "running", "stopping", "gone"}]
    /\ leases \in [WorkerIds -> [Tasks -> Nat]]
    /\ aborts \in [WorkerIds -> [Tasks -> Nat]]
    /\ runs \in [WorkerIds -> SUBSET Execution]
    /\ paused \in [WorkerIds -> BOOLEAN]
    /\ beat \in [WorkerIds -> BeatCall]
    /\ claim \in [WorkerIds -> ClaimCall]
    /\ shutdown \in [WorkerIds -> {"none", "sent", "released", "done"}]
    /\ cut \subseteq WorkerIds
    /\ reaping \in BOOLEAN
    /\ budget \in [lost : 0..MaxLost, kills : 0..MaxKills, moves : 0..MaxMoves]
    /\ moved \in [Tasks -> Nat]
    /\ ackedRun \in [Tasks -> Nat]

Init ==
    /\ StoreInit
    /\ life = [p \in WorkerIds |-> "off"]
    /\ leases = [p \in WorkerIds |-> [t \in Tasks |-> NoToken]]
    /\ aborts = [p \in WorkerIds |-> [t \in Tasks |-> NoToken]]
    /\ runs = [p \in WorkerIds |-> {}]
    /\ paused = [p \in WorkerIds |-> FALSE]
    /\ beat = [p \in WorkerIds |-> IdleBeat]
    /\ claim = [p \in WorkerIds |-> IdleClaim]
    /\ shutdown = [p \in WorkerIds |-> "none"]
    /\ cut = {}
    /\ reaping = FALSE
    /\ budget = [lost |-> MaxLost, kills |-> MaxKills, moves |-> MaxMoves]
    /\ moved = [t \in Tasks |-> NoToken]
    /\ ackedRun = [t \in Tasks |-> NoToken]

Alive(p) == life[p] \in {"running", "stopping"}

LeaseSet(p) == {[task |-> t, token |-> leases[p][t]] : t \in {u \in Tasks : leases[p][u] # NoToken}}

-----------------------------------------------------------------------------
(* WorkerNode.start *)

\* register() is retried until it succeeds; both loops start then.
Start(p) ==
    /\ life[p] = "off"
    /\ Register(p)
    /\ life' = [life EXCEPT ![p] = "running"]
    /\ UNCHANGED <<leases, aborts, runs, paused, beat, claim, shutdown, cut, reaping,
                   budget, auxVars>>

-----------------------------------------------------------------------------
(* The heartbeat loop *)

NotHeard == IdleBeat  \* mutant: null is ignored

\* What a 409, or no answer at all, makes of a heartbeat: register() again.
Unheard == [IdleBeat EXCEPT !.st = "register"]

\* The loop asks nothing but this before the next heartbeat: not whether it is paused.
BeatsOn(p) == life[p] = "running"

BeatSend(p) ==
    /\ BeatsOn(p)
    /\ beat[p].st = "idle"
    /\ beat' = [beat EXCEPT ![p] = [st |-> "sent", leases |-> LeaseSet(p),
                                    revoked |-> {}, paused |-> FALSE]]
    /\ UNCHANGED <<storeVars, life, leases, aborts, runs, paused, claim, shutdown, cut,
                   reaping, budget, auxVars>>

\* The whole heartbeat handler: 409 for a worker that is not online, else the
\* leases are extended and those that are not held any more come back as revoked.
BeatServe(p) ==
    LET held == {l \in beat[p].leases : Holds(l.task, p, l.token)}
        refused == {l.task : l \in beat[p].leases \ held}
    IN  /\ beat[p].st = "sent"
        /\ IF workers[p].status = "online"
           THEN /\ workers' = [workers EXCEPT ![p].lastBeat = "recent"]
                /\ tasks' = [t \in Tasks |->
                               IF \E l \in held : l.task = t
                               THEN [tasks[t] EXCEPT !.lease = "live"] ELSE tasks[t]]
                /\ beat' = [beat EXCEPT ![p] =
                              [st |-> "answered", leases |-> @.leases,
                               revoked |-> refused, paused |-> p \in cut]]
           ELSE /\ UNCHANGED <<workers, tasks>>
                /\ beat' = [beat EXCEPT ![p] = Unheard]
        /\ UNCHANGED <<grants, failures, acker, life, leases, aborts, runs, paused, claim,
                       shutdown, cut, reaping, budget, auxVars>>

AbortNone(p) == runs[p]  \* mutant: aborts.get(taskId).abort() is missing

\* The executions whose controllers are found under the revoked tasks stop.
Abort(p) ==
    {IF e.task \in beat[p].revoked /\ aborts[p][e.task] = e.run
     THEN [e EXCEPT !.aborted = TRUE] ELSE e : e \in runs[p]}

\* A revoked task is aborted and its lease dropped, whichever lease the process
\* holds by now: the answer names the task only.
BeatDeliver(p) ==
    /\ Alive(p)
    /\ beat[p].st = "answered"
    /\ paused' = [paused EXCEPT ![p] = beat[p].paused]
    /\ runs' = [runs EXCEPT ![p] = Abort(p)]
    /\ leases' = [leases EXCEPT ![p] =
                    [t \in Tasks |-> IF t \in beat[p].revoked THEN NoToken ELSE @[t]]]
    /\ beat' = [beat EXCEPT ![p] = IdleBeat]
    /\ UNCHANGED <<storeVars, life, aborts, claim, shutdown, cut, reaping, budget, auxVars>>

\* The answer to a 409 or to a heartbeat that failed: register() again.  The loop
\* looks at running only before the next heartbeat.
BeatRegister(p) ==
    /\ Alive(p)
    /\ beat[p].st = "register"
    /\ Register(p)
    /\ beat' = [beat EXCEPT ![p] = IdleBeat]
    /\ UNCHANGED <<life, leases, aborts, runs, paused, claim, shutdown, cut, reaping,
                   budget, auxVars>>

-----------------------------------------------------------------------------
(* The claim loop *)

RoomUnshared(p) == Capacity  \* mutant: executing is not subtracted

Room(p) == Capacity - Cardinality(runs[p])

ClaimSend(p) ==
    /\ life[p] = "running"
    /\ ~paused[p]
    /\ claim[p].st = "idle"
    /\ Room(p) > 0
    /\ claim' = [claim EXCEPT ![p] = [st |-> "sent", batch |-> Room(p), got |-> {}]]
    /\ UNCHANGED <<storeVars, life, leases, aborts, runs, paused, beat, shutdown, cut,
                   reaping, budget, auxVars>>

ClaimServe(p) ==
    /\ claim[p].st = "sent"
    /\ \/ \E picked \in SUBSET Claimable :
             /\ \/ Cardinality(picked) = claim[p].batch
                \/ Cardinality(picked) < claim[p].batch /\ picked = Claimable
             /\ Claim(p, picked, {})
             /\ claim' = [claim EXCEPT ![p] =
                            [st |-> "answered", batch |-> @.batch,
                             got |-> {[task |-> t, token |-> grants'[t]] : t \in picked}]]
       \/ /\ Claimable = {}
          /\ claim' = [claim EXCEPT ![p] = IdleClaim]
          /\ UNCHANGED storeVars
    /\ UNCHANGED <<life, leases, aborts, runs, paused, beat, shutdown, cut, reaping,
                   budget, auxVars>>

\* Map.set for every lease in got: what the map held for the task is lost.
Recorded(map, got) ==
    [t \in Tasks |-> IF \E l \in got : l.task = t
                     THEN (CHOOSE l \in got : l.task = t).token ELSE map[t]]

\* claim() records the leases; execute() starts for each task, even in a process
\* that has begun to stop meanwhile.
ClaimDeliver(p) ==
    /\ Alive(p)
    /\ claim[p].st = "answered"
    /\ leases' = [leases EXCEPT ![p] = Recorded(@, claim[p].got)]
    /\ aborts' = [aborts EXCEPT ![p] = Recorded(@, claim[p].got)]
    /\ runs' = [runs EXCEPT ![p] = @ \cup
                  {[task |-> l.task, run |-> l.token, token |-> NoToken,
                    aborted |-> FALSE, stage |-> "working"] : l \in claim[p].got}]
    /\ claim' = [claim EXCEPT ![p] = IdleClaim]
    /\ UNCHANGED <<storeVars, life, paused, beat, shutdown, cut, reaping, budget, auxVars>>

-----------------------------------------------------------------------------
(* execute(): one task.  e is the execution before the step. *)

Finish(p, e) ==
    /\ runs' = [runs EXCEPT ![p] = @ \ {e}]
    /\ aborts' = [aborts EXCEPT ![p][e.task] = NoToken]

Become(p, e, f) == runs' = [runs EXCEPT ![p] = (@ \ {e}) \cup {f}]

\* The handler returns or throws.  An aborted execution says nothing; another
\* presents the token the process holds for the task now.
HandlerEnds(p, e) ==
    /\ Alive(p)
    /\ e.stage = "working"
    /\ \/ /\ e.aborted \/ leases[p][e.task] = NoToken
          /\ Finish(p, e)
       \/ /\ ~e.aborted /\ leases[p][e.task] # NoToken
          /\ \E stage \in {"completing"} \cup (IF MayFail THEN {"failing"} ELSE {}) :
                Become(p, e, [e EXCEPT !.stage = stage, !.token = leases[p][e.task]])
          /\ UNCHANGED aborts
    /\ UNCHANGED <<storeVars, life, leases, paused, beat, claim, shutdown, cut, reaping,
                   budget, auxVars>>

AckServe(p, e) ==
    /\ e.stage \in {"completing", "failing"}
    /\ IF Holds(e.task, p, e.token)
       THEN /\ IF e.stage = "completing"
               THEN Complete(e.task, p, e.token)
               ELSE FailUpdate(e.task, p, e.token, tasks[e.task].attempt)
            /\ ackedRun' = [ackedRun EXCEPT ![e.task] = e.run]
       ELSE UNCHANGED <<storeVars, ackedRun>>
    /\ IF life[p] = "gone"
       THEN runs' = [runs EXCEPT ![p] = @ \ {e}]
       ELSE Become(p, e, [e EXCEPT !.stage = "answered"])
    /\ UNCHANGED <<life, leases, aborts, paused, beat, claim, shutdown, cut, reaping,
                   budget, moved>>

\* complete() and fail() drop the lease of the task whatever the answer is.
AckDeliver(p, e) ==
    /\ Alive(p)
    /\ e.stage = "answered"
    /\ leases' = [leases EXCEPT ![p][e.task] = NoToken]
    /\ Finish(p, e)
    /\ UNCHANGED <<storeVars, life, paused, beat, claim, shutdown, cut, reaping, budget, auxVars>>

-----------------------------------------------------------------------------
(* The network loses a call or its answer: it is sent again, unchanged, or *)
(* all tries have failed.                                                  *)

Lose == budget.lost > 0 /\ budget' = [budget EXCEPT !.lost = @ - 1]

BeatLost(p) ==
    /\ Alive(p)
    /\ Lose
    /\ \/ /\ beat[p].st \in {"sent", "answered"}
          /\ beat' = [beat EXCEPT ![p] = Unheard]
       \/ /\ beat[p].st = "answered"
          /\ beat' = [beat EXCEPT ![p] = [st |-> "sent", leases |-> @.leases,
                                          revoked |-> {}, paused |-> FALSE]]
       \/ /\ beat[p].st = "register"
          /\ beat' = [beat EXCEPT ![p] = IdleBeat]
    /\ UNCHANGED <<storeVars, life, leases, aborts, runs, paused, claim, shutdown, cut,
                   reaping, auxVars>>

\* A claim whose answer was lost is sent again, with the same batch.
ClaimLost(p) ==
    /\ Alive(p)
    /\ Lose
    /\ \/ /\ claim[p].st \in {"sent", "answered"}
          /\ claim' = [claim EXCEPT ![p] = IdleClaim]
       \/ /\ claim[p].st = "answered"
          /\ claim' = [claim EXCEPT ![p] = [st |-> "sent", batch |-> @.batch, got |-> {}]]
    /\ UNCHANGED <<storeVars, life, leases, aborts, runs, paused, beat, shutdown, cut,
                   reaping, auxVars>>

\* shutdown() is tried twice at most, and its failure ignored.
ShutdownLost(p) ==
    /\ shutdown[p] = "sent"
    /\ Lose
    /\ shutdown' = [shutdown EXCEPT ![p] = "done"]
    /\ UNCHANGED <<storeVars, life, leases, aborts, runs, paused, beat, claim, cut,
                   reaping, auxVars>>

\* A complete or fail that was served may be sent again: its answer was lost.
\* Its token is spent, so it does not matter any more which of the two it was.
AckLost(p, e) ==
    /\ Alive(p) /\ e.stage \in {"completing", "failing", "answered"}
    /\ Lose
    /\ \/ /\ e.stage = "answered"
          /\ Become(p, e, [e EXCEPT !.stage = "completing"])
          /\ UNCHANGED <<leases, aborts>>
       \/ /\ leases' = [leases EXCEPT ![p][e.task] = NoToken]
          /\ Finish(p, e)
    /\ UNCHANGED <<storeVars, life, paused, beat, claim, shutdown, cut, reaping, auxVars>>

-----------------------------------------------------------------------------
(* Stopping and dying *)

\* stop(): no loop begins another round; shutdown() is called.
Stop(p) ==
    /\ MayStop
    /\ life[p] = "running"
    /\ life' = [life EXCEPT ![p] = "stopping"]
    /\ shutdown' = [shutdown EXCEPT ![p] = "sent"]
    /\ UNCHANGED <<storeVars, leases, aborts, runs, paused, beat, claim, cut, reaping,
                   budget, auxVars>>

ShutdownRelease(p) ==
    /\ shutdown[p] = "sent"
    /\ ReleaseRunningTasks(p)
    /\ shutdown' = [shutdown EXCEPT ![p] = "released"]
    /\ UNCHANGED <<life, leases, aborts, runs, paused, beat, claim, cut, reaping, budget, auxVars>>

ShutdownOffline(p) ==
    /\ shutdown[p] = "released"
    /\ SetOffline(p)
    /\ shutdown' = [shutdown EXCEPT ![p] = "done"]
    /\ UNCHANGED <<life, leases, aborts, runs, paused, beat, claim, cut, reaping, budget, auxVars>>

\* What a process leaves behind: calls the coordinator has still to serve.
Vanish(p) ==
    /\ life' = [life EXCEPT ![p] = "gone"]
    /\ runs' = [runs EXCEPT ![p] = {e \in @ : e.stage \in {"completing", "failing"}}]
    /\ leases' = [leases EXCEPT ![p] = [t \in Tasks |-> NoToken]]
    /\ aborts' = [aborts EXCEPT ![p] = [t \in Tasks |-> NoToken]]
    /\ paused' = [paused EXCEPT ![p] = FALSE]
    /\ beat' = [beat EXCEPT ![p] = IF @.st = "sent" THEN @ ELSE IdleBeat]
    /\ claim' = [claim EXCEPT ![p] = IF @.st = "sent" THEN @ ELSE IdleClaim]
    /\ UNCHANGED <<storeVars, shutdown, cut, reaping, auxVars>>

\* stop() waits for the executions to end, at most 5 seconds, and exits.
Exit(p) ==
    /\ life[p] = "stopping"
    /\ shutdown[p] = "done"
    /\ Vanish(p)
    /\ UNCHANGED budget

\* SIGKILL, or a handler that exits the process (demo.crash).
Kill(p) ==
    /\ Alive(p)
    /\ budget.kills > 0
    /\ budget' = [budget EXCEPT !.kills = @ - 1]
    /\ Vanish(p)

-----------------------------------------------------------------------------
(* The coordinator's own steps, and the demo console *)

\* Requests other than those of workers.
NewTask(t) ==
    /\ Create(t, "pending", "past")
    /\ UNCHANGED <<clientVars, cut, reaping, budget, auxVars>>

ReaperMark ==
    /\ ~reaping
    /\ MarkTimedOut
    /\ reaping' = TRUE
    /\ UNCHANGED <<clientVars, cut, budget, auxVars>>

ReaperRecover ==
    /\ reaping
    /\ RecoverExpired
    /\ reaping' = FALSE
    /\ UNCHANGED <<clientVars, cut, budget, auxVars>>

Reassign(t, to) ==
    /\ budget.moves > 0
    /\ ReassignUpdate(t, to)
    /\ moved' = [moved EXCEPT ![t] = grants[t] + 1]
    /\ budget' = [budget EXCEPT !.moves = @ - 1]
    /\ UNCHANGED <<clientVars, cut, reaping, ackedRun>>

PauseHeartbeats(p) ==
    /\ MayPause /\ Alive(p)
    /\ cut' = cut \cup {p}
    /\ UNCHANGED <<storeVars, clientVars, reaping, budget, auxVars>>

ResumeHeartbeats(p) ==
    /\ p \in cut
    /\ cut' = cut \ {p}
    /\ UNCHANGED <<storeVars, clientVars, reaping, budget, auxVars>>

-----------------------------------------------------------------------------
(* Time *)

\* Somebody still keeps the lease of the task alive, or is about to.
Tended(t) ==
    \E p \in WorkerIds :
        /\ BeatsOn(p)
        /\ tasks[t].worker = p
        /\ \/ leases[p][t] = tasks[t].token
           \/ [task |-> t, token |-> tasks[t].token] \in claim[p].got

Lapse(t) ==
    /\ LeaseLapses(t)
    /\ Timely => ~Tended(t)
    /\ UNCHANGED <<clientVars, cut, reaping, budget, auxVars>>

BackoffPasses(t) ==
    /\ RunAtPasses(t)
    /\ UNCHANGED <<clientVars, cut, reaping, budget, auxVars>>

Silence(p) ==
    /\ HeartbeatGoesStale(p)
    /\ Timely => ~BeatsOn(p)
    /\ UNCHANGED <<clientVars, cut, reaping, budget, auxVars>>

-----------------------------------------------------------------------------

\* The loops and executions of a process, with the handlers that serve their calls.
BeatLoop(p) == BeatSend(p) \/ BeatServe(p) \/ BeatDeliver(p) \/ BeatRegister(p)
ClaimLoop(p) == ClaimSend(p) \/ ClaimServe(p) \/ ClaimDeliver(p)
Executing(p) == \E e \in runs[p] : HandlerEnds(p, e) \/ AckServe(p, e) \/ AckDeliver(p, e)
Stopping(p) == ShutdownRelease(p) \/ ShutdownOffline(p) \/ Exit(p)

Mishap(p) ==
    \/ BeatLost(p) \/ ClaimLost(p) \/ ShutdownLost(p) \/ \E e \in runs[p] : AckLost(p, e)
    \/ Kill(p)

Operator(p) ==
    \/ Start(p) \/ Stop(p) \/ PauseHeartbeats(p) \/ ResumeHeartbeats(p)
    \/ \E t \in Tasks : Reassign(t, p)

Next ==
    \/ \E p \in WorkerIds : 
           \/ BeatLoop(p) \/ ClaimLoop(p) \/ Executing(p) \/ Stopping(p)
           \/ Mishap(p) \/ Operator(p) \/ Silence(p)
    \/ \E t \in Tasks : NewTask(t) \/ Lapse(t) \/ BackoffPasses(t)
    \/ ReaperMark \/ ReaperRecover

Spec == Init /\ [][Next]_vars

-----------------------------------------------------------------------------
(* Safety *)

\* WORKER_CAPACITY bounds what a process executes at once, although claims
\* overlap with executions that end, are aborted, or are claimed twice
\* (worker.ts:80-88).
ExecutionsBounded == \A p \in WorkerIds : Cardinality(runs[p]) <= Capacity

\* An execution that was not told to stop still has its own lease in the map
\* that heartbeats and acknowledgements read (api.ts:40-50).  True of a process
\* that executes one task at a time; see AckOfItsExecution for the others.
LeaseOfExecution ==
    \A p \in WorkerIds : \A e \in runs[p] :
        Alive(p) /\ e.stage = "working" /\ ~e.aborted => leases[p][e.task] = e.run

\* README.md:61: "stale acks are rejected with 409 - no zombie writes".  The
\* execution whose result is accepted is the one the lease was granted for.
AckOfItsExecution == \A t \in Tasks : ackedRun[t] = acker[t].token

\* README.md:59-61: with real processes, networks and late answers as without,
\* the coordinator implements the contract of TaskLifecycle: leases are numbered,
\* held by one worker, and only the newest can be acknowledged.
KeepsContract == Contract!Spec

\* API.md:195: a graceful shutdown "releases running tasks immediately": once
\* it is answered and the process is gone, the worker has no task.
ShutdownLeavesNothing ==
    \A p \in WorkerIds :
        life[p] = "gone" /\ shutdown[p] = "done" => ActiveOf(p) = {}

-----------------------------------------------------------------------------
(* Liveness *)

\* Both loops of a live process go round, its handlers end, every call is
\* served, the timers of the coordinator fire and the clock advances.  The
\* operator, the network and the crashes owe nothing but the first start.
Fairness ==
    /\ \A p \in WorkerIds :
          /\ WF_vars(Start(p)) /\ WF_vars(BeatLoop(p)) /\ WF_vars(ClaimLoop(p))
          /\ WF_vars(Executing(p)) /\ WF_vars(Stopping(p))
          /\ WF_vars(Silence(p) /\ life[p] = "gone")
    /\ \A t \in Tasks : WF_vars(Lapse(t)) /\ WF_vars(BackoffPasses(t))
    /\ WF_vars(ReaperMark) /\ WF_vars(ReaperRecover)

FairSpec == Spec /\ Fairness

\* README.md:83: the reaper detects that a process is gone, and a heartbeat it
\* sent before does not bring the row of the dead worker back for good.
DeadIsDetected ==
    \A p \in WorkerIds : life[p] = "gone" ~> [](workers[p].status # "online")

\* README.md:45-57: whatever happens to the processes, as long as one of them
\* stays and claims, every task ends in completed or in dead_letter.
TasksFinish ==
    \A t \in Tasks :
        tasks[t].status # "none" ~> tasks[t].status \in {"completed", "dead_letter"}

\* A process that runs is seen online again and again, even when its row was
\* marked offline because its heartbeats were late or lost (worker.ts:54-57).
RunningIsOnline ==
    \A p \in WorkerIds :
        life[p] = "running" ~> workers[p].status = "online" \/ life[p] # "running"

\* tasks.ts:99-100: "the server delivers reserved tasks explicitly via
\* reassign()".  A task moved to a worker that goes on running is executed by
\* it, unless it is moved again.
MovedIsExecuted ==
    \A t \in Tasks, p \in WorkerIds, k \in 1..MaxGrants :
        (moved[t] = k /\ tasks[t].worker = p /\ tasks[t].token = k)
          ~> \/ \E e \in runs[p] : e.task = t /\ e.run = k
             \/ moved[t] # k

\* API.md:246-247: with its heartbeats cut, "the process keeps running but the
\* server times it out and marks it offline".
CutIsOffline ==
    \A p \in WorkerIds :
        p \in cut /\ life[p] = "running" ~> workers[p].status = "offline" \/ p \notin cut

=============================================================================
