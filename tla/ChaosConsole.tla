---------------------------- MODULE ChaosConsole -----------------------------
(***************************************************************************)
(* The chaos supervisor of the server and the three demo flows of the page  *)
(* that drives it: chaosSupervisor.ts, its routes, and ChaosPage.tsx.       *)
(*                                                                         *)
(* The supervisor knows its children by the name it gave them; a child      *)
(* registers under that name, and the coordinator gives every process of    *)
(* one name one and the same row.  The page knows workers by the id of that *)
(* row, and looks the name up in the snapshot its click handler has closed   *)
(* over.                                                                   *)
(*                                                                         *)
(* Tasks and rows are reduced to the one task a flow submits and to whether  *)
(* a name has a row; TaskServer and WorkerFleet have them in full.  One flow  *)
(* runs at a time; everybody else who calls the API is an action of its own. *)
(***************************************************************************)
EXTENDS Naturals, FiniteSets

CONSTANTS
    Flows,          \* which buttons are pressed: "load", "fencing", "scenario"
    Initial,        \* workers a boot spawns: 2, or 0 with --no-workers
    LoadWanted,     \* online workers a load test wants (3)
    Tries,          \* how often a flow polls before it gives up (30 and 40)
    NoChild,
    MaxBoots,       \* bound: boots of the server
    MaxSpawns,      \* bound: children of one boot that are told apart
    MaxTroubles,    \* bound: stops, resets, crashes, kills, pauses, late leases
    MaxWipes,       \* bound: resets
    MaxAttempts,    \* bound: claims of the task
    MaxClicks       \* bound: flows started

ASSUME FlowsAssumption == Flows \subseteq {"load", "fencing", "scenario"}
ASSUME BoundsAssumption ==
    /\ {MaxBoots, MaxSpawns, MaxTroubles, MaxWipes, MaxAttempts, MaxClicks,
     LoadWanted} \subseteq Nat
    /\ Tries \in Nat \ {0} /\ Initial \in 0..MaxSpawns

Numbers == 1..MaxSpawns                  \* the n of `worker-n'
Child == (1..MaxBoots) \X Numbers        \* the n-th process of a boot

ASSUME NoChildAssumption == NoChild \notin Child

VARIABLES
    up, boot,       \* a server runs; how many have been started
    counter,        \* ChaosSupervisor.counter
    managed,        \* ChaosSupervisor.managed: the numbers of its keys
    paused,         \* ChaosSupervisor.paused
    wiping,         \* reset() awaits its TRUNCATE
    spared,         \* the children whose kill() has thrown (history)
    life,           \* the process of every child
    era,            \* the number of wipes when the child last registered
    held,           \* what its last heartbeat told the child: `paused'
    row,            \* the status of the row of a name
    task,           \* the task the flow has submitted
    flow,           \* the flow of the page
    wipes, troubles, clicks

supervisor == <<up, boot, counter, managed, paused, wiping, spared>>
fleet == <<life, era, held, row>>
bounds == <<wipes, troubles, clicks>>
vars == <<supervisor, fleet, task, flow, bounds>>

\* The id of a row: a name gets a new one after a wipe.
WorkerId == Numbers \X (0..MaxWipes)
NoId == <<0, 0>>

Task == [status : {"none", "pending", "running", "completed"},
         by : Child \cup {NoChild}, worker : WorkerId \cup {NoId}, attempt : 0..MaxAttempts]

\* victim: the process the flow wants killed (history).
Flow == [kind : Flows \cup {"none"},
         at : {"idle", "spawn", "nap", "seed", "submit", "find", "kill", "wait", "replay",
               "stages"},
         known : SUBSET Numbers, online : 0..MaxSpawns, era : 0..MaxWipes,
         holder : WorkerId \cup {NoId}, victim : Child \cup {NoChild},
         attempt : 0..MaxAttempts, tries : 0..Tries, step : 0..3]

NoTask == [status |-> "none", by |-> NoChild, worker |-> NoId, attempt |-> 0]
Idle == [kind |-> "none", at |-> "idle", known |-> {}, online |-> 0, era |-> 0,
         holder |-> NoId, victim |-> NoChild, attempt |-> 0, tries |-> 0, step |-> 0]

TypeOK ==
    /\ up \in BOOLEAN /\ boot \in 0..MaxBoots
    /\ counter \in 0..MaxSpawns
    /\ managed \subseteq Numbers /\ paused \subseteq Numbers
    /\ wiping \in BOOLEAN /\ spared \subseteq Child
    /\ life \in [Child -> {"none", "booting", "running", "dead"}]
    /\ era \in [Child -> 0..MaxWipes]
    /\ held \in [Child -> BOOLEAN]
    /\ row \in [Numbers -> {"none", "online", "offline"}]
    /\ task \in Task
    /\ flow \in Flow
    /\ wipes \in 0..MaxWipes /\ troubles \in 0..MaxTroubles /\ clicks \in 0..MaxClicks

\* Everything that disturbs a flow shares one budget.
Trouble == troubles < MaxTroubles /\ troubles' = troubles + 1

Init ==
    /\ up = FALSE /\ boot = 0
    /\ counter = 0 /\ managed = {} /\ paused = {} /\ wiping = FALSE /\ spared = {}
    /\ life = [c \in Child |-> "none"]
    /\ era = [c \in Child |-> 0]
    /\ held = [c \in Child |-> FALSE]
    /\ row = [n \in Numbers |-> "none"]
    /\ task = NoTask /\ flow = Idle
    /\ wipes = 0 /\ troubles = 0 /\ clicks = 0

-----------------------------------------------------------------------------
(* The supervisor *)

Mine(n) == <<boot, n>>
Lives(c) == life[c] \in {"booting", "running"}

\* spawnWorker().
Spawned ==
    /\ counter < MaxSpawns
    /\ counter' = counter + 1
    /\ managed' = managed \cup {counter + 1}
    /\ life' = [life EXCEPT ![Mine(counter + 1)] = "booting"]

\* killWorker() of names in the map: the entries go, then the processes are
\* killed.  A kill() that throws is caught: that child lives on, unmanaged.
Killed(names) ==
    /\ managed' = managed \ names
    /\ \E failed \in SUBSET {n \in names : Lives(Mine(n))} :
         /\ spared' = spared \cup {Mine(n) : n \in failed}
         /\ life' = [c \in Child |->
                       IF c[1] = boot /\ c[2] \in names \ failed THEN "dead" ELSE life[c]]

\* A boot: the supervisor is a new object, the children of the last one live on
\* (neither close() nor a crash of the server ends them).
Start ==
    /\ ~up /\ boot < MaxBoots
    /\ up' = TRUE /\ boot' = boot + 1
    /\ counter' = Initial /\ managed' = 1..Initial /\ paused' = {}
    /\ life' = [c \in Child |->
                  IF c[1] = boot + 1 /\ c[2] <= Initial THEN "booting" ELSE life[c]]
    /\ UNCHANGED <<wiping, spared, era, held, row, task, flow, bounds>>

Stop ==
    /\ up /\ Trouble
    /\ up' = FALSE /\ counter' = 0 /\ managed' = {} /\ paused' = {} /\ wiping' = FALSE
    /\ UNCHANGED <<boot, spared, fleet, task, flow, wipes, clicks>>

\* POST /spawn-worker, /kill-worker/:name, /pause-heartbeats/:name and
\* /resume-heartbeats/:name by another client; a 403 or a 404 changes nothing.
SpawnWorker ==
    /\ up /\ Spawned
    /\ UNCHANGED <<up, boot, paused, wiping, spared, era, held, row, task, flow, bounds>>

KillWorker(n) ==
    /\ up /\ n \in managed /\ Killed({n}) /\ Trouble
    /\ UNCHANGED <<up, boot, counter, paused, wiping, era, held, row, task, flow, wipes, clicks>>

PauseHeartbeats(n) ==
    /\ up /\ n \in managed \ paused /\ Trouble
    /\ paused' = paused \cup {n}
    /\ UNCHANGED <<up, boot, counter, managed, wiping, spared, fleet, task, flow, wipes,
                   clicks>>

ResumeHeartbeats(n) ==
    /\ up /\ n \in paused
    /\ paused' = paused \ {n}
    /\ UNCHANGED <<up, boot, counter, managed, wiping, spared, fleet, task, flow, bounds>>

\* Mutants of ResetKills: reset() makes a fresh start and counts from 1 again; it
\* empties the map before it kills what the map holds.
ResetKillsRecounts ==
    /\ up /\ ~wiping /\ wipes < MaxWipes /\ Trouble
    /\ wiping' = TRUE /\ counter' = 0 /\ Killed(managed)
    /\ UNCHANGED <<up, boot, paused, era, held, row, task, flow, wipes, clicks>>

ResetForgets ==
    /\ up /\ ~wiping /\ wipes < MaxWipes /\ Trouble
    /\ wiping' = TRUE /\ managed' = {} /\ UNCHANGED <<spared, life>>
    /\ UNCHANGED <<up, boot, counter, paused, era, held, row, task, flow, wipes, clicks>>

\* reset(): killAll(), then the TRUNCATE.
ResetKills ==
    /\ up /\ ~wiping /\ wipes < MaxWipes /\ Trouble
    /\ wiping' = TRUE /\ Killed(managed)
    /\ UNCHANGED <<up, boot, counter, paused, era, held, row, task, flow, wipes, clicks>>

ResetWipes ==
    /\ wiping
    /\ wiping' = FALSE /\ wipes' = wipes + 1
    /\ row' = [n \in Numbers |-> "none"]
    /\ task' = NoTask
    /\ UNCHANGED <<up, boot, counter, managed, paused, spared, life, era, held, flow, troubles,
                   clicks>>

\* The 'exit' callback of a child that crashed.
ChildExits(n) ==
    /\ up /\ n \in managed /\ life[Mine(n)] = "dead"
    /\ managed' = managed \ {n}
    /\ UNCHANGED <<up, boot, counter, paused, wiping, spared, fleet, task, flow, bounds>>

-----------------------------------------------------------------------------
(* The children, and the coordinator as they and the page see it *)

Crash(c) ==
    /\ Lives(c) /\ Trouble
    /\ life' = [life EXCEPT ![c] = "dead"]
    /\ UNCHANGED <<supervisor, era, held, row, task, flow, wipes, clicks>>

\* register(): one row for a name, whoever asks.
Registered(c) ==
    /\ row' = [row EXCEPT ![c[2]] = "online"]
    /\ era' = [era EXCEPT ![c] = wipes]

Register(c) ==
    /\ up /\ life[c] = "booting" /\ Registered(c)
    /\ life' = [life EXCEPT ![c] = "running"]
    /\ UNCHANGED <<supervisor, held, task, flow, bounds>>

\* A heartbeat: the answer says whether the name is paused; a child whose row
\* is offline or gone registers again.
KnowsRow(c) == era[c] = wipes /\ row[c[2]] = "online"

Heartbeat(c) ==
    /\ up /\ life[c] = "running"
    /\ IF KnowsRow(c)
       THEN /\ held' = [held EXCEPT ![c] = c[2] \in paused]
            /\ UNCHANGED <<era, row>>
       ELSE /\ Registered(c)
            /\ UNCHANGED held
    /\ UNCHANGED <<supervisor, life, task, flow, bounds>>

\* markTimedOut(): nobody beats for the row of this name.
TimesOut(n) ==
    /\ up /\ row[n] = "online"
    /\ \A c \in Child : c[2] = n => ~(life[c] = "running" /\ era[c] = wipes)
    /\ row' = [row EXCEPT ![n] = "offline"]
    /\ UNCHANGED <<supervisor, life, era, held, task, flow, bounds>>

\* The claim loop does not ask while `paused'; it works on one task at a time.
Claim(c) ==
    /\ up /\ life[c] = "running" /\ ~held[c]
    /\ task.status = "pending" /\ task.attempt < MaxAttempts
    /\ task' = [status |-> "running", by |-> c, worker |-> <<c[2], era[c]>>,
                 attempt |-> task.attempt + 1]
    /\ UNCHANGED <<supervisor, fleet, flow, bounds>>

Complete ==
    /\ up /\ task.status = "running" /\ life[task.by] = "running"
    /\ task' = [task EXCEPT !.status = "completed", !.by = NoChild, !.worker = NoId]
    /\ UNCHANGED <<supervisor, fleet, flow, bounds>>

\* recoverExpired(): the lease of a process that is dead, or slow, expires.
Recover ==
    /\ up /\ task.status = "running"
    /\ \/ life[task.by] = "dead" /\ UNCHANGED troubles
       \/ Lives(task.by) /\ Trouble
    /\ task' = [task EXCEPT !.status = "pending", !.by = NoChild, !.worker = NoId]
    /\ UNCHANGED <<supervisor, fleet, flow, wipes, clicks>>

-----------------------------------------------------------------------------
(* The page.  A click closes over the snapshot of its render: `known' and    *)
(* `online' never change while the flow runs.                               *)

Wanted(k) == IF k = "load" THEN LoadWanted ELSE 2
AfterSpawn == IF flow.kind = "load" THEN "seed" ELSE "submit"

Go(there) == flow' = [flow EXCEPT !.at = there]

\* The catch of a flow: the error is shown, the button works again.
GiveUp == flow' = Idle

\* Mutant of TryAgain: the loop polls until it finds what it looks for.
TryAgainForever == UNCHANGED flow

\* One poll of /api/tasks that found nothing.
TryAgain ==
    IF flow.tries = 1 THEN GiveUp ELSE flow' = [flow EXCEPT !.tries = @ - 1]

OnlineNames == {n \in Numbers : row[n] = "online"}

Clicked(k) ==
    [Idle EXCEPT !.kind = k, !.era = wipes, !.online = Cardinality(OnlineNames),
                 !.known = {n \in Numbers : row[n] # "none"}]

Click(k) ==
    /\ flow.at = "idle" /\ clicks < MaxClicks
    /\ clicks' = clicks + 1
    /\ LET f == Clicked(k)
           enough == f.online >= Wanted(k)
       IN  flow' = [f EXCEPT !.at = CASE ~enough -> "spawn"
                                      [] enough /\ k = "load" -> "seed"
                                      [] OTHER -> "submit"]
    /\ UNCHANGED <<supervisor, fleet, task, wipes, troubles>>

\* The flow asks for a worker and sleeps.  Above MaxSpawns the call succeeds as
\* before, the child is just not told apart.
AskWorker ==
    /\ up /\ flow.at = "spawn" /\ Go("nap")
    /\ \/ Spawned
       \/ counter = MaxSpawns /\ UNCHANGED <<counter, managed, life>>
    /\ UNCHANGED <<up, boot, paused, wiping, spared, era, held, row, task, bounds>>

\* while (online.length < 3): the load test looks at its closure again, the
\* other flows go on.
Nap ==
    /\ flow.at = "nap"
    /\ IF flow.kind = "load" /\ flow.online < Wanted("load") THEN Go("spawn") ELSE Go(AfterSpawn)
    /\ UNCHANGED <<supervisor, fleet, task, bounds>>

\* The base line is read, the burst of tasks is seeded.
SeedLoad ==
    /\ up /\ flow.at = "seed" /\ flow' = Idle
    /\ UNCHANGED <<supervisor, fleet, task, bounds>>

Submit ==
    /\ up /\ flow.at = "submit"
    /\ task' = [NoTask EXCEPT !.status = "pending"]
    /\ flow' = [flow EXCEPT !.at = "find", !.tries = Tries]
    /\ UNCHANGED <<supervisor, fleet, bounds>>

\* s.workers.find(w => w.id === id): the row existed when the button was pressed.
NameKnown(id) == id[1] \in flow.known /\ id[2] = flow.era

\* Poll until the task runs.  The scenario throws when it cannot name the
\* holder, the fencing demo goes on with a piece of the id.
FindHolder ==
    /\ up /\ flow.at = "find"
    /\ IF task.status # "running" THEN TryAgain
       ELSE IF flow.kind = "scenario" /\ ~NameKnown(task.worker) THEN GiveUp
       ELSE flow' = [flow EXCEPT !.at = "kill", !.holder = task.worker, !.victim = task.by,
                                 !.attempt = task.attempt, !.step = 1]
    /\ UNCHANGED <<supervisor, fleet, task, bounds>>

\* POST /kill-worker/:name: 404, and the end of the flow, for a name that is not
\* managed.  Then the scenario watches for its stages in the feed it has closed
\* over, which holds nothing younger than the click: it stays there.
KillTarget == NameKnown(flow.holder) /\ flow.holder[1] \in managed

KillHolder ==
    /\ up /\ flow.at = "kill"
    /\ IF KillTarget
       THEN /\ Killed({flow.holder[1]})
            /\ flow' = [flow EXCEPT !.at = IF flow.kind = "scenario" THEN "stages" ELSE "wait",
                                    !.tries = Tries]
       ELSE GiveUp /\ UNCHANGED <<managed, spared, life>>
    /\ UNCHANGED <<up, boot, counter, paused, wiping, era, held, row, task, bounds>>

\* Mutant of Moved: any running task counts, the old holder's too.
MovedAnywhere == task.status = "running"

\* The task is seen at a worker of another id.
Moved == task.status = "running" /\ task.worker # flow.holder

WaitMoved ==
    /\ up /\ flow.at = "wait"
    /\ IF Moved THEN flow' = [flow EXCEPT !.at = "replay", !.step = 2] ELSE TryAgain
    /\ UNCHANGED <<supervisor, fleet, task, bounds>>

\* A completion with a token nobody was ever given: no row matches, 409.
ReplayStale ==
    /\ up /\ flow.at = "replay"
    /\ flow' = [flow EXCEPT !.at = "idle", !.step = 3]
    /\ UNCHANGED <<supervisor, fleet, task, bounds>>

\* fetch() rejects while no server listens.
Unreachable ==
    /\ ~up /\ flow.at \in {"spawn", "seed", "submit", "find", "kill", "wait", "replay"}
    /\ GiveUp
    /\ UNCHANGED <<supervisor, fleet, task, bounds>>

FlowStep ==
    \/ AskWorker \/ Nap \/ SeedLoad \/ Submit \/ FindHolder \/ KillHolder
    \/ WaitMoved \/ ReplayStale \/ Unreachable

-----------------------------------------------------------------------------
Next ==
    \/ Start \/ Stop \/ SpawnWorker \/ ResetKills \/ ResetWipes
    \/ \E n \in Numbers :
         \/ KillWorker(n) \/ PauseHeartbeats(n) \/ ResumeHeartbeats(n)
         \/ ChildExits(n) \/ TimesOut(n)
    \/ \E c \in Child : Crash(c) \/ Register(c) \/ Heartbeat(c) \/ Claim(c)
    \/ Complete \/ Recover
    \/ \E k \in Flows : Click(k)
    \/ FlowStep

Spec == Init /\ [][Next]_vars

\* A page that stays open: its timers fire and its calls are answered or
\* rejected.  Nothing else owes it anything.
FairSpec == Spec /\ WF_vars(FlowStep)

-----------------------------------------------------------------------------
(* Properties *)

\* chaosSupervisor.ts:36-38, 89-93: `paused' is keyed by name and outlives the
\* child, so a name must never be given twice by one server: no worker is born
\* with its heartbeats paused.
NeverBornPaused == [][\A n \in managed' \ managed : n \notin paused']_vars

\* API.md:275: a reset kills the managed workers.  It can only kill what is in
\* the map: whatever crashes, is killed or exits, every living child of this
\* server is in it, but for those whose kill() has thrown.
NoChildForgotten ==
    up => \A n \in Numbers : Lives(Mine(n)) => n \in managed \/ Mine(n) \in spared

\* ChaosPage.tsx:149-159: the page says "reassigned (fresh lease issued)" only
\* when the task was claimed again after the claim it has killed the holder of.
ReassignedIsReclaimed ==
    flow.kind = "fencing" /\ flow.step >= 2 /\ task.status # "none"
        => task.attempt > flow.attempt \/ wipes > flow.era

\* ChaosPage.tsx:123, 144, 178: whatever becomes of the task, of the workers and
\* of the server, the fencing demo ends and its button works again.
FencingEnds == flow.kind = "fencing" ~> flow.at = "idle"

\* ChaosPage.tsx:60-68: the load test deploys workers until enough are
\* online; when they are, it starts.
LoadTestStarts ==
    flow.kind = "load" /\ Cardinality(OnlineNames) >= LoadWanted ~> flow.at = "idle"

\* ChaosPage.tsx:222: the stages of the scenario fill in, and its button works
\* again.
ScenarioEnds == flow.kind = "scenario" ~> flow.at = "idle"

\* API.md:238: terminating a worker kills the process.  A flow kills no other
\* process than the one that runs the task.
KillsOnlyHolder ==
    [][KillHolder => \A c \in Child : life'[c] # life[c] => c = flow.victim]_vars

=============================================================================
