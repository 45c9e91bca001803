-------------------------- MODULE WorkerFleetProofs --------------------------
(***************************************************************************)
(* Proofs about WorkerFleet, for every number of tasks, processes, losses, *)
(* kills and reassignments: the coordinator keeps its contract, a process  *)
(* keeps its capacity, and one of capacity 1 acknowledges an execution     *)
(* under the lease it was claimed with.                                    *)
(***************************************************************************)
EXTENDS WorkerFleet, TaskStoreProofs, FunctionTheorems, FiniteSetTheorems

-----------------------------------------------------------------------------
(* The tables *)

\* The statements of a heartbeat: the row of the worker, and leases that stay held.
Refreshed(p) ==
    /\ UNCHANGED <<grants, failures, acker>>
    /\ workers' \in [WorkerIds -> WorkerRow]
    /\ \E S \in SUBSET {t \in Tasks : tasks[t].status = "running"} :
          tasks' = [t \in Tasks |->
                      IF t \in S THEN [tasks[t] EXCEPT !.lease = "live"] ELSE tasks[t]]

LEMMA RefreshedKeeps ==
    ASSUME StoreInv, NEW p \in WorkerIds, Refreshed(p)
    PROVE  StoreInv' /\ \A u \in Tasks : LifeOf(u)' = LifeOf(u)
<1>1. PICK S \in SUBSET {t \in Tasks : tasks[t].status = "running"} :
          tasks' = [t \in Tasks |->
                      IF t \in S THEN [tasks[t] EXCEPT !.lease = "live"] ELSE tasks[t]]
  BY DEF Refreshed
<1>2. ASSUME NEW u \in Tasks
      PROVE  TaskOK(u)' /\ LifeOf(u)' = LifeOf(u)
  <2>1. grants'[u] = grants[u] /\ failures'[u] = failures[u] /\ acker'[u] = acker[u]
    BY DEF Refreshed
  <2>2. CASE u \in S
    <3> DEFINE row == [tasks[u] EXCEPT !.lease = "live"]
    <3>1. /\ row \in Row /\ row.lease = "live" /\ row.status = tasks[u].status
          /\ row.worker = tasks[u].worker /\ row.token = tasks[u].token
          /\ row.attempt = tasks[u].attempt /\ row.runAt = tasks[u].runAt
      BY DEF StoreInv, StoreTypeOK, Row
    <3>2. tasks[u].status = "running" /\ tasks'[u] = row
      BY <1>1, <2>2
    <3> HIDE DEF row
    <3>3. RowOK(row, grants[u], failures[u], MaxAttempts[u])
      BY <3>1, <3>2 DEF StoreInv, TaskOK, RowOK, Consistent, Budgeted
    <3>4. QED  BY <2>1, <3>1, <3>2, <3>3 DEF TaskOK, LifeOf
  <2>3. CASE u \notin S
    <3>1. tasks'[u] = tasks[u]
      BY <1>1, <2>3
    <3>2. QED  BY <2>1, <3>1 DEF StoreInv, TaskOK, LifeOf
  <2>4. QED  BY <2>2, <2>3
<1>3. StoreTypeOK'
  BY <1>1, <1>2 DEF Refreshed, StoreInv, StoreTypeOK, TaskOK, RowOK
<1>4. QED  BY <1>2, <1>3 DEF StoreInv

\* Every action but a heartbeat issues at most one statement of TaskStore.
LEMMA ActionsAreStatements ==
    ASSUME StoreInv, TypeOK, Next
    PROVE  StoreStep \/ \E p \in WorkerIds : Refreshed(p)
<1> USE DEF StoreStep, OtherStep
<1>1. ASSUME NEW p \in WorkerIds, BeatServe(p)
      PROVE  Refreshed(p) \/ UNCHANGED storeVars
  <2> DEFINE held == {l \in beat[p].leases : Holds(l.task, p, l.token)}
             S == {t \in Tasks : \E l \in held : l.task = t}
  <2>1. CASE workers[p].status = "online"
    <3>1. UNCHANGED <<grants, failures, acker>>
      BY <1>1 DEF BeatServe
    <3>2. workers' = [workers EXCEPT ![p].lastBeat = "recent"]
      BY <1>1, <2>1 DEF BeatServe
    <3>3. workers' \in [WorkerIds -> WorkerRow]
      BY <3>2 DEF StoreInv, StoreTypeOK, WorkerRow
    <3>4. tasks' = [t \in Tasks |->
                      IF t \in S THEN [tasks[t] EXCEPT !.lease = "live"] ELSE tasks[t]]
      BY <1>1, <2>1 DEF BeatServe
    <3>5. S \in SUBSET {t \in Tasks : tasks[t].status = "running"}
      BY DEF Holds
    <3>6. QED  BY <3>1, <3>3, <3>4, <3>5 DEF Refreshed
  <2>2. CASE workers[p].status # "online"
    BY <1>1, <2>2 DEF BeatServe, storeVars
  <2>3. QED  BY <2>1, <2>2
<1>2. ASSUME NEW p \in WorkerIds, BeatSend(p) \/ BeatDeliver(p) \/ BeatRegister(p)
      PROVE  StoreStep
  BY <1>2 DEF BeatSend, BeatDeliver, BeatRegister
<1>3. ASSUME NEW p \in WorkerIds, ClaimLoop(p)
      PROVE  StoreStep
  <2>1. Claimable \subseteq Tasks
    BY DEF Claimable, InStatus
  <2>2. QED  BY <1>3, <2>1 DEF ClaimLoop, ClaimSend, ClaimServe, ClaimDeliver
<1>4. ASSUME NEW p \in WorkerIds, NEW e \in runs[p],
             HandlerEnds(p, e) \/ AckServe(p, e) \/ AckDeliver(p, e) \/ AckLost(p, e)
      PROVE  StoreStep
  <2>1. e.task \in Tasks /\ e.token \in Nat
    BY DEF TypeOK, Execution
  <2>2. CASE AckServe(p, e)
    BY <2>1, <2>2 DEF AckServe, storeVars
  <2>3. CASE HandlerEnds(p, e) \/ AckDeliver(p, e) \/ AckLost(p, e)
    BY <2>3 DEF HandlerEnds, AckDeliver, AckLost
  <2>4. QED  BY <1>4, <2>2, <2>3
<1>5. ASSUME NEW p \in WorkerIds, Stopping(p)
      PROVE  StoreStep
  BY <1>5 DEF Stopping, ShutdownRelease, ShutdownOffline, Exit, Vanish
<1>6. ASSUME NEW p \in WorkerIds, BeatLost(p) \/ ClaimLost(p) \/ ShutdownLost(p) \/ Kill(p)
      PROVE  StoreStep
  BY <1>6 DEF BeatLost, ClaimLost, ShutdownLost, Kill, Vanish
<1>7. ASSUME NEW p \in WorkerIds, Operator(p) \/ Silence(p)
      PROVE  StoreStep
  BY <1>7 DEF Operator, Silence, Start, Stop, PauseHeartbeats, ResumeHeartbeats, Reassign
<1>8. ASSUME NEW t \in Tasks, NewTask(t) \/ Lapse(t) \/ BackoffPasses(t)
      PROVE  StoreStep
  BY <1>8 DEF NewTask, Lapse, BackoffPasses
<1>9. CASE ReaperMark \/ ReaperRecover
  BY <1>9 DEF ReaperMark, ReaperRecover
<1>10. QED
  BY <1>1, <1>2, <1>3, <1>4, <1>5, <1>6, <1>7, <1>8, <1>9 DEF Next, BeatLoop, Executing, Mishap

-----------------------------------------------------------------------------
(* Types, and the slots of a process *)

\* What a process executes, and what its claim may still bring, fit together:
\* executions only end while a claim is under way.
Slots(p) ==
    /\ IsFiniteSet(runs[p]) /\ IsFiniteSet(claim[p].got)
    /\ Cardinality(claim[p].got) <= claim[p].batch
    /\ Cardinality(runs[p]) + claim[p].batch <= Capacity

FleetInv ==
    /\ StoreInv /\ TypeOK
    /\ \A p \in WorkerIds : Slots(p)

\* The variables of the processes; the tables are the business of StoreInv.
FleetTypeOK ==
    /\ life \in [WorkerIds -> {"off", "running", "stopping", "gone"}]
    /\ leases \in [WorkerIds -> [Tasks -> Nat]]
    /\ aborts \in [WorkerIds -> [Tasks -> Nat]]
    /\ runs \in [WorkerIds -> SUBSET Execution]
    /\ paused \in [WorkerIds -> BOOLEAN]
    /\ beat \in [WorkerIds -> BeatCall]
    /\ claim \in [WorkerIds -> ClaimCall]
    /\ shutdown \in [WorkerIds -> {"none", "sent", "released", "done"}]
    /\ cut \subseteq WorkerIds
    /\ reaping \in BOOLEAN
    /\ budget \in [lost : 0..MaxLost, kills : 0..MaxKills, moves : 0..MaxMoves]
    /\ moved \in [Tasks -> Nat]
    /\ ackedRun \in [Tasks -> Nat]

LEMMA IdleCalls ==
    /\ IdleBeat \in BeatCall /\ Unheard \in BeatCall
    /\ IdleClaim \in ClaimCall /\ IdleClaim.batch = 0 /\ IdleClaim.got = {}
<1>1. IdleBeat \in BeatCall
  BY DEF IdleBeat, BeatCall
<1>2. Unheard \in BeatCall
  BY <1>1 DEF Unheard, BeatCall
<1>3. 0 \in 0..Capacity
  BY FleetAssumption
<1>4. IdleClaim \in ClaimCall /\ IdleClaim.batch = 0 /\ IdleClaim.got = {}
  BY <1>3 DEF IdleClaim, ClaimCall
<1>5. QED  BY <1>1, <1>2, <1>4

LEMMA LeaseSetType ==
    ASSUME FleetTypeOK, NEW p \in WorkerIds
    PROVE  LeaseSet(p) \in SUBSET Leases
<1>1. \A t \in Tasks : leases[p][t] \in Nat
  BY DEF FleetTypeOK
<1>2. \A t \in Tasks : [task |-> t, token |-> leases[p][t]] \in Leases
  BY <1>1 DEF Leases
<1>3. QED  BY <1>2 DEF LeaseSet

\* A map whose entries are overwritten by leases is a map again.
LEMMA RecordedType ==
    ASSUME NEW map \in [Tasks -> Nat], NEW got \in SUBSET Leases
    PROVE  Recorded(map, got) \in [Tasks -> Nat]
<1>1. ASSUME NEW t \in Tasks, NEW l \in got, l.task = t
      PROVE  (CHOOSE m \in got : m.task = t).token \in Nat
  <2>1. (CHOOSE m \in got : m.task = t) \in got
    BY <1>1
  <2>2. QED  BY <2>1 DEF Leases
<1>2. QED  BY <1>1 DEF Recorded

LEMMA SpendType ==
    ASSUME FleetTypeOK
    PROVE  /\ Lose => budget' \in [lost : 0..MaxLost, kills : 0..MaxKills, moves : 0..MaxMoves]
           /\ budget.kills > 0 =>
                 [budget EXCEPT !.kills = @ - 1]
                    \in [lost : 0..MaxLost, kills : 0..MaxKills, moves : 0..MaxMoves]
           /\ budget.moves > 0 =>
                 [budget EXCEPT !.moves = @ - 1]
                    \in [lost : 0..MaxLost, kills : 0..MaxKills, moves : 0..MaxMoves]
<1>1. /\ budget.lost \in 0..MaxLost /\ budget.kills \in 0..MaxKills
      /\ budget.moves \in 0..MaxMoves
      /\ budget \in [lost : 0..MaxLost, kills : 0..MaxKills, moves : 0..MaxMoves]
  BY DEF FleetTypeOK
<1>2. /\ budget.lost > 0 => budget.lost - 1 \in 0..MaxLost
      /\ budget.kills > 0 => budget.kills - 1 \in 0..MaxKills
      /\ budget.moves > 0 => budget.moves - 1 \in 0..MaxMoves
  BY <1>1, FleetAssumption
<1>3. QED  BY <1>1, <1>2 DEF Lose

\* One less execution, the same number, or a smaller set.
LEMMA FewerRuns ==
    ASSUME NEW S, IsFiniteSet(S), NEW e \in S, NEW f
    PROVE  /\ IsFiniteSet(S \ {e}) /\ Cardinality(S \ {e}) <= Cardinality(S)
           /\ IsFiniteSet((S \ {e}) \cup {f})
           /\ Cardinality((S \ {e}) \cup {f}) <= Cardinality(S)
<1>1. IsFiniteSet(S \ {e}) /\ Cardinality(S \ {e}) = Cardinality(S) - 1
  BY FS_RemoveElement
<1>2. /\ IsFiniteSet((S \ {e}) \cup {f})
      /\ Cardinality((S \ {e}) \cup {f}) \in {Cardinality(S \ {e}), Cardinality(S \ {e}) + 1}
  BY <1>1, FS_AddElement
<1>3. Cardinality(S) \in Nat
  BY FS_CardinalityType
<1>4. QED  BY <1>1, <1>2, <1>3

LEMMA InitFleet == Init => FleetInv
<1> SUFFICES ASSUME Init PROVE FleetInv
  OBVIOUS
<1>1. StoreInv
  BY EmptyStoreOK DEF Init
<1>2. FleetTypeOK
  <2>1. budget \in [lost : 0..MaxLost, kills : 0..MaxKills, moves : 0..MaxMoves]
    BY FleetAssumption DEF Init
  <2>2. /\ beat \in [WorkerIds -> BeatCall] /\ claim \in [WorkerIds -> ClaimCall]
        /\ runs \in [WorkerIds -> SUBSET Execution]
    BY IdleCalls DEF Init
  <2>3. /\ leases \in [WorkerIds -> [Tasks -> Nat]] /\ aborts \in [WorkerIds -> [Tasks -> Nat]]
        /\ moved \in [Tasks -> Nat] /\ ackedRun \in [Tasks -> Nat]
    BY DEF Init, NoToken
  <2>4. QED  BY <2>1, <2>2, <2>3 DEF Init, FleetTypeOK
<1>3. ASSUME NEW p \in WorkerIds PROVE Slots(p)
  <2>1. runs[p] = {} /\ claim[p].got = {} /\ claim[p].batch = 0
    BY IdleCalls DEF Init
  <2>2. QED  BY <2>1, FS_EmptySet, FleetAssumption DEF Slots
<1>4. QED  BY <1>1, <1>2, <1>3 DEF FleetInv, TypeOK, FleetTypeOK, StoreInv

LEMMA SentType ==
    ASSUME NEW S \in SUBSET Leases
    PROVE  [st |-> "sent", leases |-> S, revoked |-> {}, paused |-> FALSE] \in BeatCall
BY DEF BeatCall

\* The heartbeat loop.
LEMMA BeatKeeps ==
    ASSUME FleetInv, NEW p \in WorkerIds, BeatLoop(p) \/ BeatLost(p)
    PROVE  FleetTypeOK' /\ \A q \in WorkerIds : Slots(q)'
<1>0. FleetTypeOK
  BY DEF FleetInv, TypeOK, FleetTypeOK
<1>1. CASE BeatSend(p)
  <2>1. [st |-> "sent", leases |-> LeaseSet(p), revoked |-> {}, paused |-> FALSE] \in BeatCall
    BY <1>0, SentType, LeaseSetType
  <2>2. QED  BY <1>0, <1>1, <2>1 DEF BeatSend, FleetTypeOK, FleetInv, Slots, auxVars
<1>2. CASE BeatServe(p)
  <2> DEFINE held == {l \in beat[p].leases : Holds(l.task, p, l.token)}
             refused == {l.task : l \in beat[p].leases \ held}
  <2>1. refused \in SUBSET Tasks
    BY <1>0 DEF FleetTypeOK, BeatCall, Leases
  <2>2. [st |-> "answered", leases |-> beat[p].leases, revoked |-> refused, paused |-> p \in cut]
           \in BeatCall
    <3>1. beat[p].leases \in SUBSET Leases /\ (p \in cut) \in BOOLEAN
      BY <1>0 DEF FleetTypeOK, BeatCall
    <3> HIDE DEF refused
    <3>2. QED  BY <2>1, <3>1 DEF BeatCall
  <2>3. beat' \in [WorkerIds -> BeatCall]
    BY <1>0, <1>2, <2>2, IdleCalls DEF BeatServe, FleetTypeOK
  <2>4. UNCHANGED <<life, leases, aborts, runs, paused, claim, shutdown, cut, reaping, budget, auxVars>>
    BY <1>2 DEF BeatServe
  <2>5. QED  BY <1>0, <2>3, <2>4 DEF FleetTypeOK, FleetInv, Slots, auxVars
<1>3. CASE BeatDeliver(p)
  <2> DEFINE stop == [e \in runs[p] |-> IF e.task \in beat[p].revoked /\ aborts[p][e.task] = e.run
                                       THEN [e EXCEPT !.aborted = TRUE] ELSE e]
  <2>1. Abort(p) \in SUBSET Execution
    <3>1. \A e \in runs[p] : e \in Execution
      BY <1>0 DEF FleetTypeOK
    <3>2. \A e \in Execution : [e EXCEPT !.aborted = TRUE] \in Execution
      BY DEF Execution
    <3>3. QED  BY <3>1, <3>2 DEF Abort
  <2>2. stop \in Surjection(runs[p], Abort(p))
    BY DEF Abort, Surjection
  <2>3. IsFiniteSet(Abort(p)) /\ Cardinality(Abort(p)) <= Cardinality(runs[p])
    BY <2>2, FS_Surjection DEF FleetInv, Slots
  <2>4. /\ runs' = [runs EXCEPT ![p] = Abort(p)] /\ UNCHANGED claim
        /\ UNCHANGED <<life, aborts, shutdown, cut, reaping, budget, auxVars>>
        /\ paused' = [paused EXCEPT ![p] = beat[p].paused]
        /\ beat' = [beat EXCEPT ![p] = IdleBeat]
        /\ leases' = [leases EXCEPT ![p] =
                         [t \in Tasks |-> IF t \in beat[p].revoked THEN NoToken ELSE leases[p][t]]]
    BY <1>3 DEF BeatDeliver
  <2>5. leases' \in [WorkerIds -> [Tasks -> Nat]]
    BY <1>0, <2>4 DEF FleetTypeOK, NoToken
  <2>6. /\ runs' \in [WorkerIds -> SUBSET Execution]
        /\ paused' \in [WorkerIds -> BOOLEAN] /\ beat' \in [WorkerIds -> BeatCall]
    BY <1>0, <2>1, <2>4, IdleCalls DEF FleetTypeOK, BeatCall
  <2>7. ASSUME NEW q \in WorkerIds PROVE Slots(q)'
    <3>1. CASE q = p
      <4>1. runs'[q] = Abort(p) /\ claim' = claim
        BY <1>0, <2>4, <3>1 DEF FleetTypeOK
      <4>2. Cardinality(Abort(p)) \in Nat /\ Cardinality(runs[p]) \in Nat /\ claim[p].batch \in Nat
        BY <1>0, <2>3, FS_CardinalityType DEF FleetInv, Slots, FleetTypeOK, ClaimCall
      <4>3. QED  BY <2>3, <3>1, <4>1, <4>2, FleetAssumption DEF FleetInv, Slots
    <3>2. CASE q # p
      BY <1>0, <2>4, <3>2 DEF FleetInv, Slots, FleetTypeOK
    <3>3. QED  BY <3>1, <3>2
  <2>8. QED  BY <1>0, <2>4, <2>5, <2>6, <2>7 DEF FleetTypeOK, auxVars
<1>4. CASE BeatRegister(p)
  BY <1>0, <1>4, IdleCalls DEF BeatRegister, FleetTypeOK, FleetInv, Slots, auxVars
<1>5. CASE BeatLost(p)
  <2>1. [st |-> "sent", leases |-> beat[p].leases, revoked |-> {}, paused |-> FALSE] \in BeatCall
    <3>1. beat[p].leases \in SUBSET Leases
      BY <1>0 DEF FleetTypeOK, BeatCall
    <3>2. QED  BY <3>1, SentType
  <2>2. beat' \in [WorkerIds -> BeatCall]
    BY <1>0, <1>5, <2>1, IdleCalls DEF BeatLost, FleetTypeOK
  <2>3. budget' \in [lost : 0..MaxLost, kills : 0..MaxKills, moves : 0..MaxMoves]
    BY <1>0, <1>5, SpendType DEF BeatLost
  <2>4. UNCHANGED <<life, leases, aborts, runs, paused, claim, shutdown, cut, reaping, auxVars>>
    BY <1>5 DEF BeatLost
  <2>5. QED  BY <1>0, <2>2, <2>3, <2>4 DEF FleetTypeOK, FleetInv, Slots, auxVars
<1>6. QED  BY <1>1, <1>2, <1>3, <1>4, <1>5 DEF BeatLoop

\* What the calls of a process say of its slots is all Slots needs.
LEMMA SlotsFrame ==
    ASSUME FleetInv, NEW p \in WorkerIds, NEW S, NEW c,
           runs' = [runs EXCEPT ![p] = S], claim' = [claim EXCEPT ![p] = c],
           IsFiniteSet(S), IsFiniteSet(c.got), Cardinality(c.got) <= c.batch,
           Cardinality(S) + c.batch <= Capacity
    PROVE  \A q \in WorkerIds : Slots(q)'
BY DEF FleetInv, TypeOK, Slots

\* A process as the numbers that bound it see it.
LEMMA SlotNumbers ==
    ASSUME FleetInv, NEW p \in WorkerIds
    PROVE  /\ Cardinality(runs[p]) \in Nat /\ Cardinality(claim[p].got) \in Nat
           /\ claim[p].batch \in 0..Capacity /\ claim[p].got \in SUBSET Leases
           /\ runs[p] \in SUBSET Execution
<1>1. Cardinality(runs[p]) \in Nat /\ Cardinality(claim[p].got) \in Nat
  BY FS_CardinalityType DEF FleetInv, Slots
<1>2. QED  BY <1>1 DEF FleetInv, TypeOK, ClaimCall

\* As many leases as rows that were picked, at most.
LEMMA GotOfPicked ==
    ASSUME NEW picked \in SUBSET Tasks, NEW g \in [Tasks -> Nat]
    PROVE  LET got == {[task |-> t, token |-> g[t]] : t \in picked}
           IN  /\ got \in SUBSET Leases /\ IsFiniteSet(got)
               /\ Cardinality(got) <= Cardinality(picked)
<1> DEFINE got == {[task |-> t, token |-> g[t]] : t \in picked}
           f == [t \in picked |-> [task |-> t, token |-> g[t]]]
<1>1. got \in SUBSET Leases
  BY DEF Leases
<1>2. f \in Surjection(picked, got)
  BY DEF Surjection
<1>3. IsFiniteSet(picked)
  BY TasksAssumption, FS_Subset
<1>4. QED  BY <1>1, <1>2, <1>3, FS_Surjection

\* The claim loop: a batch is at most the room there was when it was asked for,
\* and what comes back is at most the batch.
LEMMA ClaimLoopKeeps ==
    ASSUME FleetInv, StoreInv', NEW p \in WorkerIds, ClaimLoop(p) \/ ClaimLost(p)
    PROVE  FleetTypeOK' /\ \A q \in WorkerIds : Slots(q)'
<1>0. FleetTypeOK
  BY DEF FleetInv, TypeOK, FleetTypeOK
<1> DEFINE Same == UNCHANGED <<life, leases, aborts, runs, paused, beat, shutdown, cut, reaping, auxVars>>
<1>1. runs = [runs EXCEPT ![p] = runs[p]]
  BY <1>0 DEF FleetTypeOK
<1>2. CASE ClaimSend(p)
  <2> DEFINE c == [st |-> "sent", batch |-> Room(p), got |-> {}]
  <2>1. Room(p) \in 0..Capacity /\ Cardinality(runs[p]) + Room(p) <= Capacity
    BY <1>2, SlotNumbers, FleetAssumption DEF ClaimSend, Room
  <2>2. c \in ClaimCall
    BY <2>1 DEF ClaimCall
  <2>3. claim' = [claim EXCEPT ![p] = c] /\ Same /\ UNCHANGED budget
    BY <1>2 DEF ClaimSend
  <2>4. IsFiniteSet(c.got) /\ Cardinality(c.got) <= c.batch /\ Cardinality(runs[p]) + c.batch <= Capacity
    BY <2>1, FS_EmptySet
  <2>5. IsFiniteSet(runs[p])
    BY DEF FleetInv, Slots
  <2> HIDE DEF c
  <2>6. \A q \in WorkerIds : Slots(q)'
    BY <1>1, <2>3, <2>4, <2>5, SlotsFrame
  <2>7. QED  BY <1>0, <2>2, <2>3, <2>6 DEF FleetTypeOK, auxVars
<1>3. CASE ClaimServe(p)
  <2>1. PICK c : /\ claim' = [claim EXCEPT ![p] = c] /\ c \in ClaimCall
                 /\ IsFiniteSet(c.got) /\ Cardinality(c.got) <= c.batch
                 /\ c.batch <= claim[p].batch
    <3>1. CASE claim' = [claim EXCEPT ![p] = IdleClaim]
      <4>1. /\ IsFiniteSet(IdleClaim.got) /\ Cardinality(IdleClaim.got) <= IdleClaim.batch
            /\ IdleClaim.batch <= claim[p].batch /\ IdleClaim \in ClaimCall
        BY IdleCalls, FS_EmptySet, SlotNumbers
      <4>2. QED  BY <3>1, <4>1
    <3>2. CASE \E picked \in SUBSET Claimable :
                 /\ \/ Cardinality(picked) = claim[p].batch
                    \/ Cardinality(picked) < claim[p].batch /\ picked = Claimable
                 /\ Claim(p, picked, {})
                 /\ claim' = [claim EXCEPT ![p] =
                               [st |-> "answered", batch |-> @.batch,
                                got |-> {[task |-> t, token |-> grants'[t]] : t \in picked}]]
      <4>1. PICK picked \in SUBSET Claimable :
                 /\ \/ Cardinality(picked) = claim[p].batch
                    \/ Cardinality(picked) < claim[p].batch /\ picked = Claimable
                 /\ claim' = [claim EXCEPT ![p] =
                               [st |-> "answered", batch |-> claim[p].batch,
                                got |-> {[task |-> t, token |-> grants'[t]] : t \in picked}]]
        BY <3>2
      <4>2. PICK got : got = {[task |-> t, token |-> grants'[t]] : t \in picked}
        OBVIOUS
      <4>3. picked \in SUBSET Tasks /\ IsFiniteSet(picked)
        BY TasksAssumption, FS_Subset DEF Claimable, InStatus
      <4>4. grants' \in [Tasks -> Nat]
        BY DEF StoreInv, StoreTypeOK
      <4>5. got \in SUBSET Leases /\ IsFiniteSet(got) /\ Cardinality(got) <= Cardinality(picked)
        BY <4>2, <4>3, <4>4, GotOfPicked
      <4>6. Cardinality(got) \in Nat /\ Cardinality(picked) \in Nat
        BY <4>3, <4>5, FS_CardinalityType
      <4>7. Cardinality(got) <= claim[p].batch
        BY <4>1, <4>5, <4>6, SlotNumbers
      <4>8. [st |-> "answered", batch |-> claim[p].batch, got |-> got] \in ClaimCall
        BY <4>5, SlotNumbers DEF ClaimCall
      <4>9. claim[p].batch <= claim[p].batch
        BY SlotNumbers
      <4>10. PICK d : d = [st |-> "answered", batch |-> claim[p].batch, got |-> got]
        OBVIOUS
      <4>11. /\ claim' = [claim EXCEPT ![p] = d] /\ d \in ClaimCall
             /\ d.batch = claim[p].batch /\ d.got = got
        BY <4>1, <4>2, <4>8, <4>10
      <4>12. QED  BY <4>5, <4>7, <4>9, <4>11
    <3>3. QED  BY <1>3, <3>1, <3>2 DEF ClaimServe
  <2>2. Same /\ UNCHANGED budget
    BY <1>3 DEF ClaimServe
  <2>3. Cardinality(runs[p]) + c.batch <= Capacity /\ IsFiniteSet(runs[p])
    <3>1. c.batch \in 0..Capacity
      BY <2>1 DEF ClaimCall
    <3>2. QED  BY <2>1, <3>1, SlotNumbers, FleetAssumption DEF FleetInv, Slots
  <2>4. \A q \in WorkerIds : Slots(q)'
    BY <1>1, <2>1, <2>2, <2>3, SlotsFrame
  <2>5. QED  BY <1>0, <2>1, <2>2, <2>4 DEF FleetTypeOK, auxVars
<1>4. CASE ClaimLost(p)
  <2>1. PICK c : /\ claim' = [claim EXCEPT ![p] = c] /\ c \in ClaimCall
                 /\ c.got = {} /\ 0 <= c.batch /\ c.batch <= claim[p].batch
    <3>1. CASE claim' = [claim EXCEPT ![p] = IdleClaim]
      <4>1. /\ IdleClaim \in ClaimCall /\ IdleClaim.got = {} /\ 0 <= IdleClaim.batch
            /\ IdleClaim.batch <= claim[p].batch
        BY IdleCalls, SlotNumbers
      <4>2. QED  BY <3>1, <4>1
    <3>2. CASE claim' = [claim EXCEPT ![p] = [st |-> "sent", batch |-> @.batch, got |-> {}]]
      <4>1. [st |-> "sent", batch |-> claim[p].batch, got |-> {}] \in ClaimCall
        BY SlotNumbers DEF ClaimCall
      <4>2. 0 <= claim[p].batch /\ claim[p].batch <= claim[p].batch
        BY SlotNumbers
      <4>3. PICK d : d = [st |-> "sent", batch |-> claim[p].batch, got |-> {}]
        OBVIOUS
      <4>4. /\ claim' = [claim EXCEPT ![p] = d] /\ d \in ClaimCall
            /\ d.batch = claim[p].batch /\ d.got = {}
        BY <3>2, <4>1, <4>3
      <4>5. QED  BY <4>2, <4>4
    <3>3. QED  BY <1>4, <3>1, <3>2 DEF ClaimLost
  <2>2. Same
    BY <1>4 DEF ClaimLost
  <2>3. Cardinality(runs[p]) + c.batch <= Capacity /\ IsFiniteSet(runs[p])
    <3>1. c.batch \in 0..Capacity
      BY <2>1 DEF ClaimCall
    <3>2. QED  BY <2>1, <3>1, SlotNumbers, FleetAssumption DEF FleetInv, Slots
  <2>4. IsFiniteSet(c.got) /\ Cardinality(c.got) <= c.batch
    BY <2>1, FS_EmptySet
  <2>5. \A q \in WorkerIds : Slots(q)'
    BY <1>1, <2>1, <2>2, <2>3, <2>4, SlotsFrame
  <2>6. budget' \in [lost : 0..MaxLost, kills : 0..MaxKills, moves : 0..MaxMoves]
    BY <1>0, <1>4, SpendType DEF ClaimLost
  <2>7. QED  BY <1>0, <2>1, <2>2, <2>5, <2>6 DEF FleetTypeOK, auxVars
<1>5. CASE ClaimDeliver(p)
  <2> DEFINE born(l) == [task |-> l.task, run |-> l.token, token |-> NoToken,
                         aborted |-> FALSE, stage |-> "working"]
  <2>1. PICK new : new = {born(l) : l \in claim[p].got}
    OBVIOUS
  <2>2. new \in SUBSET Execution
    <3>1. ASSUME NEW l \in claim[p].got PROVE born(l) \in Execution
      <4>1. l.task \in Tasks /\ l.token \in Nat
        BY SlotNumbers DEF Leases
      <4>2. QED  BY <4>1 DEF Execution, NoToken
    <3>2. QED  BY <2>1, <3>1
  <2>3. IsFiniteSet(new) /\ Cardinality(new) <= claim[p].batch /\ Cardinality(new) \in Nat
    <3> DEFINE f == [l \in claim[p].got |-> born(l)]
    <3>1. f \in Surjection(claim[p].got, new)
      BY <2>1 DEF Surjection
    <3>2. IsFiniteSet(new) /\ Cardinality(new) <= Cardinality(claim[p].got)
      BY <3>1, FS_Surjection DEF FleetInv, Slots
    <3>3. Cardinality(new) \in Nat
      BY <3>2, FS_CardinalityType
    <3>4. QED  BY <3>2, <3>3, SlotNumbers DEF FleetInv, Slots
  <2>4. IsFiniteSet(runs[p] \cup new) /\ Cardinality(runs[p] \cup new) <= Capacity
    <3>1. /\ IsFiniteSet(runs[p] \cup new) /\ IsFiniteSet(runs[p] \cap new)
          /\ Cardinality(runs[p] \cup new)
               = Cardinality(runs[p]) + Cardinality(new) - Cardinality(runs[p] \cap new)
      BY <2>3, FS_Union, FS_Intersection DEF FleetInv, Slots
    <3>2. Cardinality(runs[p] \cap new) \in Nat
      BY <3>1, FS_CardinalityType
    <3>3. QED  BY <2>3, <3>1, <3>2, SlotNumbers, FleetAssumption DEF FleetInv, Slots
  <2>5. /\ runs' = [runs EXCEPT ![p] = runs[p] \cup new]
        /\ claim' = [claim EXCEPT ![p] = IdleClaim]
        /\ leases' = [leases EXCEPT ![p] = Recorded(leases[p], claim[p].got)]
        /\ aborts' = [aborts EXCEPT ![p] = Recorded(aborts[p], claim[p].got)]
        /\ UNCHANGED <<life, paused, beat, shutdown, cut, reaping, budget, auxVars>>
    BY <1>5, <2>1 DEF ClaimDeliver
  <2>6. \A q \in WorkerIds : Slots(q)'
    <3>1. /\ IsFiniteSet(IdleClaim.got) /\ Cardinality(IdleClaim.got) <= IdleClaim.batch
          /\ Cardinality(runs[p] \cup new) + IdleClaim.batch <= Capacity
      BY <2>4, IdleCalls, FS_EmptySet, FS_CardinalityType, FleetAssumption
    <3>2. QED  BY <2>4, <2>5, <3>1, SlotsFrame
  <2>7. /\ leases' \in [WorkerIds -> [Tasks -> Nat]] /\ aborts' \in [WorkerIds -> [Tasks -> Nat]]
    <3>1. /\ leases[p] \in [Tasks -> Nat] /\ aborts[p] \in [Tasks -> Nat]
          /\ claim[p].got \in SUBSET Leases
      BY <1>0, SlotNumbers DEF FleetTypeOK
    <3>2. /\ Recorded(leases[p], claim[p].got) \in [Tasks -> Nat]
          /\ Recorded(aborts[p], claim[p].got) \in [Tasks -> Nat]
      BY <3>1, RecordedType
    <3>3. QED  BY <1>0, <2>5, <3>2 DEF FleetTypeOK
  <2>8. runs' \in [WorkerIds -> SUBSET Execution] /\ claim' \in [WorkerIds -> ClaimCall]
    BY <1>0, <2>2, <2>5, IdleCalls, SlotNumbers DEF FleetTypeOK
  <2>9. QED  BY <1>0, <2>5, <2>6, <2>7, <2>8 DEF FleetTypeOK, auxVars
<1>6. QED  BY <1>2, <1>3, <1>4, <1>5 DEF ClaimLoop

\* An execution that moves on, ends, or is replaced by what follows it.
LEMMA StageType ==
    ASSUME NEW e \in Execution, NEW stage \in {"working", "completing", "failing", "answered"},
           NEW k \in Nat
    PROVE  [e EXCEPT !.stage = stage] \in Execution
           /\ [e EXCEPT !.stage = stage, !.token = k] \in Execution
<1>1. [e EXCEPT !.stage = stage] \in Execution
  BY DEF Execution
<1>2. \A f \in Execution : [f EXCEPT !.token = k] \in Execution
  BY DEF Execution
<1>3. QED  BY <1>1, <1>2

\* What a step of an execution does to the set of executions.
MovesOn(p, e) ==
    \/ runs' = [runs EXCEPT ![p] = @ \ {e}]
    \/ \E f \in Execution : runs' = [runs EXCEPT ![p] = (@ \ {e}) \cup {f}]

LEMMA MovesOnKeeps ==
    ASSUME FleetInv, NEW p \in WorkerIds, NEW e \in runs[p], MovesOn(p, e), UNCHANGED claim
    PROVE  runs' \in [WorkerIds -> SUBSET Execution] /\ \A q \in WorkerIds : Slots(q)'
<1>1. PICK S : /\ runs' = [runs EXCEPT ![p] = S] /\ S \in SUBSET Execution
               /\ IsFiniteSet(S) /\ Cardinality(S) <= Cardinality(runs[p])
  <2>1. IsFiniteSet(runs[p]) /\ runs[p] \in SUBSET Execution
    BY SlotNumbers DEF FleetInv, Slots
  <2>2. CASE runs' = [runs EXCEPT ![p] = @ \ {e}]
    <3>1. /\ IsFiniteSet(runs[p] \ {e}) /\ runs[p] \ {e} \in SUBSET Execution
          /\ Cardinality(runs[p] \ {e}) <= Cardinality(runs[p])
      BY <2>1, FewerRuns
    <3>2. QED  BY <2>2, <3>1
  <2>3. CASE \E f \in Execution : runs' = [runs EXCEPT ![p] = (@ \ {e}) \cup {f}]
    <3>1. PICK f \in Execution : runs' = [runs EXCEPT ![p] = (runs[p] \ {e}) \cup {f}]
      BY <2>3
    <3>2. /\ IsFiniteSet((runs[p] \ {e}) \cup {f}) /\ (runs[p] \ {e}) \cup {f} \in SUBSET Execution
          /\ Cardinality((runs[p] \ {e}) \cup {f}) <= Cardinality(runs[p])
      BY <2>1, FewerRuns
    <3>3. QED  BY <3>1, <3>2
  <2>4. QED  BY <2>2, <2>3 DEF MovesOn
<1>2. claim' = [claim EXCEPT ![p] = claim[p]]
  BY DEF FleetInv, TypeOK
<1>3. Cardinality(S) + claim[p].batch <= Capacity
  BY <1>1, SlotNumbers, FS_CardinalityType, FleetAssumption DEF FleetInv, Slots
<1>4. IsFiniteSet(claim[p].got) /\ Cardinality(claim[p].got) <= claim[p].batch
  BY DEF FleetInv, Slots
<1>5. \A q \in WorkerIds : Slots(q)'
  BY <1>1, <1>2, <1>3, <1>4, SlotsFrame
<1>6. QED  BY <1>1, <1>5 DEF FleetInv, TypeOK

\* The steps of an execution.
LEMMA ExecutionKeeps ==
    ASSUME FleetInv, NEW p \in WorkerIds, NEW e \in runs[p],
           HandlerEnds(p, e) \/ AckServe(p, e) \/ AckDeliver(p, e) \/ AckLost(p, e)
    PROVE  FleetTypeOK' /\ \A q \in WorkerIds : Slots(q)'
<1>0. FleetTypeOK
  BY DEF FleetInv, TypeOK, FleetTypeOK
<1>1. e \in Execution /\ e.task \in Tasks /\ e.run \in Nat
  BY <1>0 DEF FleetTypeOK, Execution
<1>2. leases[p][e.task] \in Nat
  BY <1>0, <1>1 DEF FleetTypeOK
<1>3. MovesOn(p, e)
  <2>1. \A stage \in {"working", "completing", "failing", "answered"} :
           /\ [e EXCEPT !.stage = stage] \in Execution
           /\ [e EXCEPT !.stage = stage, !.token = leases[p][e.task]] \in Execution
    BY <1>1, <1>2, StageType
  <2>2. CASE HandlerEnds(p, e)
    BY <2>1, <2>2 DEF HandlerEnds, Finish, Become, MovesOn
  <2>3. CASE AckServe(p, e)
    BY <2>1, <2>3 DEF AckServe, Finish, Become, MovesOn
  <2>4. CASE AckDeliver(p, e)
    BY <2>4 DEF AckDeliver, Finish, MovesOn
  <2>5. CASE AckLost(p, e)
    BY <2>1, <2>5 DEF AckLost, Finish, Become, MovesOn
  <2>6. QED  BY <2>2, <2>3, <2>4, <2>5
<1>4. UNCHANGED <<life, paused, beat, claim, shutdown, cut, reaping, moved>>
  BY DEF HandlerEnds, AckServe, AckDeliver, AckLost, auxVars
<1>5. runs' \in [WorkerIds -> SUBSET Execution] /\ \A q \in WorkerIds : Slots(q)'
  BY <1>3, <1>4, MovesOnKeeps
<1>6. /\ (leases' = leases \/ leases' = [leases EXCEPT ![p][e.task] = NoToken])
      /\ (aborts' = aborts \/ aborts' = [aborts EXCEPT ![p][e.task] = NoToken])
  BY DEF HandlerEnds, AckServe, AckDeliver, AckLost, Finish
<1>7. leases' \in [WorkerIds -> [Tasks -> Nat]] /\ aborts' \in [WorkerIds -> [Tasks -> Nat]]
  <2>1. \A map \in [WorkerIds -> [Tasks -> Nat]] :
           [map EXCEPT ![p][e.task] = NoToken] \in [WorkerIds -> [Tasks -> Nat]]
    BY <1>1 DEF NoToken
  <2>2. leases \in [WorkerIds -> [Tasks -> Nat]] /\ aborts \in [WorkerIds -> [Tasks -> Nat]]
    BY <1>0 DEF FleetTypeOK
  <2>3. QED  BY <1>6, <2>1, <2>2
<1>8. budget' \in [lost : 0..MaxLost, kills : 0..MaxKills, moves : 0..MaxMoves]
  <2>1. UNCHANGED budget \/ Lose
    BY DEF HandlerEnds, AckServe, AckDeliver, AckLost
  <2>2. QED  BY <1>0, <2>1, SpendType DEF FleetTypeOK
<1>9. ackedRun' \in [Tasks -> Nat]
  <2>1. ackedRun' = ackedRun \/ ackedRun' = [ackedRun EXCEPT ![e.task] = e.run]
    BY DEF HandlerEnds, AckServe, AckDeliver, AckLost, auxVars
  <2>2. QED  BY <1>0, <1>1, <2>1 DEF FleetTypeOK
<1>10. QED  BY <1>0, <1>4, <1>5, <1>7, <1>8, <1>9 DEF FleetTypeOK

\* A process that dies, by itself or killed.
LEMMA VanishKeeps ==
    ASSUME FleetInv, NEW p \in WorkerIds, Vanish(p),
           budget' \in [lost : 0..MaxLost, kills : 0..MaxKills, moves : 0..MaxMoves]
    PROVE  FleetTypeOK' /\ \A q \in WorkerIds : Slots(q)'
<1>0. FleetTypeOK
  BY DEF FleetInv, TypeOK, FleetTypeOK
<1>1. PICK S : S = {e \in runs[p] : e.stage \in {"completing", "failing"}}
  OBVIOUS
<1>2. PICK c : c = IF claim[p].st = "sent" THEN claim[p] ELSE IdleClaim
  OBVIOUS
<1>3. runs' = [runs EXCEPT ![p] = S] /\ claim' = [claim EXCEPT ![p] = c]
  BY <1>1, <1>2 DEF Vanish
<1>4. IsFiniteSet(S) /\ Cardinality(S) <= Cardinality(runs[p]) /\ S \in SUBSET Execution
  BY <1>1, FS_Subset, SlotNumbers DEF FleetInv, Slots
<1>5. /\ c \in ClaimCall /\ IsFiniteSet(c.got) /\ Cardinality(c.got) <= c.batch
      /\ c.batch \in Nat /\ c.batch <= claim[p].batch
  <2>1. CASE claim[p].st = "sent"
    <3>1. c = claim[p] /\ c \in ClaimCall
      BY <1>0, <1>2, <2>1 DEF FleetTypeOK
    <3>2. claim[p].batch \in Nat /\ claim[p].batch <= claim[p].batch
      BY SlotNumbers
    <3>3. QED  BY <3>1, <3>2 DEF FleetInv, Slots
  <2>2. CASE claim[p].st # "sent"
    <3>1. c \in ClaimCall /\ c.got = {} /\ c.batch = 0
      BY <1>2, <2>2, IdleCalls
    <3>2. claim[p].batch \in 0..Capacity
      BY SlotNumbers
    <3>3. QED  BY <3>1, <3>2, FS_EmptySet, FleetAssumption
  <2>3. QED  BY <2>1, <2>2
<1>6. Cardinality(S) + c.batch <= Capacity
  BY <1>4, <1>5, SlotNumbers, FS_CardinalityType, FleetAssumption DEF FleetInv, Slots
<1>7. \A q \in WorkerIds : Slots(q)'
  BY <1>3, <1>4, <1>5, <1>6, SlotsFrame
<1>8. /\ life' \in [WorkerIds -> {"off", "running", "stopping", "gone"}]
      /\ leases' \in [WorkerIds -> [Tasks -> Nat]] /\ aborts' \in [WorkerIds -> [Tasks -> Nat]]
      /\ paused' \in [WorkerIds -> BOOLEAN] /\ beat' \in [WorkerIds -> BeatCall]
  BY <1>0, IdleCalls DEF Vanish, FleetTypeOK, NoToken
<1>9. runs' \in [WorkerIds -> SUBSET Execution] /\ claim' \in [WorkerIds -> ClaimCall]
  BY <1>0, <1>3, <1>4, <1>5 DEF FleetTypeOK
<1>10. UNCHANGED <<shutdown, cut, reaping, moved, ackedRun>>
  BY DEF Vanish, auxVars
<1>11. QED  BY <1>0, <1>7, <1>8, <1>9, <1>10 DEF FleetTypeOK

\* The steps that touch neither an execution nor a claim.
LEMMA QuietKeeps ==
    ASSUME FleetInv, StoreInv', UNCHANGED <<runs, claim, leases, aborts, paused, beat, ackedRun>>,
           life' \in [WorkerIds -> {"off", "running", "stopping", "gone"}],
           shutdown' \in [WorkerIds -> {"none", "sent", "released", "done"}],
           cut' \subseteq WorkerIds, reaping' \in BOOLEAN, moved' \in [Tasks -> Nat],
           budget' \in [lost : 0..MaxLost, kills : 0..MaxKills, moves : 0..MaxMoves]
    PROVE  FleetTypeOK' /\ \A q \in WorkerIds : Slots(q)'
BY DEF FleetInv, TypeOK, FleetTypeOK, Slots

LEMMA FleetStep ==
    ASSUME FleetInv, Next
    PROVE  FleetInv'
<1>0. FleetTypeOK
  BY DEF FleetInv, TypeOK, FleetTypeOK
<1>1. StoreInv'
  BY ActionsAreStatements, StoreStepKeeps, RefreshedKeeps DEF FleetInv
<1> SUFFICES FleetTypeOK' /\ \A q \in WorkerIds : Slots(q)'
  BY <1>1 DEF FleetInv, TypeOK, FleetTypeOK, StoreInv
<1>2. ASSUME NEW p \in WorkerIds, BeatLoop(p) \/ BeatLost(p)
      PROVE  FleetTypeOK' /\ \A q \in WorkerIds : Slots(q)'
  BY <1>2, BeatKeeps
<1>3. ASSUME NEW p \in WorkerIds, ClaimLoop(p) \/ ClaimLost(p)
      PROVE  FleetTypeOK' /\ \A q \in WorkerIds : Slots(q)'
  BY <1>1, <1>3, ClaimLoopKeeps
<1>4. ASSUME NEW p \in WorkerIds, NEW e \in runs[p],
             HandlerEnds(p, e) \/ AckServe(p, e) \/ AckDeliver(p, e) \/ AckLost(p, e)
      PROVE  FleetTypeOK' /\ \A q \in WorkerIds : Slots(q)'
  BY <1>4, ExecutionKeeps
<1>5. ASSUME NEW p \in WorkerIds, Exit(p) \/ Kill(p)
      PROVE  FleetTypeOK' /\ \A q \in WorkerIds : Slots(q)'
  <2>1. Vanish(p) /\ (UNCHANGED budget \/ (budget.kills > 0 /\ budget' = [budget EXCEPT !.kills = @ - 1]))
    BY <1>5 DEF Exit, Kill
  <2>2. budget' \in [lost : 0..MaxLost, kills : 0..MaxKills, moves : 0..MaxMoves]
    BY <1>0, <2>1, SpendType DEF FleetTypeOK
  <2>3. QED  BY <2>1, <2>2, VanishKeeps
<1>6. ASSUME NEW p \in WorkerIds,
             \/ ShutdownRelease(p) \/ ShutdownOffline(p) \/ ShutdownLost(p)
             \/ Start(p) \/ Stop(p) \/ PauseHeartbeats(p) \/ ResumeHeartbeats(p) \/ Silence(p)
      PROVE  FleetTypeOK' /\ \A q \in WorkerIds : Slots(q)'
  <2>1. UNCHANGED <<runs, claim, leases, aborts, paused, beat, moved, ackedRun, reaping>>
    BY <1>6 DEF ShutdownRelease, ShutdownOffline, ShutdownLost, Start, Stop, PauseHeartbeats,
                ResumeHeartbeats, Silence, clientVars, auxVars
  <2>2. /\ life' \in [WorkerIds -> {"off", "running", "stopping", "gone"}]
        /\ shutdown' \in [WorkerIds -> {"none", "sent", "released", "done"}]
    BY <1>0, <1>6 DEF ShutdownRelease, ShutdownOffline, ShutdownLost, Start, Stop, PauseHeartbeats,
                ResumeHeartbeats, Silence, clientVars, FleetTypeOK
  <2>3. cut' \subseteq WorkerIds
    BY <1>0, <1>6 DEF ShutdownRelease, ShutdownOffline, ShutdownLost, Start, Stop, PauseHeartbeats,
                ResumeHeartbeats, Silence, FleetTypeOK
  <2>4. budget' \in [lost : 0..MaxLost, kills : 0..MaxKills, moves : 0..MaxMoves]
    BY <1>0, <1>6, SpendType DEF ShutdownRelease, ShutdownOffline, ShutdownLost, Start, Stop,
                PauseHeartbeats, ResumeHeartbeats, Silence, FleetTypeOK
  <2>5. QED  BY <1>0, <1>1, <2>1, <2>2, <2>3, <2>4, QuietKeeps DEF FleetTypeOK
<1>7. ASSUME NEW p \in WorkerIds, NEW t \in Tasks, Reassign(t, p)
      PROVE  FleetTypeOK' /\ \A q \in WorkerIds : Slots(q)'
  <2>1. grants[t] + 1 \in Nat
    BY DEF FleetInv, StoreInv, StoreTypeOK
  <2>2. moved' \in [Tasks -> Nat]
    BY <1>0, <1>7, <2>1 DEF Reassign, FleetTypeOK
  <2>3. budget' \in [lost : 0..MaxLost, kills : 0..MaxKills, moves : 0..MaxMoves]
    BY <1>0, <1>7, SpendType DEF Reassign
  <2>4. UNCHANGED <<clientVars, cut, reaping, ackedRun>>
    BY <1>7 DEF Reassign
  <2>5. QED  BY <1>0, <1>1, <2>2, <2>3, <2>4, QuietKeeps DEF FleetTypeOK, clientVars
<1>8. CASE \/ \E t \in Tasks : NewTask(t) \/ Lapse(t) \/ BackoffPasses(t)
           \/ ReaperMark \/ ReaperRecover
  <2>1. UNCHANGED <<clientVars, cut, budget, auxVars>> /\ reaping' \in BOOLEAN
    BY <1>0, <1>8 DEF NewTask, Lapse, BackoffPasses, ReaperMark, ReaperRecover, FleetTypeOK
  <2>2. QED  BY <1>0, <1>1, <2>1, QuietKeeps DEF FleetTypeOK, clientVars, auxVars
<1>9. QED
  BY <1>2, <1>3, <1>4, <1>5, <1>6, <1>7, <1>8
     DEF Next, Executing, Stopping, Mishap, Operator

LEMMA FleetStutter ==
    ASSUME FleetInv, UNCHANGED vars
    PROVE  FleetInv'
BY DEF vars, storeVars, clientVars, auxVars, FleetInv, TypeOK, StoreInv, StoreTypeOK,
       TaskOK, Slots

LEMMA FleetInductive == Spec => []FleetInv
<1>1. FleetInv /\ [Next]_vars => FleetInv'
  BY FleetStep, FleetStutter
<1>2. QED  BY InitFleet, <1>1, PTL DEF Spec

-----------------------------------------------------------------------------
(* A process of capacity 1, which is what the chaos console starts *)

\* An execution that goes on is the one its task's controller stops and whose
\* lease the process holds; one that has ended presents the token it ran under.
Owns(p, e) ==
    /\ e.stage = "working" => aborts[p][e.task] = e.run
    /\ e.stage = "working" /\ ~e.aborted => leases[p][e.task] = e.run
    /\ e.stage # "working" => e.token = e.run

Owned == \A p \in WorkerIds : \A e \in runs[p] : Owns(p, e)

\* While it executes, nothing is coming.
LEMMA OneAtATime ==
    ASSUME Capacity = 1, FleetInv, NEW p \in WorkerIds, NEW e \in runs[p]
    PROVE  runs[p] = {e} /\ claim[p].got = {}
<1>1. /\ IsFiniteSet(runs[p]) /\ IsFiniteSet(claim[p].got) /\ Cardinality(runs[p]) # 0
      /\ Cardinality(claim[p].got) <= claim[p].batch
      /\ Cardinality(runs[p]) + claim[p].batch <= Capacity
  BY FS_EmptySet DEF FleetInv, Slots
<1>2. Cardinality(runs[p]) = 1 /\ Cardinality(claim[p].got) = 0
  BY <1>1, SlotNumbers
<1>3. claim[p].got = {}
  BY <1>1, <1>2, FS_EmptySet
<1>4. \E x : runs[p] = {x}
  BY <1>1, <1>2, FS_Singleton
<1>5. QED  BY <1>3, <1>4

\* While something is coming, it does not execute.
LEMMA OneLease ==
    ASSUME Capacity = 1, FleetInv, NEW p \in WorkerIds, NEW l \in claim[p].got
    PROVE  claim[p].got = {l} /\ runs[p] = {}
<1>1. /\ IsFiniteSet(runs[p]) /\ IsFiniteSet(claim[p].got) /\ Cardinality(claim[p].got) # 0
      /\ Cardinality(claim[p].got) <= claim[p].batch
      /\ Cardinality(runs[p]) + claim[p].batch <= Capacity
  BY FS_EmptySet DEF FleetInv, Slots
<1>2. Cardinality(runs[p]) = 0 /\ Cardinality(claim[p].got) = 1
  BY <1>1, SlotNumbers
<1>3. runs[p] = {}
  BY <1>1, <1>2, FS_EmptySet
<1>4. \E x : claim[p].got = {x}
  BY <1>1, <1>2, FS_Singleton
<1>5. QED  BY <1>3, <1>4

\* A step of one process leaves the executions of the others theirs.
LEMMA OwnedFrame ==
    ASSUME FleetInv, Owned, NEW p \in WorkerIds,
           \A q \in WorkerIds \ {p} : runs'[q] = runs[q] /\ leases'[q] = leases[q] /\ aborts'[q] = aborts[q],
           \A e \in runs'[p] : Owns(p, e)'
    PROVE  Owned'
<1>1. ASSUME NEW q \in WorkerIds, NEW e \in runs'[q] PROVE Owns(q, e)'
  <2>1. CASE q = p
    BY <1>1, <2>1
  <2>2. CASE q # p
    BY <1>1, <2>2 DEF Owned, Owns
  <2>3. QED  BY <2>1, <2>2
<1>2. QED  BY <1>1 DEF Owned

LEMMA OwnedDeliver ==
    ASSUME FleetInv, Owned, NEW p \in WorkerIds, BeatDeliver(p)
    PROVE  Owned'
<1>0. /\ runs \in [WorkerIds -> SUBSET Execution] /\ leases \in [WorkerIds -> [Tasks -> Nat]]
  BY DEF FleetInv, TypeOK
<1>1. /\ runs'[p] = Abort(p) /\ aborts' = aborts
      /\ leases'[p] = [t \in Tasks |-> IF t \in beat[p].revoked THEN NoToken ELSE leases[p][t]]
      /\ \A q \in WorkerIds \ {p} : runs'[q] = runs[q] /\ leases'[q] = leases[q]
  BY <1>0 DEF BeatDeliver
<1>2. ASSUME NEW f \in Abort(p) PROVE Owns(p, f)'
  <2>1. PICK e \in runs[p] : f = IF e.task \in beat[p].revoked /\ aborts[p][e.task] = e.run
                                  THEN [e EXCEPT !.aborted = TRUE] ELSE e
    BY DEF Abort
  <2>2. e \in Execution /\ e.task \in Tasks /\ Owns(p, e)
    BY <1>0 DEF Execution, Owned
  <2>3. CASE e.task \in beat[p].revoked /\ aborts[p][e.task] = e.run
    <3>1. /\ f.task = e.task /\ f.run = e.run /\ f.token = e.token /\ f.stage = e.stage
          /\ f.aborted = TRUE
      BY <2>1, <2>2, <2>3 DEF Execution
    <3>2. QED  BY <1>1, <2>2, <3>1 DEF Owns
  <2>4. CASE ~(e.task \in beat[p].revoked /\ aborts[p][e.task] = e.run)
    <3>1. f = e
      BY <2>1, <2>4
    <3>2. leases'[p][e.task] = leases[p][e.task] \/ e.stage # "working"
      BY <1>1, <2>2, <2>4 DEF Owns
    <3>3. QED  BY <1>1, <2>2, <3>1, <3>2 DEF Owns
  <2>5. QED  BY <2>3, <2>4
<1>3. QED  BY <1>1, <1>2, OwnedFrame

LEMMA OwnedClaimed ==
    ASSUME Capacity = 1, FleetInv, Owned, NEW p \in WorkerIds, ClaimDeliver(p)
    PROVE  Owned'
<1>0. /\ runs \in [WorkerIds -> SUBSET Execution] /\ leases \in [WorkerIds -> [Tasks -> Nat]]
      /\ aborts \in [WorkerIds -> [Tasks -> Nat]] /\ claim[p].got \in SUBSET Leases
  BY SlotNumbers DEF FleetInv, TypeOK
<1>1. /\ leases'[p] = Recorded(leases[p], claim[p].got)
      /\ aborts'[p] = Recorded(aborts[p], claim[p].got)
      /\ runs'[p] = runs[p] \cup
            {[task |-> l.task, run |-> l.token, token |-> NoToken,
              aborted |-> FALSE, stage |-> "working"] : l \in claim[p].got}
      /\ \A q \in WorkerIds \ {p} :
            runs'[q] = runs[q] /\ leases'[q] = leases[q] /\ aborts'[q] = aborts[q]
  BY <1>0 DEF ClaimDeliver
<1>2. ASSUME NEW e \in runs'[p] PROVE Owns(p, e)'
  <2>1. CASE e \in runs[p]
    <3>1. claim[p].got = {}
      BY <2>1, OneAtATime
    <3>2. e.task \in Tasks /\ Owns(p, e)
      BY <1>0, <2>1 DEF Execution, Owned
    <3>3. leases'[p][e.task] = leases[p][e.task] /\ aborts'[p][e.task] = aborts[p][e.task]
      BY <1>1, <3>1, <3>2 DEF Recorded
    <3>4. QED  BY <3>2, <3>3 DEF Owns
  <2>2. CASE e \notin runs[p]
    <3>1. PICK l \in claim[p].got :
             e = [task |-> l.task, run |-> l.token, token |-> NoToken,
                  aborted |-> FALSE, stage |-> "working"]
      BY <1>1, <1>2, <2>2
    <3>2. claim[p].got = {l} /\ l.task \in Tasks
      BY <1>0, OneLease DEF Leases
    <3>3. (CHOOSE m \in claim[p].got : m.task = l.task) = l
      BY <3>2
    <3>4. leases'[p][l.task] = l.token /\ aborts'[p][l.task] = l.token
      BY <1>1, <3>2, <3>3 DEF Recorded
    <3>5. QED  BY <3>1, <3>4 DEF Owns
  <2>3. QED  BY <2>1, <2>2
<1>3. QED  BY <1>1, <1>2, OwnedFrame

LEMMA OwnedExecution ==
    ASSUME Capacity = 1, FleetInv, Owned, NEW p \in WorkerIds, NEW e \in runs[p],
           HandlerEnds(p, e) \/ AckServe(p, e) \/ AckDeliver(p, e) \/ AckLost(p, e)
    PROVE  Owned'
<1>0. /\ runs \in [WorkerIds -> SUBSET Execution] /\ leases \in [WorkerIds -> [Tasks -> Nat]]
      /\ aborts \in [WorkerIds -> [Tasks -> Nat]]
  BY DEF FleetInv, TypeOK
<1>1. runs[p] = {e} /\ e \in Execution /\ Owns(p, e)
  BY <1>0, OneAtATime DEF Owned
<1>2. \A q \in WorkerIds \ {p} :
         runs'[q] = runs[q] /\ leases'[q] = leases[q] /\ aborts'[q] = aborts[q]
  <2>1. CASE HandlerEnds(p, e)
    BY <1>0, <2>1 DEF HandlerEnds, Finish, Become
  <2>2. CASE AckServe(p, e)
    BY <1>0, <2>2 DEF AckServe, Become
  <2>3. CASE AckDeliver(p, e) \/ AckLost(p, e)
    BY <1>0, <2>3 DEF AckDeliver, AckLost, Finish, Become
  <2>4. QED  BY <2>1, <2>2, <2>3
<1>3. \A f \in runs'[p] : f.stage # "working" /\ f.token = f.run
  <2>1. CASE runs' = [runs EXCEPT ![p] = @ \ {e}]
    BY <1>0, <1>1, <2>1
  <2>2. ASSUME NEW stage \in {"completing", "failing", "answered"}, e.stage # "working",
               Become(p, e, [e EXCEPT !.stage = stage])
        PROVE  \A f \in runs'[p] : f.stage # "working" /\ f.token = f.run
    <3>1. runs'[p] = {[e EXCEPT !.stage = stage]}
      BY <1>0, <1>1, <2>2 DEF Become
    <3>2. QED  BY <1>1, <2>2, <3>1 DEF Execution, Owns
  <2>3. ASSUME NEW stage \in {"completing", "failing"}, e.stage = "working", ~e.aborted,
               Become(p, e, [e EXCEPT !.stage = stage, !.token = leases[p][e.task]])
        PROVE  \A f \in runs'[p] : f.stage # "working" /\ f.token = f.run
    <3>1. runs'[p] = {[e EXCEPT !.stage = stage, !.token = leases[p][e.task]]}
      BY <1>0, <1>1, <2>3 DEF Become
    <3>2. leases[p][e.task] = e.run
      BY <1>1, <2>3 DEF Owns
    <3>3. QED  BY <1>1, <3>1, <3>2 DEF Execution
  <2>4. CASE HandlerEnds(p, e)
    BY <2>1, <2>3, <2>4 DEF HandlerEnds, Finish
  <2>5. CASE AckServe(p, e)
    BY <2>1, <2>2, <2>5 DEF AckServe
  <2>6. CASE AckDeliver(p, e) \/ AckLost(p, e)
    BY <2>1, <2>2, <2>6 DEF AckDeliver, AckLost, Finish
  <2>7. QED  BY <2>4, <2>5, <2>6
<1>4. \A f \in runs'[p] : Owns(p, f)'
  BY <1>3 DEF Owns
<1>5. QED  BY <1>2, <1>4, OwnedFrame

LEMMA OwnedVanish ==
    ASSUME FleetInv, Owned, NEW p \in WorkerIds, Vanish(p)
    PROVE  Owned'
<1>0. /\ runs \in [WorkerIds -> SUBSET Execution] /\ leases \in [WorkerIds -> [Tasks -> Nat]]
      /\ aborts \in [WorkerIds -> [Tasks -> Nat]]
  BY DEF FleetInv, TypeOK
<1>1. /\ runs'[p] = {e \in runs[p] : e.stage \in {"completing", "failing"}}
      /\ \A q \in WorkerIds \ {p} :
            runs'[q] = runs[q] /\ leases'[q] = leases[q] /\ aborts'[q] = aborts[q]
  BY <1>0 DEF Vanish
<1>2. \A e \in runs'[p] : Owns(p, e)'
  BY <1>1 DEF Owned, Owns
<1>3. QED  BY <1>1, <1>2, OwnedFrame

LEMMA OwnedStep ==
    ASSUME Capacity = 1, FleetInv, Owned, Next
    PROVE  Owned'
<1>1. ASSUME UNCHANGED <<runs, leases, aborts>> PROVE Owned'
  BY <1>1 DEF Owned, Owns
<1>2. ASSUME NEW p \in WorkerIds, BeatLoop(p) PROVE Owned'
  BY <1>1, <1>2, OwnedDeliver DEF BeatLoop, BeatSend, BeatServe, BeatRegister
<1>3. ASSUME NEW p \in WorkerIds, ClaimLoop(p) PROVE Owned'
  BY <1>1, <1>3, OwnedClaimed DEF ClaimLoop, ClaimSend, ClaimServe
<1>4. ASSUME NEW p \in WorkerIds, NEW e \in runs[p],
             HandlerEnds(p, e) \/ AckServe(p, e) \/ AckDeliver(p, e) \/ AckLost(p, e)
      PROVE  Owned'
  BY <1>4, OwnedExecution
<1>5. ASSUME NEW p \in WorkerIds, Stopping(p) \/ Kill(p) PROVE Owned'
  BY <1>1, <1>5, OwnedVanish DEF Stopping, ShutdownRelease, ShutdownOffline, Exit, Kill
<1>6. ASSUME NEW p \in WorkerIds, \/ BeatLost(p) \/ ClaimLost(p) \/ ShutdownLost(p)
                                   \/ Operator(p) \/ Silence(p)
      PROVE  Owned'
  BY <1>1, <1>6 DEF BeatLost, ClaimLost, ShutdownLost, Operator, Silence, Start, Stop,
                    PauseHeartbeats, ResumeHeartbeats, Reassign, clientVars
<1>7. CASE \/ \E t \in Tasks : NewTask(t) \/ Lapse(t) \/ BackoffPasses(t)
           \/ ReaperMark \/ ReaperRecover
  BY <1>1, <1>7 DEF NewTask, Lapse, BackoffPasses, ReaperMark, ReaperRecover, clientVars
<1>8. QED
  BY <1>2, <1>3, <1>4, <1>5, <1>6, <1>7 DEF Next, Executing, Mishap

\* Only an acknowledgement changes who acknowledged a task last.
LEMMA AckedStep ==
    ASSUME FleetInv, Owned, AckOfItsExecution, Next
    PROVE  AckOfItsExecution'
<1>1. ASSUME UNCHANGED <<acker, ackedRun>> PROVE AckOfItsExecution'
  BY <1>1 DEF AckOfItsExecution
<1>2. ASSUME NEW p \in WorkerIds, NEW e \in runs[p], AckServe(p, e)
      PROVE  AckOfItsExecution'
  <2>1. CASE Holds(e.task, p, e.token)
    <3>1. e.task \in Tasks /\ e.token = e.run
      BY <1>2 DEF AckServe, FleetInv, TypeOK, Execution, Owned, Owns
    <3>2. /\ acker' = [acker EXCEPT ![e.task] = [worker |-> p, token |-> e.token]]
          /\ ackedRun' = [ackedRun EXCEPT ![e.task] = e.run]
      BY <1>2, <2>1 DEF AckServe, Complete, FailUpdate
    <3>3. acker \in [Tasks -> Ack] /\ ackedRun \in [Tasks -> Nat]
      BY DEF FleetInv, TypeOK, StoreTypeOK
    <3>4. QED  BY <3>1, <3>2, <3>3 DEF AckOfItsExecution
  <2>2. CASE ~Holds(e.task, p, e.token)
    BY <1>1, <1>2, <2>2 DEF AckServe, storeVars
  <2>3. QED  BY <2>1, <2>2
<1>3. ASSUME NEW p \in WorkerIds, NEW e \in runs[p],
             HandlerEnds(p, e) \/ AckDeliver(p, e) \/ AckLost(p, e)
      PROVE  AckOfItsExecution'
  BY <1>1, <1>3 DEF HandlerEnds, AckDeliver, AckLost, storeVars, auxVars
<1>4. ASSUME NEW p \in WorkerIds, BeatLoop(p) \/ ClaimLoop(p)
      PROVE  AckOfItsExecution'
  BY <1>1, <1>4 DEF BeatLoop, BeatSend, BeatServe, BeatDeliver, BeatRegister, Register,
                    ClaimLoop, ClaimSend, ClaimServe, ClaimDeliver, Claim, storeVars, auxVars
<1>5. ASSUME NEW p \in WorkerIds, Stopping(p) \/ Kill(p) PROVE AckOfItsExecution'
  BY <1>1, <1>5 DEF Stopping, ShutdownRelease, ReleaseRunningTasks, ShutdownOffline, SetOffline,
                    Exit, Kill, Vanish, storeVars, auxVars
<1>6. ASSUME NEW p \in WorkerIds, \/ BeatLost(p) \/ ClaimLost(p) \/ ShutdownLost(p)
                                   \/ Operator(p) \/ Silence(p)
      PROVE  AckOfItsExecution'
  BY <1>1, <1>6 DEF BeatLost, ClaimLost, ShutdownLost, Operator, Silence, Start, Stop, Register,
                    PauseHeartbeats, ResumeHeartbeats, Reassign, ReassignUpdate,
                    HeartbeatGoesStale, storeVars, auxVars
<1>7. CASE \/ \E t \in Tasks : NewTask(t) \/ Lapse(t) \/ BackoffPasses(t)
           \/ ReaperMark \/ ReaperRecover
  BY <1>1, <1>7 DEF NewTask, Lapse, BackoffPasses, ReaperMark, ReaperRecover, Create, LeaseLapses,
                    RunAtPasses, MarkTimedOut, RecoverExpired, auxVars
<1>8. QED
  BY <1>2, <1>3, <1>4, <1>5, <1>6, <1>7 DEF Next, Executing, Mishap

LEMMA OwnedInductive == ASSUME Capacity = 1 PROVE Spec => [](Owned /\ AckOfItsExecution)
<1> DEFINE Inv == FleetInv /\ Owned /\ AckOfItsExecution
<1>1. Init => Inv
  BY InitFleet DEF Init, StoreInit, Owned, AckOfItsExecution
<1>2. Inv /\ [Next]_vars => Inv'
  <2> SUFFICES ASSUME Inv, [Next]_vars PROVE Inv'
    OBVIOUS
  <2>1. CASE Next
    BY <2>1, FleetStep, OwnedStep, AckedStep
  <2>2. CASE UNCHANGED vars
    BY <2>2, FleetStutter DEF vars, storeVars, clientVars, auxVars, Owned, Owns, AckOfItsExecution
  <2>3. QED  BY <2>1, <2>2
<1>3. QED  BY <1>1, <1>2, PTL DEF Spec

-----------------------------------------------------------------------------
(* Theorems *)

\* Every variable keeps its type: what processes, calls and answers hold
\* (worker.ts, api.ts) as well as the tables.
THEOREM TypeCorrect == Spec => []TypeOK
<1>1. FleetInv => TypeOK
  BY DEF FleetInv
<1>2. QED  BY FleetInductive, <1>1, PTL

\* WORKER_CAPACITY is never exceeded, although the room for a claim is computed
\* long before its answer comes (worker.ts:80-88), and answers are lost and
\* asked for again.
THEOREM CapacityKept == Spec => []ExecutionsBounded
<1>1. ASSUME FleetInv, NEW p \in WorkerIds PROVE Cardinality(runs[p]) <= Capacity
  BY <1>1, SlotNumbers, FleetAssumption DEF FleetInv, Slots
<1>2. FleetInv => ExecutionsBounded
  BY <1>1 DEF ExecutionsBounded
<1>3. QED  BY FleetInductive, <1>2, PTL

\* README.md:59-61: whatever the processes and the network do, the rows of the
\* coordinator implement the abstract queue of TaskLifecycle.
THEOREM ContractKept == Spec => KeepsContract
<1>1. Init => Contract!Init
  BY EmptyStoreUnborn DEF Init
<1>2. FleetInv /\ FleetInv' /\ [Next]_vars => [Contract!Next]_([t \in Tasks |-> LifeOf(t)])
  <2> SUFFICES ASSUME FleetInv, FleetInv', [Next]_vars
               PROVE  [Contract!Next]_([t \in Tasks |-> LifeOf(t)])
    OBVIOUS
  <2>1. CASE StoreStep
    <3>1. \A u \in Tasks : Contract!Legal(LifeOf(u), LifeOf(u)')
      BY <2>1, StoreStepLegal DEF FleetInv
    <3>2. Contract!Next
      BY <3>1 DEF Contract!Next
    <3>3. QED  BY <3>2
  <2>2. CASE \E p \in WorkerIds : Refreshed(p)
    BY <2>2, RefreshedKeeps DEF FleetInv
  <2>3. CASE UNCHANGED vars
    BY <2>3 DEF vars, storeVars, LifeOf
  <2>4. QED  BY <2>1, <2>2, <2>3, ActionsAreStatements DEF FleetInv
<1>3. QED
  BY <1>1, <1>2, FleetInductive, PTL DEF Spec, KeepsContract, Contract!Spec

\* With capacity 1 an execution that was not told to stop holds its own lease in
\* the map that heartbeats and acknowledgements read (api.ts:40-50).
THEOREM OwnLease == ASSUME Capacity = 1 PROVE Spec => []LeaseOfExecution
<1>1. Owned => LeaseOfExecution
  BY DEF Owned, Owns, LeaseOfExecution
<1>2. QED  BY OwnedInductive, <1>1, PTL

\* README.md:61, "no zombie writes": with capacity 1 the execution whose result
\* is accepted is the one the lease was granted for, for every number of
\* processes, losses and reassignments.
THEOREM NoZombieWrite == ASSUME Capacity = 1 PROVE Spec => []AckOfItsExecution
BY OwnedInductive, PTL

=============================================================================
