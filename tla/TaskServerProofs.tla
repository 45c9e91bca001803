-------------------------- MODULE TaskServerProofs ---------------------------
(***************************************************************************)
(* Proofs about TaskServer, for every set of tasks and workers, every      *)
(* attempt budget and every bound.                                         *)
(*                                                                         *)
(* LeaseConsistent, FailDecisionFresh and RetryBudget are proved together, *)
(* from one inductive invariant: RetryBudget holds because the decision of *)
(* fail() is fresh, the decision is fresh because the attempt of a row     *)
(* never changes without its token, and no token is issued twice because   *)
(* the token of a running row is the newest one.  What the statements do   *)
(* to the rows is proved in TaskStoreProofs.                               *)
(***************************************************************************)
EXTENDS TaskServer, TaskStoreProofs

\* FailDecisionFresh, strengthened: what fail() read is not from the future.
Fresh(f) ==
    /\ f.token <= grants[f.task]
    /\ Holds(f.task, f.worker, f.token) => tasks[f.task].attempt = f.attempt

IInv ==
    /\ TypeOK
    /\ \A t \in Tasks : TaskOK(t)
    /\ \A f \in failing : Fresh(f)

LEMMA FreshnessKept ==
    ASSUME StoreInv, StoreInv', NEW f \in FailRequest, Fresh(f), Steady(f.task)
    PROVE  Fresh(f)'
<1>1. /\ f.task \in Tasks /\ f.token \in Nat
      /\ grants[f.task] \in Nat /\ grants'[f.task] \in Nat
  BY DEF FailRequest, StoreInv, StoreTypeOK
<1>2. QED  BY <1>1 DEF Fresh, Steady, Holds

-----------------------------------------------------------------------------
(* The inductive invariant. *)

LEMMA InitInv == Init => IInv
  BY EmptyStoreOK DEF Init, IInv, TypeOK, StoreInv

\* Which statement each action issues; only a heartbeat extends a lease.  The UPDATE of fail() only matches a row
\* whose attempt is the one its SELECT has read.
LEMMA ActionsAreStatements ==
    ASSUME IInv, Next
    PROVE  OtherStep \/ \E b \in beating : BeatExtend(b)
<1>0. \A t \in Tasks : Tokens(t) \subseteq Nat
  BY DEF Tokens
<1>1. CASE \E t \in Tasks : TaskRequest(t)
  BY <1>0, <1>1 DEF TaskRequest, CreateTask, RetryTask, CompleteTask, FailRead, MoveRead,
                    OtherStep
<1>2. CASE \E w \in WorkerIds : WorkerRequest(w)
  <2>1. LockedByRelease \subseteq Tasks
    BY DEF LockedByRelease, InStatus
  <2>2. QED
    BY <1>2, <2>1 DEF WorkerRequest, RegisterWorker, ClaimTasks, BeatStart, StopRead, OtherStep
<1>3. CASE Continue
  <2>1. CASE \E f \in failing : FailWrite(f)
    <3>1. PICK f \in failing : FailWrite(f)
      BY <2>1
    <3>2. /\ f.task \in Tasks /\ f.worker \in WorkerIds /\ f.token \in Nat
          /\ Holds(f.task, f.worker, f.token) => tasks[f.task].attempt = f.attempt
      BY DEF IInv, TypeOK, FailRequest, Fresh
    <3>3. QED  BY <3>1, <3>2 DEF FailWrite, OtherStep
  <2>2. CASE \E m \in moving : MoveWrite(m)
    BY <2>2 DEF MoveWrite, OtherStep, IInv, TypeOK, MoveRequest
  <2>3. CASE \E s \in stopping : StopRelease(s) \/ StopOffline(s)
    BY <2>3 DEF StopRelease, StopOffline, OtherStep, IInv, TypeOK, StopRequest
  <2>4. QED  BY <1>3, <2>1, <2>2, <2>3 DEF Continue
<1>4. CASE SchedulerTick \/ ReaperMark \/ ReaperRecover
  BY <1>4 DEF SchedulerTick, ReaperMark, ReaperRecover, OtherStep
<1>5. CASE ClearOfflineWorkers \/ ResetAll \/ Restart \/ TimePasses
  BY <1>5 DEF ClearOfflineWorkers, ResetAll, Restart, TimePasses, OtherStep
<1>6. QED  BY <1>1, <1>2, <1>3, <1>4, <1>5 DEF Next

LEMMA NextIsStatement ==
    ASSUME IInv, Next
    PROVE  StoreStep
<1>1. ASSUME NEW b \in beating, BeatExtend(b) PROVE StoreStep
  <2>1. b.task \in Tasks /\ b.worker \in WorkerIds /\ b.token \in Nat
    BY DEF IInv, TypeOK, BeatRequest
  <2>2. QED  BY <1>1, <2>1 DEF BeatExtend, StoreStep
<1>2. QED  BY <1>1, ActionsAreStatements DEF StoreStep

\* The requests in flight, after any step: old ones, or ones just read.
LEMMA HandlersKeep ==
    ASSUME IInv, Next
    PROVE  /\ failing' \subseteq FailRequest /\ moving' \subseteq MoveRequest
           /\ stopping' \subseteq StopRequest /\ beating' \subseteq BeatRequest
           /\ reaping' \in BOOLEAN
           /\ \A f \in failing' \ failing :
                 /\ UNCHANGED storeVars
                 /\ f.token <= grants[f.task]
                 /\ tasks[f.task].attempt = f.attempt
<1> USE DEF IInv, TypeOK
<1>1. CASE \E t \in Tasks : TaskRequest(t)
  <2>1. PICK t \in Tasks : TaskRequest(t)
    BY <1>1
  <2>2. CASE UNCHANGED handlerVars
    BY <2>2 DEF handlerVars
  <2>3. ASSUME NEW w \in WorkerIds, NEW k \in Tokens(t), FailRead(t, w, k)
        PROVE  /\ failing' \subseteq FailRequest
               /\ UNCHANGED <<storeVars, moving, stopping, beating, reaping>>
               /\ \A f \in failing' \ failing :
                     f.token <= grants[f.task] /\ tasks[f.task].attempt = f.attempt
    <3> DEFINE r == [task |-> t, worker |-> w, token |-> k, attempt |-> tasks[t].attempt]
    <3>1. k \in Nat /\ k <= grants[t] /\ tasks[t].attempt \in Nat
      BY DEF Tokens, StoreTypeOK, Row
    <3>2. r \in FailRequest /\ r.task = t /\ r.token = k /\ r.attempt = tasks[t].attempt
      BY <3>1 DEF FailRequest
    <3>3. failing' = failing \cup {r} /\ UNCHANGED <<storeVars, moving, stopping, beating, reaping>>
      BY <2>3 DEF FailRead
    <3> HIDE DEF r
    <3>4. QED  BY <3>1, <3>2, <3>3
  <2>4. ASSUME NEW from \in WorkerIds, NEW to \in WorkerIds, MoveRead(t, from, to)
        PROVE  moving' \subseteq MoveRequest /\ UNCHANGED <<failing, stopping, beating, reaping>>
    BY <2>4 DEF MoveRead, MoveRequest
  <2>5. QED
    BY <2>1, <2>2, <2>3, <2>4 DEF TaskRequest, CreateTask, RetryTask, CompleteTask
<1>2. CASE \E w \in WorkerIds : WorkerRequest(w)
  <2>1. PICK w \in WorkerIds : WorkerRequest(w)
    BY <1>2
  <2>2. CASE UNCHANGED handlerVars
    BY <2>2 DEF handlerVars
  <2>3. ASSUME NEW leases \in SUBSET BeatRequest, BeatStart(w, leases)
        PROVE  beating' \subseteq BeatRequest /\ UNCHANGED <<failing, moving, stopping, reaping>>
    BY <2>3 DEF BeatStart
  <2>4. CASE StopRead(w)
    BY <2>4 DEF StopRead, StopRequest
  <2>5. ASSUME NEW t \in Tasks, NEW k \in Tokens(t)
        PROVE  {[task |-> t, worker |-> w, token |-> k]} \in SUBSET BeatRequest
    BY DEF Tokens, BeatRequest
  <2>6. QED
    BY <2>1, <2>2, <2>3, <2>4, <2>5 DEF WorkerRequest, RegisterWorker, ClaimTasks
<1>3. CASE Continue
  <2>1. CASE \E f \in failing : FailWrite(f)
    BY <2>1 DEF FailWrite, Served
  <2>2. CASE \E m \in moving : MoveWrite(m)
    BY <2>2 DEF MoveWrite, Served
  <2>3. CASE \E s \in stopping : StopRelease(s) \/ StopOffline(s)
    BY <2>3 DEF StopRelease, StopOffline, Served, StopRequest
  <2>4. CASE \E b \in beating : BeatExtend(b)
    BY <2>4 DEF BeatExtend, Served
  <2>5. QED  BY <1>3, <2>1, <2>2, <2>3, <2>4 DEF Continue
<1>4. CASE SchedulerTick \/ ReaperMark \/ ReaperRecover
  BY <1>4 DEF SchedulerTick, ReaperMark, ReaperRecover, handlerVars
<1>5. CASE ClearOfflineWorkers \/ ResetAll \/ Restart \/ TimePasses
  BY <1>5 DEF ClearOfflineWorkers, ResetAll, Restart, TimePasses, handlerVars
<1>6. QED  BY <1>1, <1>2, <1>3, <1>4, <1>5 DEF Next

LEMMA NextKeepsInv == IInv /\ [Next]_vars => IInv'
<1> SUFFICES ASSUME IInv, [Next]_vars PROVE IInv'
  OBVIOUS
<1>1. CASE Next
  <2>1. StoreInv /\ StoreStep
    BY <1>1, NextIsStatement DEF IInv, TypeOK, StoreInv
  <2>2. StoreInv' /\ \A u \in Tasks : Steady(u)
    BY <2>1, StoreStepKeeps, StoreStepSteady
  <2>3. TypeOK'
    BY <1>1, <2>2, HandlersKeep DEF StoreInv, TypeOK
  <2>4. ASSUME NEW f \in failing' PROVE Fresh(f)'
    <3>1. f \in FailRequest /\ f.task \in Tasks
      BY <1>1, HandlersKeep DEF FailRequest
    <3>2. CASE f \in failing
      BY <2>1, <2>2, <3>1, <3>2, FreshnessKept DEF IInv
    <3>3. CASE f \notin failing
      BY <1>1, <3>3, HandlersKeep DEF Fresh, storeVars
    <3>4. QED  BY <3>2, <3>3
  <2>5. QED  BY <2>2, <2>3, <2>4 DEF IInv, StoreInv
<1>2. CASE UNCHANGED vars
  BY <1>2 DEF vars, storeVars, handlerVars, IInv, TypeOK, StoreTypeOK, TaskOK, Fresh, Holds
<1>3. QED  BY <1>1, <1>2

LEMMA InvIsInductive == Spec => []IInv
BY InitInv, NextKeepsInv, PTL DEF Spec

-----------------------------------------------------------------------------
(* Theorems *)

\* Every variable keeps its type: in particular no statement ever leaves a row
\* with a status the code does not know.
THEOREM TypeCorrect == Spec => []TypeOK
<1>1. IInv => TypeOK
  BY DEF IInv
<1>2. QED  BY <1>1, InvIsInductive, PTL

\* The columns of a task row never disagree, and a running task holds the
\* newest token ever issued for it.
THEOREM RowsConsistent == Spec => []LeaseConsistent
<1>1. IInv => LeaseConsistent
  BY DEF IInv, TaskOK, RowOK, Consistent, LeaseConsistent
<1>2. QED  BY <1>1, InvIsInductive, PTL

\* The read-then-write race of fail() is harmless: an UPDATE that still matches
\* was decided on the present attempt.
THEOREM FailDecides == Spec => []FailDecisionFresh
<1>1. IInv => FailDecisionFresh
  BY DEF IInv, Fresh, FailDecisionFresh
<1>2. QED  BY <1>1, InvIsInductive, PTL

\* No task has more failures accepted than maxAttempts, whatever is retried,
\* recovered, released, reassigned or reported twice.
THEOREM BudgetKept == Spec => []RetryBudget
<1>1. IInv => RetryBudget
  BY DEF IInv, TaskOK, RowOK, Budgeted, RetryBudget
<1>2. QED  BY <1>1, InvIsInductive, PTL

\* A lease that has run out comes back to life only at the request of a heartbeat
\* that presents its own token: a former holder keeps nothing of its successor's.
THEOREM LeaseIsHolders == Spec => LeaseKeptByHolder
<1>1. IInv /\ [Next]_vars => [KeepsLeaseOfHolder]_vars
  <2> SUFFICES ASSUME IInv, Next, NEW t \in Tasks, Revived(t)
               PROVE  [task |-> t, worker |-> tasks[t].worker, token |-> tasks[t].token] \in beating
    BY DEF KeepsLeaseOfHolder, Revived
  <2>1. StoreInv
    BY DEF IInv, TypeOK, StoreInv
  <2>2. PICK b \in beating : BeatExtend(b)
    BY <2>1, ActionsAreStatements, OthersReviveNone
  <2>3. /\ b.task \in Tasks
        /\ b = [task |-> b.task, worker |-> b.worker, token |-> b.token]
    BY DEF IInv, TypeOK, BeatRequest
  <2>4. tasks'[t] # tasks[t]
    BY DEF Revived
  <2>5. b.task = t /\ Holds(t, b.worker, b.token)
    BY <2>1, <2>2, <2>3, <2>4 DEF BeatExtend, ExtendLease, StoreInv, StoreTypeOK
  <2>6. QED  BY <2>3, <2>5 DEF Holds
<1>2. QED  BY <1>1, InvIsInductive, PTL DEF Spec, LeaseKeptByHolder

-----------------------------------------------------------------------------
(* Refinement: every step of the coordinator is a step of the contract. *)

\* The coordinator implements the contract, for every instance: one holder at a
\* time, acknowledgements fenced by the newest lease, completion final.
THEOREM ContractKept == Spec => KeepsContract
<1>1. Init => Contract!Init
  BY EmptyStoreUnborn DEF Init
<1>2. IInv /\ IInv' /\ [Next]_vars => [Contract!Next]_([t \in Tasks |-> LifeOf(t)])
  <2> SUFFICES ASSUME IInv, IInv', [Next]_vars
               PROVE  [Contract!Next]_([t \in Tasks |-> LifeOf(t)])
    OBVIOUS
  <2>1. CASE Next
    <3>1. StoreInv /\ StoreInv' /\ StoreStep
      BY <2>1, NextIsStatement DEF IInv, TypeOK, StoreInv
    <3>2. \A u \in Tasks : Contract!Legal(LifeOf(u), LifeOf(u)')
      BY <3>1, StoreStepLegal
    <3>3. Contract!Next
      BY <3>2 DEF Contract!Next
    <3>4. QED  BY <3>3
  <2>2. CASE UNCHANGED vars
    BY <2>2 DEF vars, storeVars, LifeOf
  <2>3. QED  BY <2>1, <2>2
<1>3. QED
  BY <1>1, <1>2, InvIsInductive, PTL DEF Spec, KeepsContract, Contract!Spec

=============================================================================
