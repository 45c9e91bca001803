----------------------------- MODULE WorkersPage ------------------------------
(***************************************************************************)
(* The Workers page: rows of workers that come and go, their way to the    *)
(* cached snapshot and to the mirror of a dashboard, and the button that   *)
(* clears what is offline.  Deploy, kill and pause are calls of the chaos  *)
(* supervisor (ChaosConsole) under the same busy flag.                     *)
(***************************************************************************)
EXTENDS LiveView

CONSTANT Workers

VARIABLES
    worker,    \* rows of workers, by id
    telling,   \* rows returned by register and markTimedOut, not announced yet
    lists,     \* refresh() calls under way: what workers.list() returned
    kept,      \* workersCache
    roster,    \* snapshot.workers of the dashboard
    clearing,  \* the call of clearOffline
    seen,      \* offline workers of the render whose button was clicked
    removed,   \* ids hidden
    timers     \* timeouts that show them again

fleetVars == <<worker, telling, lists, kept, roster, clearing, seen, removed, timers>>

\* fresh: an id no row has had yet; none: the row is deleted, its id does not return.
Fleet == [Workers -> {"fresh", "online", "offline", "none"}]
Status == [worker : Workers, status : {"online", "offline"}]

WorkersTypeOK ==
    /\ {worker, kept, roster} \subseteq Fleet
    /\ telling \in Seq(Status) /\ Len(telling) <= MaxDue
    /\ lists \in Seq(Fleet) /\ Len(lists) <= MaxCalls
    /\ clearing \in {"none", "asked", "done"}
    /\ {seen, removed} \subseteq SUBSET Workers
    /\ timers \in 0..MaxCalls

NoWorkers == [w \in Workers |-> "none"]

WorkersInit ==
    /\ worker \in [Workers -> {"fresh", "online", "offline"}]
    /\ telling = <<>> /\ lists = <<>> /\ kept = worker /\ roster = worker
    /\ clearing = "none" /\ seen = {} /\ removed = {} /\ timers = 0

-----------------------------------------------------------------------------

pageOfFleet == <<clearing, seen, removed, timers>>

Turns(w, status) ==
    /\ worker' = [worker EXCEPT ![w] = status]
    /\ Len(telling) < MaxDue
    /\ telling' = Append(telling, [worker |-> w, status |-> status])

TimeOut(w) ==
    /\ Trouble
    /\ worker[w] = "online" /\ Turns(w, "offline")
    /\ UNCHANGED <<lists, kept, roster, pageOfFleet, linked>>

\* A worker that starts, or is answered 409, registers on the row of its name; when
\* there is none, because it is deleted or wiped, on a new one.
Register(w) ==
    /\ Trouble
    /\ worker[w] \in {"fresh", "offline"} /\ Turns(w, "online")
    /\ UNCHANGED <<lists, kept, roster, pageOfFleet, linked>>

\* shutdown: setStatus() announces nothing.
ShutDown(w) ==
    /\ Trouble
    /\ worker[w] = "online"
    /\ worker' = [worker EXCEPT ![w] = "offline"]
    /\ UNCHANGED <<telling, lists, kept, roster, pageOfFleet, linked>>

\* worker.updated
Shown(w, status) == IF linked THEN [roster EXCEPT ![w] = status] ELSE roster

\* register() and markTimedOut() send the row when its event is inserted.
Tell(i) ==
    /\ telling' = RemoveAt(telling, i)
    /\ roster' = Shown(telling[i].worker, telling[i].status)
    /\ UNCHANGED <<worker, lists, kept, pageOfFleet, linked, troubles>>

TellFails(i) ==
    /\ Trouble
    /\ telling' = RemoveAt(telling, i)
    /\ UNCHANGED <<worker, lists, kept, roster, pageOfFleet, linked>>

HeartbeatUntold(w) ==  \* mutant: heartbeat() does not emit
    /\ worker[w] = "online" /\ UNCHANGED <<fleetVars, linked, troubles>>

\* A row that is online has a worker whose heartbeats are served; each sends the row.
Heartbeat(w) ==
    /\ worker[w] = "online"
    /\ roster' = Shown(w, "online")
    /\ UNCHANGED <<worker, telling, lists, kept, pageOfFleet, linked, troubles>>

\* refresh(): the list is stored when three other queries are answered too.
ListWorkers ==
    /\ Len(lists) < MaxCalls
    /\ lists' = Append(lists, worker)
    /\ UNCHANGED <<worker, telling, kept, roster, pageOfFleet, linked, troubles>>

KeepWorkers(i) ==
    /\ kept' = lists[i]
    /\ lists' = RemoveAt(lists, i)
    /\ UNCHANGED <<worker, telling, roster, pageOfFleet, linked, troubles>>

WorkersAttach ==
    /\ Connect
    /\ roster' = kept
    /\ UNCHANGED <<worker, telling, lists, kept, pageOfFleet, troubles>>

WorkersDetach == Trouble /\ Disconnect /\ UNCHANGED fleetVars

WorkersRestart ==
    /\ Trouble
    /\ telling' = <<>> /\ lists' = <<>> /\ kept' = NoWorkers /\ linked' = FALSE
    /\ clearing' = IF clearing = "asked" THEN "none" ELSE clearing
    /\ UNCHANGED <<worker, roster, seen, removed, timers>>

WorkersReset ==
    /\ Trouble
    /\ worker' = [w \in Workers |-> IF worker[w] = "fresh" THEN "fresh" ELSE "none"]
    /\ UNCHANGED <<telling, lists, kept, roster, pageOfFleet, linked>>

-----------------------------------------------------------------------------

Offline == {w \in Workers : roster[w] = "offline"}

\* The button is there while an offline worker is shown.
ClearOffline ==
    /\ clearing = "none" /\ timers < MaxCalls
    /\ Offline \ removed # {}
    /\ clearing' = "asked" /\ seen' = Offline
    /\ UNCHANGED <<worker, telling, lists, kept, roster, removed, timers, linked, troubles>>

\* deleteOffline(): the rows that hold no task; no dashboard is told.
ServeClear ==
    /\ clearing = "asked" /\ clearing' = "done"
    /\ \E holding \in SUBSET Workers :
         worker' = [w \in Workers |->
                      IF worker[w] = "offline" /\ w \notin holding THEN "none" ELSE worker[w]]
    /\ UNCHANGED <<telling, lists, kept, roster, seen, removed, timers, linked, troubles>>

\* The workers of the click are hidden, not those of the answer.
AnswerClear ==
    /\ clearing = "done" /\ clearing' = "none"
    /\ removed' = removed \cup seen /\ timers' = timers + 1
    /\ UNCHANGED <<worker, telling, lists, kept, roster, seen, linked, troubles>>

\* The rows are deleted, then the INSERT of a WORKER_REMOVED event fails: 500.
AnswerClearFails ==
    /\ Trouble
    /\ clearing = "done" /\ clearing' = "none"
    /\ UNCHANGED <<worker, telling, lists, kept, roster, seen, removed, timers, linked>>

\* Whichever timer fires first shows all of them again.
TimerFires ==
    /\ timers > 0 /\ timers' = timers - 1
    /\ removed' = {}
    /\ UNCHANGED <<worker, telling, lists, kept, roster, clearing, seen, linked, troubles>>

TellNext == \E i \in DOMAIN telling : Tell(i)
RefreshWorkers == ListWorkers \/ \E i \in DOMAIN lists : KeepWorkers(i)

WorkersNext ==
    \/ \E w \in Workers : TimeOut(w) \/ Register(w) \/ ShutDown(w) \/ Heartbeat(w)
    \/ TellNext \/ \E i \in DOMAIN telling : TellFails(i)
    \/ RefreshWorkers
    \/ WorkersAttach \/ WorkersDetach \/ WorkersRestart \/ WorkersReset
    \/ ClearOffline \/ ServeClear \/ AnswerClear \/ AnswerClearFails
    \/ TimerFires

-----------------------------------------------------------------------------

\* WorkersPage.tsx:43-53: a worker that stays online is shown, and shown online, to
\* whoever stays connected, also when a clear has hidden it on a stale view.
AliveIsShown ==
    \A w \in Workers :
        <>[](linked /\ worker[w] = "online") => <>[](roster[w] = "online" /\ w \notin removed)

-----------------------------------------------------------------------------
(* What the code does not keep. *)

\* WorkersPage.tsx:46: "Hide them locally too - the server has deleted the rows".
HiddenIsDeleted == \A w \in removed : worker[w] = "none"

\* WorkersPage.tsx:52: "snapshot refresh makes this redundant".
ClearedStaysAway == [][TimerFires => \A w \in removed : roster[w] # "offline"]_fleetVars

=============================================================================
