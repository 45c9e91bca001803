------------------------------- MODULE Metrics -------------------------------
(***************************************************************************)
(* The counters of the Overview: metrics() reads them with one statement   *)
(* after the other while tasks move, for the cached snapshot, for the push *)
(* loop and for a dashboard that polls.  Two counters are kept, those the  *)
(* Overview shows side by side as "DLQ / Failed": the rows in dead_letter  *)
(* (the first statement) and the DEAD_LETTER rows of task_events (the      *)
(* second).                                                                *)
(***************************************************************************)
EXTENDS LiveView

CONSTANTS
    MaxDead,       \* bound: tasks in the DLQ at a time
    MaxRefreshes, MaxPushes, MaxPolls   \* bounds: calls of metrics() under way

ASSUME MetricsAssumption ==
    MaxDead \in Nat /\ {MaxRefreshes, MaxPushes, MaxPolls} \subseteq Nat \ {0}

VARIABLES
    dead,       \* rows of tasks in dead_letter
    failures,   \* DEAD_LETTER rows of task_events
    dying,      \* dead letters whose event is due
    lost,       \* dead letters whose event will never be written (history)
    refreshes,  \* metrics() of refresh() calls under way
    pushes,     \* metrics() of the push loop under way
    polls,      \* GET /api/metrics of a dashboard without a socket
    cached,     \* metricsCache
    counters    \* snapshot.metrics of the dashboard

tableVars == <<dead, failures, dying, lost>>
metricsVars == <<tableVars, refreshes, pushes, polls, cached, counters>>

MaxFailures == MaxDead + MaxTroubles
Unread == -1

\* owed: the dead letters that had no event when the rows were counted (history).
Snapshot == [dead : -1..MaxDead, failed : -1..MaxFailures, owed : 0..MaxFailures]
NotRead == [dead |-> Unread, failed |-> Unread, owed |-> 0]
Empty == [dead |-> 0, failed |-> 0, owed |-> 0]

Complete(m) == m.dead # Unread /\ m.failed # Unread

MetricsTypeOK ==
    /\ dead \in 0..MaxDead /\ {failures, lost} \subseteq 0..MaxFailures /\ dying \in 0..MaxDue
    /\ refreshes \in Seq(Snapshot) /\ Len(refreshes) <= MaxRefreshes
    /\ {pushes, polls} \subseteq Seq(Snapshot)
    /\ Len(pushes) <= MaxPushes /\ Len(polls) <= MaxPolls
    /\ {cached, counters} \subseteq {m \in Snapshot : Complete(m)}

MetricsInit ==
    /\ dead \in 0..MaxDead /\ failures = dead /\ dying = 0 /\ lost = 0
    /\ refreshes = <<>> /\ pushes = <<>> /\ polls = <<>>
    /\ cached = [dead |-> dead, failed |-> failures, owed |-> 0]
    /\ counters = cached

-----------------------------------------------------------------------------

\* fail() after the last attempt: the row, and later its event.
Die ==
    /\ Trouble
    /\ dead < MaxDead /\ dead' = dead + 1
    /\ dying < MaxDue /\ dying' = dying + 1
    /\ UNCHANGED <<failures, lost, refreshes, pushes, polls, cached, counters, linked>>

Record ==
    /\ dying > 0 /\ dying' = dying - 1
    /\ failures' = failures + 1
    /\ UNCHANGED <<dead, lost, refreshes, pushes, polls, cached, counters, linked, troubles>>

\* The INSERT fails: the row stays as it is.
RecordFails ==
    /\ Trouble
    /\ dying > 0 /\ dying' = dying - 1
    /\ lost' = lost + 1
    /\ UNCHANGED <<dead, failures, refreshes, pushes, polls, cached, counters, linked>>

Reprocessed ==
    /\ Trouble
    /\ dead > 0 /\ dead' = dead - 1
    /\ UNCHANGED <<failures, dying, lost, refreshes, pushes, polls, cached, counters, linked>>

CountedFailuresFirst(m) ==  \* mutant: the totals are read before countByStatus()
    IF m.failed = Unread
    THEN [m EXCEPT !.failed = failures]
    ELSE [m EXCEPT !.dead = dead, !.owed = dying + lost]

\* metrics(): the next statement, on whatever connection is free.
Counted(m) ==
    IF m.dead = Unread
    THEN [m EXCEPT !.dead = dead, !.owed = dying + lost]
    ELSE [m EXCEPT !.failed = failures]

\* setInterval does not wait for the refresh, or the push, before.  A call shows when
\* its first statement is executed.
RefreshStart ==
    /\ Len(refreshes) < MaxRefreshes
    /\ refreshes' = Append(refreshes, Counted(NotRead))
    /\ UNCHANGED <<tableVars, pushes, polls, cached, counters, linked, troubles>>

RefreshCount(i) ==
    /\ ~Complete(refreshes[i])
    /\ refreshes' = [refreshes EXCEPT ![i] = Counted(@)]
    /\ UNCHANGED <<tableVars, pushes, polls, cached, counters, linked, troubles>>

StoredOnce(m) == IF cached = Empty THEN m ELSE cached  \* mutant: metricsCache ??= m

Stored(m) == m

RefreshStore(i) ==
    /\ Complete(refreshes[i])
    /\ cached' = Stored(refreshes[i])
    /\ refreshes' = RemoveAt(refreshes, i)
    /\ UNCHANGED <<tableVars, pushes, polls, counters, linked, troubles>>

\* Promise.all rejects when one query does: the caches keep what they hold.
RefreshFails(i) ==
    /\ Trouble
    /\ refreshes' = RemoveAt(refreshes, i)
    /\ UNCHANGED <<tableVars, pushes, polls, cached, counters, linked>>

PushStart ==
    /\ Len(pushes) < MaxPushes
    /\ pushes' = Append(pushes, Counted(NotRead))
    /\ UNCHANGED <<tableVars, refreshes, polls, cached, counters, linked, troubles>>

PushCount(i) ==
    /\ ~Complete(pushes[i])
    /\ pushes' = [pushes EXCEPT ![i] = Counted(@)]
    /\ UNCHANGED <<tableVars, refreshes, polls, cached, counters, linked, troubles>>

PushSend(i) ==
    /\ Complete(pushes[i])
    /\ pushes' = RemoveAt(pushes, i)
    /\ counters' = IF linked THEN pushes[i] ELSE counters
    /\ UNCHANGED <<tableVars, refreshes, polls, cached, linked, troubles>>

\* The catch of the loop: this push sends nothing.
PushFails(i) ==
    /\ Trouble
    /\ pushes' = RemoveAt(pushes, i)
    /\ UNCHANGED <<tableVars, refreshes, polls, cached, counters, linked>>

\* The timer runs while there is no socket; an answer is taken whenever it comes.
PollStart ==
    /\ ~linked /\ Len(polls) < MaxPolls
    /\ polls' = Append(polls, Counted(NotRead))
    /\ UNCHANGED <<tableVars, refreshes, pushes, cached, counters, linked, troubles>>

PollCount(i) ==
    /\ ~Complete(polls[i])
    /\ polls' = [polls EXCEPT ![i] = Counted(@)]
    /\ UNCHANGED <<tableVars, refreshes, pushes, cached, counters, linked, troubles>>

PollTake(i) ==
    /\ Complete(polls[i])
    /\ polls' = RemoveAt(polls, i)
    /\ counters' = polls[i]
    /\ UNCHANGED <<tableVars, refreshes, pushes, cached, linked, troubles>>

\* The catch of pollOnce(): the counters stay.
PollLost(i) ==
    /\ Trouble
    /\ polls' = RemoveAt(polls, i)
    /\ UNCHANGED <<tableVars, refreshes, pushes, cached, counters, linked>>

\* The first message of a socket carries the cached metrics.
MetricsAttach ==
    /\ Connect
    /\ counters' = cached
    /\ UNCHANGED <<tableVars, refreshes, pushes, polls, cached, troubles>>

MetricsDetach ==
    /\ Trouble /\ Disconnect
    /\ UNCHANGED metricsVars

\* The server restarts: what was under way is lost, the cache is empty at first.
\* Polls it will not answer are lost before.
MetricsRestart ==
    /\ Trouble
    /\ \A i \in DOMAIN polls : Complete(polls[i])
    /\ dying' = 0 /\ lost' = lost + dying
    /\ refreshes' = <<>> /\ pushes' = <<>> /\ cached' = Empty
    /\ linked' = FALSE
    /\ UNCHANGED <<dead, failures, polls, counters>>

Unowed(m) == IF m.dead = Unread THEN m ELSE [m EXCEPT !.owed = m.dead]

\* reset(): both tables are truncated; caches and mirrors are not told.
MetricsReset ==
    /\ Trouble
    /\ dead' = 0 /\ failures' = 0 /\ lost' = 0
    /\ refreshes' = [i \in DOMAIN refreshes |-> Unowed(refreshes[i])]
    /\ pushes' = [i \in DOMAIN pushes |-> Unowed(pushes[i])]
    /\ polls' = [i \in DOMAIN polls |-> Unowed(polls[i])]
    /\ UNCHANGED <<dying, cached, counters, linked>>

MetricsRefresh ==
    RefreshStart \/ \E i \in DOMAIN refreshes : RefreshCount(i) \/ RefreshStore(i)
MetricsPush == PushStart \/ \E i \in DOMAIN pushes : PushCount(i) \/ PushSend(i)

MetricsPoll == PollStart \/ \E i \in DOMAIN polls : PollCount(i) \/ PollTake(i)

MetricsNext ==
    \/ Die \/ Record \/ RecordFails \/ Reprocessed
    \/ MetricsRefresh \/ MetricsPush \/ MetricsPoll
    \/ \E i \in DOMAIN refreshes : RefreshFails(i)
    \/ \E i \in DOMAIN pushes : PushFails(i)
    \/ \E i \in DOMAIN polls : PollLost(i)
    \/ MetricsAttach \/ MetricsDetach \/ MetricsRestart \/ MetricsReset

-----------------------------------------------------------------------------

\* metrics.ts:43-107: the statements of one snapshot see different moments, yet
\* "DLQ / Failed" never shows more dead letters than failures, but for those whose
\* event was not on record when the rows were counted, or was wiped since.
CountsOrdered == \A m \in {cached, counters} : m.dead <= m.failed + m.owed

CountsOf(m) == m.dead = dead /\ m.failed = failures

\* server.ts:113-144, loops.ts:7-20, store.ts:73-135: once tables and sockets are
\* quiet, the snapshot for the next dashboard, and a dashboard with or without a
\* socket, come to hold the counters of the tables, however calls have overlapped,
\* failed, or met a reset or a restart.
CountersCatchUp == <>[](CountsOf(cached) /\ CountsOf(counters))

=============================================================================
