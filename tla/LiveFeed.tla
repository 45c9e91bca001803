------------------------------ MODULE LiveFeed -------------------------------
(***************************************************************************)
(* The live view: what the server publishes about its tasks (event rows,   *)
(* EventBus, WsHub, the cached snapshot) and how the store of the          *)
(* dashboard mirrors it (web socket, deltas, polling as a fallback).       *)
(*                                                                         *)
(* The content of a task row is abstracted to its version, the number of   *)
(* UPDATEs that changed it; what these are is the business of TaskStore.   *)
(* A statement commits first; its handler then inserts an event row, and   *)
(* when that INSERT is answered it pushes the event to the ring and sends  *)
(* the task, as its own statement returned it, to every open socket.  The  *)
(* handlers use the connections of a pool: their INSERTs interleave.       *)
(* One dashboard is modelled: clients do not see one another.  Workers and *)
(* metrics travel the same way and are left out.                           *)
(***************************************************************************)
EXTENDS Integers, SequencesExt

CONSTANTS
    Tasks,
    MaxVersion,  \* bound: changes of a task
    RingSize,    \* capacity of EventsRepo.cache (2000)
    TailSize,    \* events sent in a snapshot (200)
    FeedSize,    \* events the dashboard keeps (500)
    MaxInserts,  \* connections of the pool (pool.ts: 12): INSERTs under way at a time
    MaxReads,    \* bound: cache refreshes, and polls, under way at a time
    MaxDrops,    \* bound: sockets that close, also because the server restarts
    MaySilence,  \* whether statements that announce nothing are included
    MayBreak     \* whether the INSERT of an event may fail

ASSUME FeedAssumption ==
    /\ MaxVersion \in Nat /\ MaxReads \in Nat \ {0} /\ MaxDrops \in Nat
    /\ {RingSize, TailSize, FeedSize, MaxInserts} \subseteq Nat \ {0}
    /\ TailSize <= FeedSize /\ TailSize <= RingSize
    /\ {MaySilence, MayBreak} \subseteq BOOLEAN

VARIABLES
    row,       \* the tasks table: version by task, 0 while there is no row
    pending,   \* announcements whose event row is not inserted yet
    inserted,  \* announcements whose INSERT is not answered yet
    log,       \* the task_events table, by id
    ring,      \* EventsRepo.cache
    cache,     \* recentTasksCache
    reads,     \* refreshes that have listed the tasks and wait for other queries
    sock,      \* the socket: "none", "opening", "accepted", "open", "closing"
    chan,      \* messages sent on it and not received yet
    mirror,    \* snapshot.tasks of the dashboard
    feed,      \* eventRing of the dashboard
    rendered,     \* useEventFeed(): the events the open page renders
    asked,     \* polls sent and not served yet
    answers,   \* polls served and not received yet
    pollTimer, retryTimer, mode,
    drops      \* how many more sockets close

serverVars == <<row, pending, inserted, log, ring, cache, reads>>
viewVars == <<mirror, feed, rendered>>
pollVars == <<asked, answers, pollTimer>>
vars == <<serverVars, sock, chan, viewVars, pollVars, retryTimer, mode, drops>>

Versions == [Tasks -> 0..MaxVersion]

\* An announcement names the version its statement returned; so does its event.
News == [task : Tasks, version : 1..MaxVersion]

Snapshot == [type : {"snapshot"}, tasks : Versions, events : Seq(News)]
Delta == [type : {"task.event", "task.updated"}, news : News]

TypeOK ==
    /\ row \in Versions
    /\ pending \subseteq News /\ inserted \subseteq News
    /\ log \in Seq(News)
    /\ ring \in Seq(News) /\ Len(ring) <= RingSize
    /\ cache \in Versions
    /\ reads \in Seq(Versions) /\ Len(reads) <= MaxReads
    /\ sock \in {"none", "opening", "accepted", "open", "closing"}
    /\ chan \in Seq(Snapshot \cup Delta)
    /\ mirror \in Versions
    /\ {feed, rendered} \subseteq Seq(News) /\ Len(feed) <= FeedSize
    /\ asked \in 0..MaxReads
    /\ answers \in Seq(Versions) /\ asked + Len(answers) <= MaxReads
    /\ pollTimer \in BOOLEAN /\ retryTimer \in BOOLEAN
    /\ mode \in {"connecting", "live", "polling"}
    /\ drops \in 0..MaxDrops

NoVersions == [t \in Tasks |-> 0]

\* startLive(): connect(), then startPolling() until the socket opens.
Init ==
    /\ row = NoVersions /\ pending = {} /\ inserted = {} /\ log = <<>>
    /\ ring = <<>> /\ cache = NoVersions /\ reads = <<>>
    /\ sock = "opening" /\ chan = <<>>
    /\ mirror = NoVersions /\ feed = <<>> /\ rendered = <<>>
    /\ asked = 1 /\ answers = <<>> /\ pollTimer = TRUE
    /\ retryTimer = FALSE /\ mode = "polling"
    /\ drops = MaxDrops

\* RingBuffer.tail(n), and slice(-n).
LastOf(s, n) == SubSeq(s, IF Len(s) > n THEN Len(s) - n + 1 ELSE 1, Len(s))

-----------------------------------------------------------------------------
(* The server *)

\* A statement that is followed by after(): it returns the row it has written.
Change(t) ==
    /\ row[t] < MaxVersion
    /\ row' = [row EXCEPT ![t] = @ + 1]
    /\ pending' = pending \cup {[task |-> t, version |-> row[t] + 1]}
    /\ UNCHANGED <<inserted, log, ring, cache, reads, sock, chan, viewVars, pollVars,
                   retryTimer, mode, drops>>

\* promoteScheduled and releaseRunningTasks: no event, no message.
SilentChange(t) ==
    /\ MaySilence
    /\ row[t] \in 1..(MaxVersion - 1)
    /\ row' = [row EXCEPT ![t] = @ + 1]
    /\ UNCHANGED <<pending, inserted, log, ring, cache, reads, sock, chan, viewVars,
                   pollVars, retryTimer, mode, drops>>

InsertEvent(n) ==
    /\ n \in pending /\ Cardinality(inserted) < MaxInserts
    /\ pending' = pending \ {n}
    /\ inserted' = inserted \cup {n}
    /\ log' = Append(log, n)
    /\ UNCHANGED <<row, ring, cache, reads, sock, chan, viewVars, pollVars, retryTimer,
                   mode, drops>>

\* The INSERT fails: the handler gives up, and its statement stays committed.
BreakEvent(n) ==
    /\ MayBreak
    /\ n \in pending
    /\ pending' = pending \ {n}
    /\ UNCHANGED <<row, inserted, log, ring, cache, reads, sock, chan, viewVars, pollVars,
                   retryTimer, mode, drops>>

Push(s, n) == LastOf(Append(s, n), RingSize)

\* WsHub sends to a socket from the moment it has attached it.
Attached == sock \in {"accepted", "open"}

SentUpdateOnly(n) == <<[type |-> "task.updated", news |-> n]>>  \* mutant: pub does not emit

Sent(n) == <<[type |-> "task.event", news |-> n], [type |-> "task.updated", news |-> n]>>

Announce(n) ==
    /\ n \in inserted
    /\ inserted' = inserted \ {n}
    /\ ring' = Push(ring, n)
    /\ chan' = IF Attached THEN chan \o Sent(n) ELSE chan
    /\ UNCHANGED <<row, pending, log, cache, reads, sock, viewVars, pollVars, retryTimer,
                   mode, drops>>

\* refresh(): the tasks are listed, and stored when three other queries are
\* answered too.  setInterval does not wait for the refresh before.
RefreshRead ==
    /\ Len(reads) < MaxReads
    /\ reads' = Append(reads, row)
    /\ UNCHANGED <<row, pending, inserted, log, ring, cache, sock, chan, viewVars, pollVars,
                   retryTimer, mode, drops>>

RefreshStore(i) ==
    /\ cache' = reads[i]
    /\ reads' = RemoveAt(reads, i)
    /\ UNCHANGED <<row, pending, inserted, log, ring, sock, chan, viewVars, pollVars,
                   retryTimer, mode, drops>>

\* attach(): the tasks of the snapshot come from the cache, the events from the ring.
Attach ==
    /\ sock = "opening"
    /\ sock' = "accepted"
    /\ chan' = <<[type |-> "snapshot", tasks |-> cache, events |-> LastOf(ring, TailSize)]>>
    /\ UNCHANGED <<serverVars, viewVars, pollVars, retryTimer, mode, drops>>

WarmedTwice == LastOf(log \o log, RingSize)  \* mutant: warm() does not ask whether it has run

\* EventsRepo.warm(): the newest rows of the table, oldest first.
Warmed == LastOf(log, RingSize)

\* The server dies and comes up again: the ring is warmed, the caches are empty
\* until the first refresh, and announcements under way never happen.
Restart ==
    /\ drops > 0 /\ drops' = drops - 1
    /\ pending' = {} /\ inserted' = {}
    /\ ring' = Warmed /\ cache' = NoVersions /\ reads' = <<>>
    /\ sock' = IF sock = "none" THEN "none" ELSE "closing"
    /\ chan' = <<>> /\ asked' = 0
    /\ UNCHANGED <<row, log, viewVars, answers, pollTimer, retryTimer, mode>>

-----------------------------------------------------------------------------
(* The store of the dashboard *)

\* startPolling(): a timer that already runs is left alone, and so is the mode.
StartPolling ==
    IF pollTimer
    THEN /\ mode' = "connecting"
         /\ UNCHANGED <<pollTimer, asked>>
    ELSE /\ mode' = "polling"
         /\ pollTimer' = TRUE
         /\ asked' = IF asked + Len(answers) < MaxReads THEN asked + 1 ELSE asked

OpenedKeepsPolling ==  \* mutant: stopPolling() is missing
    /\ mode' = "live" /\ UNCHANGED pollTimer

OpenedStopsPolling ==
    /\ mode' = "live" /\ pollTimer' = FALSE

Opened ==
    /\ sock = "accepted"
    /\ sock' = "open"
    /\ OpenedStopsPolling
    /\ UNCHANGED <<serverVars, chan, viewVars, asked, answers, retryTimer, drops>>

\* handleMessage()
Receive ==
    /\ sock = "open" /\ chan # <<>>
    /\ LET m == Head(chan) IN
         \/ /\ m.type = "snapshot"
            /\ mirror' = m.tasks
            /\ feed' = m.events
            /\ UNCHANGED rendered
         \/ /\ m.type = "task.updated"
            /\ mirror' = [mirror EXCEPT ![m.news.task] = m.news.version]
            /\ UNCHANGED <<feed, rendered>>
         \/ /\ m.type = "task.event"
            /\ feed' = Append(LastOf(feed, FeedSize - 1), m.news)
            /\ rendered' = feed'
            /\ UNCHANGED mirror
    /\ chan' = Tail(chan)
    /\ UNCHANGED <<serverVars, sock, pollVars, retryTimer, mode, drops>>

\* The connection fails or breaks, before or after it has opened.
Drop ==
    /\ drops > 0 /\ drops' = drops - 1
    /\ sock \in {"opening", "accepted", "open"}
    /\ sock' = "closing"
    /\ chan' = <<>>
    /\ UNCHANGED <<serverVars, viewVars, pollVars, retryTimer, mode>>

\* onclose: poll, and connect again when retryTimer fires.
Closed ==
    /\ sock = "closing"
    /\ sock' = "none"
    /\ StartPolling
    /\ retryTimer' = TRUE
    /\ UNCHANGED <<serverVars, chan, viewVars, answers, drops>>

Reconnect ==
    /\ retryTimer
    /\ retryTimer' = FALSE
    /\ sock' = "opening"
    /\ UNCHANGED <<serverVars, chan, viewVars, pollVars, mode, drops>>

PollAsk ==
    /\ pollTimer
    /\ asked + Len(answers) < MaxReads
    /\ asked' = asked + 1
    /\ UNCHANGED <<serverVars, sock, chan, viewVars, answers, pollTimer, retryTimer, mode, drops>>

PollServe ==
    /\ asked > 0
    /\ asked' = asked - 1
    /\ answers' = Append(answers, row)
    /\ UNCHANGED <<serverVars, sock, chan, viewVars, pollTimer, retryTimer, mode, drops>>

PolledIfPolling(i) == IF mode = "polling" THEN answers[i] ELSE mirror  \* mutant: asks the mode

Polled(i) == answers[i]

\* pollOnce() takes its answer whenever it comes, also when the socket is open.
PollReceive(i) ==
    /\ mirror' = Polled(i)
    /\ answers' = RemoveAt(answers, i)
    /\ UNCHANGED <<serverVars, sock, chan, feed, rendered, asked, pollTimer, retryTimer, mode, drops>>

\* Another page is opened: its feed starts with the ring of the store.
OpenPage ==
    /\ rendered # feed /\ rendered' = feed
    /\ UNCHANGED <<serverVars, sock, chan, mirror, feed, pollVars, retryTimer, mode, drops>>

-----------------------------------------------------------------------------

Poll == PollAsk \/ PollServe \/ \E i \in DOMAIN answers : PollReceive(i)
Publish == \E n \in News : InsertEvent(n) \/ Announce(n)
Refresh == RefreshRead \/ \E i \in DOMAIN reads : RefreshStore(i)

Next ==
    \/ \E t \in Tasks : Change(t) \/ SilentChange(t)
    \/ Publish \/ Refresh
    \/ \E n \in News : BreakEvent(n)
    \/ Restart
    \/ Attach \/ Opened \/ Receive \/ Drop \/ Closed \/ Reconnect
    \/ Poll
    \/ OpenPage

Spec == Init /\ [][Next]_vars

-----------------------------------------------------------------------------
(* Safety *)

\* Where the events among the messages are, and the one way to list them in
\* the order they were sent.
EventPlaces == {i \in DOMAIN chan : chan[i].type = "task.event"}
Listings ==
    {f \in [1..Cardinality(EventPlaces) -> EventPlaces] :
        \A i, j \in DOMAIN f : i < j => f[i] < f[j]}

\* hub.ts:12-17: between the events of the snapshot and the deltas nothing is
\* lost and nothing comes twice: what a connected dashboard shows, and what is on
\* its way, are the newest events of the server in the server's order.
FeedFollowsRing ==
    (sock = "open" /\ ~\E i \in DOMAIN chan : chan[i].type = "snapshot")
    => \E f \in Listings :
         LET shown == feed \o [i \in DOMAIN f |-> chan[f[i]].news]
             n == IF Len(shown) < Len(ring) THEN Len(shown) ELSE Len(ring)
         IN  /\ LastOf(shown, n) = LastOf(ring, n)
             /\ n = Len(ring) \/ n >= TailSize

\* events.ts:17-42: whatever restarts come between the INSERT of an event and its
\* announcement, the ring holds events of the table, none twice, and when nothing is
\* under way as many as fit.  They are the last that were announced: INSERTs are
\* answered in any order, so an older event may push a newer one out; but no more
\* than the pool has connections, so the newest of the table, but for that many,
\* are in the ring or about to enter it.
RingHoldsLog ==
    /\ ToSet(ring) \subseteq ToSet(log) /\ IsInjective(ring)
    /\ inserted = {} => Len(ring) = IF Len(log) < RingSize THEN Len(log) ELSE RingSize
    /\ MaxInserts <= RingSize =>
           ToSet(LastOf(log, RingSize - MaxInserts + 1)) \subseteq ToSet(ring) \cup inserted

\* store.ts:103-142: the dashboard has at most one socket, is never without a
\* source of data, and does not go on polling once it is live.
OneSource ==
    /\ retryTimer <=> sock = "none"
    /\ pollTimer <=> mode # "live"
    /\ sock \in {"none", "opening", "accepted"} => pollTimer
    /\ sock = "open" => mode = "live"

-----------------------------------------------------------------------------
(* Liveness *)

\* Handlers and refreshes finish, polls are served, timers fire, and what a
\* socket carries is received.  That a socket can be opened is not assumed.
Fairness ==
    /\ WF_vars(Publish) /\ WF_vars(Refresh)
    /\ WF_vars(Receive) /\ WF_vars(Opened) /\ WF_vars(Closed) /\ WF_vars(Reconnect)
    /\ WF_vars(PollAsk) /\ WF_vars(PollServe)
    /\ WF_vars(\E i \in DOMAIN answers : PollReceive(i))

FairSpec == Spec /\ Fairness

\* API.md:299-301: a dashboard that cannot connect shows what the tables hold by
\* polling, silent changes and failed announcements included.
PollingConverges == <>[]pollTimer => <>[](mirror = row)

\* README.md:84: events are "streamed to the dashboard over WebSocket".  One that
\* stays connected ends up with the newest events of the server.
EventsArrive ==
    <>[](sock = "open") => <>[](LastOf(feed, TailSize) = LastOf(ring, TailSize))

-----------------------------------------------------------------------------
(* What the code does not keep. *)

\* README.md:84: "every transition writes a task_events row".
EveryChangeLogged ==
    pending = {} => \A t \in Tasks : \A v \in 1..row[t] :
        \E i \in DOMAIN log : log[i] = [task |-> t, version |-> v]

\* API.md:299: "The first message is a full snapshot; afterwards only deltas are
\* pushed".  A dashboard that stays connected ends up with what the tables hold.
LiveConverges == <>[](sock = "open") => <>[](mirror = row)

\* README.md:84, for what a page renders: the hook is told of events, not of a
\* snapshot, whose events show when the next one comes or another page is opened.
EventsShown ==
    <>[](sock = "open") => <>[](LastOf(rendered, TailSize) = LastOf(ring, TailSize))

\* API.md:313: the events of a snapshot are "recent, oldest -> newest".
RingInOrder ==
    \A i, j \in DOMAIN ring : \A k, l \in DOMAIN log :
        i < j /\ ring[i] = log[k] /\ ring[j] = log[l] => k < l

=============================================================================
