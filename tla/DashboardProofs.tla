--------------------------- MODULE DashboardProofs ---------------------------
(***************************************************************************)
(* What the pages of the dashboard keep for any number of tasks, workers,  *)
(* calls and troubles: types, the order of the two counters, and the       *)
(* outcome of a bulk press.  A page only changes its own variables, so     *)
(* each page has an invariant of its own, and a lemma per page says that   *)
(* its steps keep it.                                                      *)
(***************************************************************************)
EXTENDS Dashboard, SequenceTheorems, FiniteSetTheorems, TLAPS

-----------------------------------------------------------------------------
(* The overview.  A call of metrics() that has read the rows in dead_letter *)
(* will find, or has found, at least as many failures but for those it     *)
(* owes; failures only shrink in a reset, which marks what it wipes as owed.*)

Ordered(m) ==
    IF m.dead = Unread
    THEN m = NotRead
    ELSE m.dead <= (IF m.failed = Unread THEN failures ELSE m.failed) + m.owed

Reads == {m \in Snapshot : Ordered(m)}

\* Every dead letter has its event, or it is due, or lost.
DeadCovered == dead <= failures + dying + lost

\* What has died was there at first or has cost a trouble.
Spent == failures + dying + lost + troubles <= MaxFailures

MetricsInv ==
    /\ MetricsTypeOK
    /\ troubles \in 0..MaxTroubles /\ linked \in BOOLEAN
    /\ DeadCovered /\ Spent
    /\ refreshes \in Seq(Reads) /\ pushes \in Seq(Reads) /\ polls \in Seq(Reads)
    /\ CountsOrdered

-----------------------------------------------------------------------------
(* The DLQ page.  What a press has left undone is still to be sent.         *)

Undone ==
    /\ call = "none" => left = {} \/ error
    /\ call = "asked" => left \subseteq ToSet(todo)
    /\ call = "done" => left \subseteq ToSet(Tail(todo))

DlqInv ==
    /\ DlqTypeOK
    /\ troubles \in 0..MaxTroubles /\ linked \in BOOLEAN
    /\ Undone

\* The timer of a clear under way will find room.
Room == clearing # "none" => timers < MaxCalls

FleetInv ==
    /\ WorkersTypeOK /\ Room
    /\ troubles \in 0..MaxTroubles /\ linked \in BOOLEAN

IInv ==
    /\ page \in {"overview", "dlq", "workers"}
    /\ MetricsInv /\ DlqInv /\ FleetInv

-----------------------------------------------------------------------------

LEMMA RemoveAtSeq ==
    ASSUME NEW S, NEW s \in Seq(S), NEW i \in DOMAIN s
    PROVE  RemoveAt(s, i) \in Seq(S) /\ Len(RemoveAt(s, i)) = Len(s) - 1
  <1>1. Len(s) \in Nat /\ i \in 1..Len(s) /\ \A j \in 1..Len(s) : s[j] \in S
    BY LenProperties, ElementOfSeq
  <1>2. SubSeq(s, 1, i-1) \in Seq(S) /\ Len(SubSeq(s, 1, i-1)) = i - 1
    <2>1. \A j \in 1..(i-1) : s[j] \in S
      BY <1>1
    <2> QED BY <1>1, <2>1, SubSeqProperties
  <1>3. SubSeq(s, i+1, Len(s)) \in Seq(S) /\ Len(SubSeq(s, i+1, Len(s))) = Len(s) - i
    <2>1. \A j \in (i+1)..Len(s) : s[j] \in S
      BY <1>1
    <2> QED BY <1>1, <2>1, SubSeqProperties
  <1> DEFINE a == SubSeq(s, 1, i-1)
             b == SubSeq(s, i+1, Len(s))
  <1>4. a \in Seq(S) /\ b \in Seq(S) => a \o b \in Seq(S) /\ Len(a \o b) = Len(a) + Len(b)
    <2> HIDE DEF a, b
    <2> QED BY ConcatProperties
  <1>5. RemoveAt(s, i) = a \o b
    BY DEF RemoveAt
  <1> HIDE DEF a, b
  <1>6. a \in Seq(S) /\ Len(a) = i - 1 /\ b \in Seq(S) /\ Len(b) = Len(s) - i
    BY <1>2, <1>3 DEF a, b
  <1>7. (i - 1) + (Len(s) - i) = Len(s) - 1
    BY <1>1
  <1> QED BY <1>4, <1>5, <1>6, <1>7


LEMMA ToSetTail ==
    ASSUME NEW S, NEW s \in Seq(S), s # <<>>
    PROVE  ToSet(s) = {Head(s)} \cup ToSet(Tail(s))
  <1>1. /\ Len(s) \in Nat \ {0} /\ DOMAIN s = 1..Len(s) /\ Head(s) = s[1]
        /\ Tail(s) \in Seq(S) /\ Len(Tail(s)) = Len(s) - 1
        /\ DOMAIN Tail(s) = 1..(Len(s) - 1)
        /\ \A i \in 1..(Len(s) - 1) : Tail(s)[i] = s[i+1]
    BY HeadTailProperties, LenProperties, EmptySeq
  <1>2. \A x \in ToSet(s) : x = Head(s) \/ x \in ToSet(Tail(s))
    <2> SUFFICES ASSUME NEW i \in 1..Len(s), i # 1 PROVE s[i] \in ToSet(Tail(s))
      BY <1>1 DEF ToSet
    <2>1. i - 1 \in 1..(Len(s) - 1) /\ Tail(s)[i - 1] = s[(i - 1) + 1] /\ (i - 1) + 1 = i
      BY <1>1
    <2> QED BY <1>1, <2>1 DEF ToSet
  <1>3. \A x \in ToSet(Tail(s)) : x \in ToSet(s)
    BY <1>1 DEF ToSet
  <1>4. Head(s) \in ToSet(s)
    BY <1>1 DEF ToSet
  <1> QED BY <1>2, <1>3, <1>4

LEMMA TroubleType ==
    ASSUME troubles \in 0..MaxTroubles, Trouble
    PROVE  troubles' \in 0..MaxTroubles /\ troubles' = troubles - 1
  BY ViewAssumption DEF Trouble

-----------------------------------------------------------------------------
(* The overview, action by action.                                          *)

LEMMA ReadsKept ==
    ASSUME UNCHANGED failures
    PROVE  Reads' = Reads
  BY DEF Reads, Ordered

\* A statement of metrics() counts what is there when it runs.
LEMMA CountedReads ==
    ASSUME MetricsInv, NEW m \in Reads, ~Complete(m)
    PROVE  Counted(m) \in Reads
  <1>1. /\ dead \in Nat /\ dead <= MaxDead /\ failures \in 0..MaxFailures
        /\ dying \in Nat /\ lost \in Nat /\ dying + lost \in 0..MaxFailures
        /\ MaxFailures \in Nat /\ dead <= failures + (dying + lost)
    BY MetricsAssumption, ViewAssumption
       DEF MetricsInv, MetricsTypeOK, Spent, DeadCovered, MaxFailures
  <1>2. CASE m.dead = Unread
    <2>1. m = NotRead
      BY <1>2 DEF Reads, Ordered
    <2>2. Counted(m) = [m EXCEPT !.dead = dead, !.owed = dying + lost]
      BY <1>2 DEF Counted
    <2>3. Counted(m) = [dead |-> dead, failed |-> Unread, owed |-> dying + lost]
      BY <2>1, <2>2 DEF NotRead
    <2> QED BY <1>1, <2>3 DEF Reads, Ordered, Snapshot, Unread
  <1>3. CASE m.dead # Unread
    <2>1. /\ m \in Snapshot /\ m.failed = Unread /\ m.dead <= failures + m.owed
          /\ Counted(m) = [dead |-> m.dead, failed |-> failures, owed |-> m.owed]
      BY <1>3 DEF Reads, Ordered, Complete, Counted, Snapshot
    <2>2. m.dead \in -1..MaxDead /\ m.owed \in 0..MaxFailures
      BY <2>1 DEF Snapshot
    <2>3. Counted(m) \in Snapshot
      BY <1>1, <2>1, <2>2 DEF Snapshot
    <2>4. Ordered(Counted(m))
      BY <1>1, <1>3, <2>1, <2>2 DEF Ordered, Unread
    <2> QED BY <2>3, <2>4 DEF Reads
  <1> QED BY <1>2, <1>3

LEMMA NewRead == NotRead \in Snapshot /\ Ordered(NotRead)
  BY MetricsAssumption, ViewAssumption DEF NotRead, Snapshot, Ordered, Unread, MaxFailures

\* What a complete call stores or sends may be shown.
LEMMA CompleteRead ==
    ASSUME NEW m \in Reads, Complete(m)
    PROVE  m \in {k \in Snapshot : Complete(k)} /\ m.dead <= m.failed + m.owed
  BY DEF Reads, Ordered, Complete

\* The calls of one kind: one starts, one counts, one ends.
LEMMA Started ==
    ASSUME NEW s \in Seq(Reads), MetricsInv
    PROVE  /\ Append(s, Counted(NotRead)) \in Seq(Reads)
           /\ Len(Append(s, Counted(NotRead))) = Len(s) + 1
  <1>1. NotRead \in Reads /\ ~Complete(NotRead)
    BY NewRead DEF Reads, Complete, NotRead
  <1>2. Counted(NotRead) \in Reads
    BY <1>1, CountedReads
  <1> QED BY <1>2, AppendProperties

LEMMA Counts ==
    ASSUME NEW s \in Seq(Reads), MetricsInv, NEW i \in DOMAIN s, ~Complete(s[i])
    PROVE  /\ [s EXCEPT ![i] = Counted(@)] \in Seq(Reads)
           /\ Len([s EXCEPT ![i] = Counted(@)]) = Len(s)
  <1>1. i \in 1..Len(s) /\ s[i] \in Reads
    BY LenProperties, ElementOfSeq
  <1>2. Counted(s[i]) \in Reads
    BY <1>1, CountedReads
  <1> QED BY <1>1, <1>2, ExceptSeq

LEMMA MetricsCalls ==
    ASSUME MetricsInv, MetricsRefresh \/ MetricsPush \/ MetricsPoll
    PROVE  MetricsInv'
  <1>1. /\ UNCHANGED <<tableVars, troubles, linked>>
        /\ Reads' = Reads /\ {k \in Snapshot : Complete(k)}' = {k \in Snapshot : Complete(k)}
    BY ReadsKept DEF MetricsRefresh, MetricsPush, MetricsPoll, RefreshStart, RefreshCount,
       RefreshStore, PushStart, PushCount, PushSend, PollStart, PollCount, PollTake, tableVars
  <1>2. /\ refreshes \in Seq(Reads) /\ pushes \in Seq(Reads) /\ polls \in Seq(Reads)
        /\ Len(refreshes) \in Nat /\ Len(pushes) \in Nat /\ Len(polls) \in Nat
        /\ Len(refreshes) <= MaxRefreshes /\ Len(pushes) <= MaxPushes /\ Len(polls) <= MaxPolls
        /\ MaxRefreshes \in Nat /\ MaxPushes \in Nat /\ MaxPolls \in Nat
    BY LenProperties, MetricsAssumption, ViewAssumption DEF MetricsInv, MetricsTypeOK
  <1>3. /\ \A i \in DOMAIN refreshes : refreshes[i] \in Reads
        /\ \A i \in DOMAIN pushes : pushes[i] \in Reads
        /\ \A i \in DOMAIN polls : polls[i] \in Reads
    BY <1>2, LenProperties, ElementOfSeq
  <1> DEFINE Bounded == /\ refreshes' \in Seq(Reads) /\ Len(refreshes') <= MaxRefreshes
                        /\ pushes' \in Seq(Reads) /\ Len(pushes') <= MaxPushes
                        /\ polls' \in Seq(Reads) /\ Len(polls') <= MaxPolls
  <1>4. Bounded
    <2>1. CASE RefreshStart
      BY <1>2, <2>1, Started DEF RefreshStart
    <2>2. CASE PushStart
      BY <1>2, <2>2, Started DEF PushStart
    <2>3. CASE PollStart
      BY <1>2, <2>3, Started DEF PollStart
    <2>4. ASSUME NEW i \in DOMAIN refreshes, RefreshCount(i) \/ RefreshStore(i) PROVE Bounded
      <3>1. CASE RefreshCount(i)
        BY <1>2, <3>1, Counts DEF RefreshCount
      <3>2. CASE RefreshStore(i)
        BY <1>2, <3>2, RemoveAtSeq DEF RefreshStore
      <3> QED BY <2>4, <3>1, <3>2
    <2>5. ASSUME NEW i \in DOMAIN pushes, PushCount(i) \/ PushSend(i) PROVE Bounded
      <3>1. CASE PushCount(i)
        BY <1>2, <3>1, Counts DEF PushCount
      <3>2. CASE PushSend(i)
        BY <1>2, <3>2, RemoveAtSeq DEF PushSend
      <3> QED BY <2>5, <3>1, <3>2
    <2>6. ASSUME NEW i \in DOMAIN polls, PollCount(i) \/ PollTake(i) PROVE Bounded
      <3>1. CASE PollCount(i)
        BY <1>2, <3>1, Counts DEF PollCount
      <3>2. CASE PollTake(i)
        BY <1>2, <3>2, RemoveAtSeq DEF PollTake
      <3> QED BY <2>6, <3>1, <3>2
    <2> QED BY <2>1, <2>2, <2>3, <2>4, <2>5, <2>6 DEF MetricsRefresh, MetricsPush, MetricsPoll
  <1>5. /\ {cached', counters'} \subseteq {k \in Snapshot : Complete(k)}
        /\ cached'.dead <= cached'.failed + cached'.owed
        /\ counters'.dead <= counters'.failed + counters'.owed
    <2> DEFINE Shown_ == {k \in Snapshot : Complete(k) /\ k.dead <= k.failed + k.owed}
    <2>0. cached \in Shown_ /\ counters \in Shown_
      BY DEF MetricsInv, MetricsTypeOK, CountsOrdered
    <2>1. \A i \in DOMAIN refreshes : RefreshStore(i) => cached' \in Shown_ /\ counters' = counters
      BY <1>3, CompleteRead DEF RefreshStore, Stored
    <2>2. \A i \in DOMAIN pushes : PushSend(i) => counters' \in Shown_ /\ cached' = cached
      BY <1>3, <2>0, CompleteRead DEF PushSend
    <2>3. \A i \in DOMAIN polls : PollTake(i) => counters' \in Shown_ /\ cached' = cached
      BY <1>3, CompleteRead DEF PollTake
    <2>4. \/ UNCHANGED <<cached, counters>>
          \/ \E i \in DOMAIN refreshes : RefreshStore(i)
          \/ \E i \in DOMAIN pushes : PushSend(i)
          \/ \E i \in DOMAIN polls : PollTake(i)
      BY DEF MetricsRefresh, MetricsPush, MetricsPoll, RefreshStart, RefreshCount,
         PushStart, PushCount, PollStart, PollCount
    <2>5. cached' \in Shown_ /\ counters' \in Shown_
      BY <2>0, <2>1, <2>2, <2>3, <2>4
    <2> QED BY <2>5
  <1>6. refreshes' \in Seq(Snapshot) /\ pushes' \in Seq(Snapshot) /\ polls' \in Seq(Snapshot)
    BY <1>4, SeqMonotonic DEF Reads
  <1>7. MetricsTypeOK'
    BY <1>1, <1>4, <1>5, <1>6 DEF MetricsInv, MetricsTypeOK, tableVars, Snapshot, MaxFailures
  <1>8. CountsOrdered'
    BY <1>5 DEF CountsOrdered
  <1> QED BY <1>1, <1>4, <1>7, <1>8 DEF MetricsInv, DeadCovered, Spent, tableVars, MaxFailures


\* The invariant, from the parts that the steps of the overview change.
LEMMA MetricsOf ==
    ASSUME MetricsInv, Reads \subseteq Reads',
           dead' \in 0..MaxDead, failures' \in 0..MaxFailures, lost' \in 0..MaxFailures,
           dying' \in 0..MaxDue, troubles' \in 0..MaxTroubles, linked' \in BOOLEAN,
           DeadCovered', Spent',
           refreshes' \in Seq(Reads), pushes' \in Seq(Reads), polls' \in Seq(Reads),
           Len(refreshes') <= MaxRefreshes, Len(pushes') <= MaxPushes,
           Len(polls') <= MaxPolls,
           cached' = cached, counters' \in {counters, cached}
    PROVE  MetricsInv'
  <1>1. refreshes' \in Seq(Snapshot) /\ pushes' \in Seq(Snapshot) /\ polls' \in Seq(Snapshot)
    BY SeqMonotonic DEF Reads
  <1>2. refreshes' \in Seq(Reads') /\ pushes' \in Seq(Reads') /\ polls' \in Seq(Reads')
    BY SeqMonotonic
  <1>3. {cached', counters'} \subseteq {m \in Snapshot : Complete(m)} /\ CountsOrdered'
    BY DEF MetricsInv, MetricsTypeOK, CountsOrdered
  <1>4. MetricsTypeOK'
    BY <1>1, <1>3 DEF MetricsTypeOK, Snapshot, MaxFailures
  <1> QED BY <1>2, <1>3, <1>4 DEF MetricsInv

\* Tasks die, are recorded and are reprocessed; a query or an INSERT fails.
LEMMA MetricsTroubles ==
    ASSUME MetricsInv,
           \/ Die \/ Record \/ RecordFails \/ Reprocessed
           \/ \E i \in DOMAIN refreshes : RefreshFails(i)
           \/ \E i \in DOMAIN pushes : PushFails(i)
           \/ \E i \in DOMAIN polls : PollLost(i)
           \/ MetricsAttach \/ MetricsDetach
    PROVE  MetricsInv'
  <1>1. /\ dead \in 0..MaxDead /\ failures \in 0..MaxFailures /\ lost \in 0..MaxFailures
        /\ dying \in 0..MaxDue /\ troubles \in 0..MaxTroubles /\ DeadCovered /\ Spent
        /\ MaxDead \in Nat /\ MaxDue \in Nat /\ MaxTroubles \in Nat /\ MaxFailures \in Nat
        /\ refreshes \in Seq(Reads) /\ pushes \in Seq(Reads) /\ polls \in Seq(Reads)
    BY MetricsAssumption, ViewAssumption DEF MetricsInv, MetricsTypeOK, MaxFailures
  <1>2. /\ dead' \in 0..MaxDead /\ failures' \in 0..MaxFailures /\ lost' \in 0..MaxFailures
        /\ dying' \in 0..MaxDue /\ troubles' \in 0..MaxTroubles /\ linked' \in BOOLEAN
        /\ DeadCovered' /\ Spent' /\ failures' >= failures
    <2>1. CASE Die
      BY <1>1, <2>1, TroubleType DEF Die, DeadCovered, Spent, MetricsInv, MaxFailures
    <2>2. CASE Record
      BY <1>1, <2>2 DEF Record, DeadCovered, Spent, MetricsInv, MaxFailures
    <2>3. CASE RecordFails
      BY <1>1, <2>3, TroubleType DEF RecordFails, DeadCovered, Spent, MetricsInv, MaxFailures
    <2>4. CASE Reprocessed
      BY <1>1, <2>4, TroubleType DEF Reprocessed, DeadCovered, Spent, MetricsInv, MaxFailures
    <2>5. CASE \/ \E i \in DOMAIN refreshes : RefreshFails(i)
               \/ \E i \in DOMAIN pushes : PushFails(i)
               \/ \E i \in DOMAIN polls : PollLost(i)
      <3>1. Trouble /\ UNCHANGED <<dead, failures, dying, lost, linked>>
        BY <2>5 DEF RefreshFails, PushFails, PollLost, tableVars
      <3> QED BY <1>1, <3>1, TroubleType DEF DeadCovered, Spent, MetricsInv, MaxFailures
    <2>6. CASE MetricsAttach
      BY <1>1, <2>6 DEF MetricsAttach, Connect, tableVars, DeadCovered, Spent, MaxFailures
    <2>7. CASE MetricsDetach
      <3>1. Trouble /\ linked' = FALSE /\ UNCHANGED <<dead, failures, dying, lost>>
        BY <2>7 DEF MetricsDetach, Disconnect, metricsVars, tableVars
      <3>2. troubles' \in 0..MaxTroubles /\ troubles' = troubles - 1
        BY <1>1, <3>1, TroubleType
      <3>3. linked' \in BOOLEAN
        BY <3>1
      <3> QED BY <1>1, <3>1, <3>2, <3>3 DEF DeadCovered, Spent, MaxFailures
    <2> QED BY <2>1, <2>2, <2>3, <2>4, <2>5, <2>6, <2>7
  <1>3. Reads \subseteq Reads'
    <2> SUFFICES ASSUME NEW m \in Reads PROVE m \in Snapshot /\ Ordered(m)'
      BY DEF Reads, Snapshot, MaxFailures
    <2>1. m \in Snapshot /\ Ordered(m) /\ m.dead \in -1..MaxDead /\ m.owed \in 0..MaxFailures
      BY DEF Reads, Snapshot
    <2>2. CASE m.dead = Unread
      BY <2>1, <2>2 DEF Ordered
    <2>3. CASE m.dead # Unread /\ m.failed # Unread
      BY <2>1, <2>3 DEF Ordered
    <2>4. CASE m.dead # Unread /\ m.failed = Unread
      <3>1. m.dead <= failures + m.owed /\ m.dead \in Int /\ m.owed \in Int
        BY <1>1, <2>1, <2>4 DEF Ordered
      <3>2. m.dead <= failures' + m.owed
        BY <1>1, <1>2, <3>1
      <3> QED BY <2>1, <2>4, <3>2 DEF Ordered
    <2> QED BY <2>1, <2>2, <2>3, <2>4
  <1> DEFINE Bounded == /\ refreshes' \in Seq(Reads) /\ Len(refreshes') <= MaxRefreshes
                        /\ pushes' \in Seq(Reads) /\ Len(pushes') <= MaxPushes
                        /\ polls' \in Seq(Reads) /\ Len(polls') <= MaxPolls
  <1>4. Bounded
    <2>0. /\ Len(refreshes) <= MaxRefreshes /\ Len(pushes) <= MaxPushes
          /\ Len(polls) <= MaxPolls
          /\ MaxRefreshes \in Nat /\ MaxPushes \in Nat /\ MaxPolls \in Nat
          /\ Len(refreshes) \in Nat /\ Len(pushes) \in Nat /\ Len(polls) \in Nat
      BY <1>1, LenProperties, MetricsAssumption, ViewAssumption DEF MetricsInv, MetricsTypeOK
    <2>1. ASSUME NEW i \in DOMAIN refreshes, RefreshFails(i) PROVE Bounded
      BY <1>1, <2>0, <2>1, RemoveAtSeq DEF RefreshFails
    <2>2. ASSUME NEW i \in DOMAIN polls, PollLost(i) PROVE Bounded
      BY <1>1, <2>0, <2>2, RemoveAtSeq DEF PollLost
    <2>3. ASSUME NEW i \in DOMAIN pushes, PushFails(i) PROVE Bounded
      BY <1>1, <2>0, <2>3, RemoveAtSeq DEF PushFails
    <2>4. \/ UNCHANGED <<refreshes, pushes, polls>>
          \/ \E i \in DOMAIN refreshes : RefreshFails(i)
          \/ \E i \in DOMAIN pushes : PushFails(i)
          \/ \E i \in DOMAIN polls : PollLost(i)
      BY DEF Die, Record, RecordFails, Reprocessed, MetricsAttach, MetricsDetach, metricsVars
    <2> QED BY <1>1, <2>0, <2>1, <2>2, <2>3, <2>4
  <1>5. cached' = cached /\ counters' \in {counters, cached}
    BY DEF Die, Record, RecordFails, Reprocessed, RefreshFails, PushFails, PollLost,
       MetricsAttach, MetricsDetach, metricsVars
  <1> QED BY <1>2, <1>3, <1>4, <1>5, MetricsOf


\* A restart forgets calls and the cache; what was due is lost.
LEMMA MetricsRestarts ==
    ASSUME MetricsInv, MetricsRestart
    PROVE  MetricsInv'
  <1>1. /\ dead \in 0..MaxDead /\ failures \in 0..MaxFailures /\ lost \in 0..MaxFailures
        /\ dying \in 0..MaxDue /\ troubles \in 0..MaxTroubles /\ DeadCovered /\ Spent
        /\ MaxDead \in Nat /\ MaxDue \in Nat /\ MaxTroubles \in Nat /\ MaxFailures \in Nat
    BY MetricsAssumption, ViewAssumption DEF MetricsInv, MetricsTypeOK, MaxFailures
  <1>2. /\ Trouble /\ dying' = 0 /\ lost' = lost + dying /\ linked' = FALSE
        /\ dead' = dead /\ failures' = failures /\ polls' = polls /\ counters' = counters
        /\ refreshes' = <<>> /\ pushes' = <<>> /\ cached' = Empty
    BY DEF MetricsRestart
  <1>3. /\ troubles' \in 0..MaxTroubles /\ lost' \in 0..MaxFailures
        /\ DeadCovered' /\ Spent'
    BY <1>1, <1>2, TroubleType DEF DeadCovered, Spent, MaxFailures
  <1>4. /\ Empty \in Snapshot /\ Complete(Empty)
        /\ Empty.dead <= Empty.failed + Empty.owed
    BY <1>1 DEF Empty, Snapshot, Complete, Unread
  <1>5. /\ <<>> \in Seq(Snapshot) /\ <<>> \in Seq(Reads) /\ Len(<<>>) = 0
    BY EmptySeq
  <1>6. MetricsTypeOK'
    BY <1>1, <1>2, <1>3, <1>4, <1>5, MetricsAssumption, ViewAssumption
       DEF MetricsInv, MetricsTypeOK, Snapshot, MaxFailures
  <1>7. CountsOrdered'
    BY <1>2, <1>4 DEF MetricsInv, CountsOrdered
  <1> QED BY <1>2, <1>3, <1>5, <1>6, <1>7, ReadsKept DEF MetricsInv

\* A reset empties both tables between two statements of a call: what the first
\* has counted is owed from then on.
LEMMA Owed ==
    ASSUME MetricsInv, failures' = 0, NEW m \in Reads
    PROVE  Unowed(m) \in Reads'
  <1>1. /\ m \in Snapshot /\ Ordered(m) /\ m.dead \in -1..MaxDead
        /\ m.failed \in -1..MaxFailures /\ m.owed \in 0..MaxFailures
        /\ MaxDead \in Nat /\ MaxTroubles \in Nat /\ MaxFailures = MaxDead + MaxTroubles
    BY MetricsAssumption, ViewAssumption DEF Reads, Snapshot, MaxFailures
  <1>2. CASE m.dead = Unread
    BY <1>1, <1>2 DEF Unowed, Reads, Ordered, Snapshot, MaxFailures
  <1>3. CASE m.dead # Unread
    <2>1. Unowed(m) = [dead |-> m.dead, failed |-> m.failed, owed |-> m.dead]
      BY <1>1, <1>3 DEF Unowed, Snapshot
    <2>2. Unowed(m) \in Snapshot
      BY <1>1, <1>3, <2>1 DEF Snapshot, Unread
    <2>3. Ordered(Unowed(m))'
      BY <1>1, <1>3, <2>1 DEF Ordered, Unread
    <2> QED BY <2>2, <2>3 DEF Reads, Snapshot, MaxFailures
  <1> QED BY <1>2, <1>3

LEMMA MetricsResets ==
    ASSUME MetricsInv, MetricsReset
    PROVE  MetricsInv'
  <1>1. /\ dying \in 0..MaxDue /\ troubles \in 0..MaxTroubles /\ Spent
        /\ failures \in 0..MaxFailures /\ lost \in 0..MaxFailures
        /\ MaxDead \in Nat /\ MaxTroubles \in Nat /\ MaxFailures \in Nat /\ MaxDue \in Nat
    BY MetricsAssumption, ViewAssumption DEF MetricsInv, MetricsTypeOK, MaxFailures
  <1>2. /\ Trouble /\ dead' = 0 /\ failures' = 0 /\ lost' = 0 /\ dying' = dying
        /\ cached' = cached /\ counters' = counters /\ linked' = linked
        /\ refreshes' = [i \in DOMAIN refreshes |-> Unowed(refreshes[i])]
        /\ pushes' = [i \in DOMAIN pushes |-> Unowed(pushes[i])]
        /\ polls' = [i \in DOMAIN polls |-> Unowed(polls[i])]
    BY DEF MetricsReset
  <1>3. troubles' \in 0..MaxTroubles /\ DeadCovered' /\ Spent'
    BY <1>1, <1>2, TroubleType DEF DeadCovered, Spent, MaxFailures
  <1>4. ASSUME NEW s \in Seq(Reads)
        PROVE  LET u == [i \in DOMAIN s |-> Unowed(s[i])]
               IN  u \in Seq(Reads') /\ u \in Seq(Snapshot') /\ Len(u) = Len(s)
    <2> DEFINE u == [i \in DOMAIN s |-> Unowed(s[i])]
    <2>1. Len(s) \in Nat /\ DOMAIN s = 1..Len(s) /\ \A i \in 1..Len(s) : s[i] \in Reads
      BY LenProperties, ElementOfSeq
    <2>2. \A i \in 1..Len(s) : Unowed(s[i]) \in Reads'
      BY <1>2, <2>1, Owed
    <2>3. u \in [1..Len(s) -> Reads']
      BY <2>1, <2>2
    <2>4. u \in Seq(Reads') /\ Len(u) = Len(s)
      BY <2>1, <2>3, SeqDef
    <2> QED BY <2>4, SeqMonotonic DEF Reads
  <1>5. /\ refreshes' \in Seq(Reads') /\ pushes' \in Seq(Reads') /\ polls' \in Seq(Reads')
        /\ refreshes' \in Seq(Snapshot') /\ pushes' \in Seq(Snapshot')
        /\ polls' \in Seq(Snapshot') /\ Len(refreshes') = Len(refreshes)
        /\ Len(pushes') = Len(pushes) /\ Len(polls') = Len(polls)
    BY <1>2, <1>4 DEF MetricsInv
  <1>6. MetricsTypeOK'
    BY <1>1, <1>2, <1>3, <1>5 DEF MetricsInv, MetricsTypeOK, Snapshot, MaxFailures
  <1>7. CountsOrdered'
    BY <1>2 DEF MetricsInv, CountsOrdered
  <1> QED BY <1>2, <1>3, <1>5, <1>6, <1>7 DEF MetricsInv

LEMMA MetricsStep == MetricsInv /\ MetricsNext => MetricsInv'
  BY MetricsCalls, MetricsTroubles, MetricsRestarts, MetricsResets DEF MetricsNext


-----------------------------------------------------------------------------
(* The DLQ page.                                                            *)

\* The ids of a press are a sequence of tasks.
LEMMA IdsType ==
    ASSUME NEW S \in SUBSET Tasks, NEW ids \in SetToSeqs(S)
    PROVE  ids \in Seq(Tasks)
  <1>1. Cardinality(S) \in Nat
    BY TasksAssumption, FS_Subset, FS_CardinalityType
  <1>2. ids \in [1..Cardinality(S) -> S]
    BY DEF SetToSeqs
  <1>3. ids \in [1..Cardinality(S) -> Tasks]
    BY <1>2
  <1> QED BY <1>1, <1>3, SeqDef

\* A press starts with all it was given left.
LEMMA ReprocessInv ==
    ASSUME DlqInv, NEW ids \in Seq(Tasks), Reprocess(ids)
    PROVE  DlqInv'
  <1>1. ToSet(ids) \subseteq Tasks
    BY ElementOfSeq, LenProperties DEF ToSet
  <1> QED BY <1>1 DEF DlqInv, DlqTypeOK, Reprocess, Undone, Rows, Change, Busy

\* A statement that changes a row leaves its announcement to be sent.
LEMMA Announced ==
    ASSUME DlqInv, NEW t \in Tasks, NEW status \in {"alive", "dead_letter"}, Becomes(t, status)
    PROVE  due' \in Seq(Change) /\ Len(due') <= MaxDue
  <1>1. /\ due \in Seq(Change) /\ Len(due) \in Nat /\ Len(due) < MaxDue /\ MaxDue \in Nat
        /\ [task |-> t, status |-> status] \in Change
        /\ due' = Append(due, [task |-> t, status |-> status])
    BY LenProperties, ViewAssumption DEF DlqInv, DlqTypeOK, Becomes, Change
  <1> QED BY <1>1, AppendProperties

LEMMA ServeRetryInv ==
    ASSUME DlqInv, ServeRetry
    PROVE  DlqInv'
  <1> DEFINE t == Head(todo)
  <1>1. /\ todo \in Seq(Tasks) /\ todo # <<>> /\ t \in Tasks /\ todo' = todo
        /\ left \subseteq ToSet(todo)
    BY HeadTailProperties DEF DlqInv, DlqTypeOK, ServeRetry, Undone
  <1>2. UNCHANGED <<saved, listed, selected, error, linked, troubles>>
    BY DEF ServeRetry
  <1>3. CASE call' = "refused" /\ UNCHANGED <<task, due, left>>
    BY <1>1, <1>2, <1>3 DEF DlqInv, DlqTypeOK, Undone, Rows, Change
  <1>4. CASE Becomes(t, "alive") /\ left' = left \ {t} /\ call' = "done"
    <2>1. task' \in Rows
      BY <1>1, <1>4 DEF Becomes, DlqInv, DlqTypeOK, Rows
    <2>2. due' \in Seq(Change) /\ Len(due') <= MaxDue
      BY <1>1, <1>4, Announced
    <2>3. left' \subseteq ToSet(Tail(todo)) /\ left' \subseteq Tasks
      BY <1>1, <1>4, ToSetTail DEF DlqInv, DlqTypeOK
    <2> QED BY <1>1, <1>2, <1>4, <2>1, <2>2, <2>3 DEF DlqInv, DlqTypeOK, Undone, Rows, Change
  <1> QED BY <1>3, <1>4 DEF ServeRetry

\* The answer ends the press or sends what is left.
LEMMA AnswerInv ==
    ASSUME DlqInv, AnswerRetry
    PROVE  DlqInv'
  <1>1. /\ todo \in Seq(Tasks) /\ todo # <<>> /\ call \in {"done", "refused"}
        /\ Len(todo) \in Nat \ {0} /\ Tail(todo) \in Seq(Tasks) /\ Len(Tail(todo)) = Len(todo) - 1
        /\ UNCHANGED <<task, due, saved, listed, left, linked, troubles>>
    BY HeadTailProperties, EmptySeq DEF DlqInv, DlqTypeOK, AnswerRetry
  <1>2. CASE call = "refused"
    <2>1. GaveUp
      BY <1>2 DEF AnswerRetry, Answer
    <2> QED BY <1>1, <2>1, EmptySeq DEF DlqInv, DlqTypeOK, Undone, GaveUp, Rows, Change
  <1>3. CASE call = "done" /\ Len(todo) > 1
    <2>1. SentNext
      BY <1>1, <1>3 DEF AnswerRetry, Answer
    <2>2. Tail(todo) # <<>>
      <3>1. Len(Tail(todo)) # 0 /\ Len(<<>>) = 0
        BY <1>1, <1>3
      <3> QED BY <3>1
    <2> QED BY <1>1, <1>3, <2>1, <2>2 DEF DlqInv, DlqTypeOK, Undone, SentNext, Rows, Change
  <1>4. CASE call = "done" /\ Len(todo) = 1
    <2>1. SentAll
      BY <1>4 DEF AnswerRetry, Answer
    <2>2. ToSet(Tail(todo)) = {}
      <3>1. DOMAIN Tail(todo) = 1..Len(Tail(todo)) /\ Len(Tail(todo)) = 0
        BY <1>1, <1>4, LenProperties
      <3>2. 1..0 = {}
        OBVIOUS
      <3>3. DOMAIN Tail(todo) = {}
        BY <3>1, <3>2, Zenon
      <3> QED BY <3>3 DEF ToSet
    <2> QED BY <1>1, <1>4, <2>1, <2>2, EmptySeq
         DEF DlqInv, DlqTypeOK, Undone, SentAll, Rows, Change
  <1> QED BY <1>1, <1>2, <1>3, <1>4

\* Rows change and are announced; the press does not move.
LEMMA RowsInv ==
    ASSUME DlqInv, UNCHANGED <<selected, error, todo, call, left>>,
           task' \in Rows, saved' \in Rows, listed' \in Rows,
           due' \in Seq(Change), Len(due') <= MaxDue,
           linked' \in BOOLEAN, troubles' \in 0..MaxTroubles
    PROVE  DlqInv'
  BY DEF DlqInv, DlqTypeOK, Undone, Rows, Change

LEMMA DlqStep == DlqInv /\ DlqNext => DlqInv'
  <1> SUFFICES ASSUME DlqInv, DlqNext PROVE DlqInv'
    OBVIOUS
  <1>1. /\ task \in Rows /\ saved \in Rows /\ listed \in Rows /\ due \in Seq(Change)
        /\ Len(due) <= MaxDue /\ Len(due) \in Nat /\ MaxDue \in Nat
        /\ linked \in BOOLEAN /\ troubles \in 0..MaxTroubles /\ <<>> \in Seq(Change)
        /\ Len(<<>>) = 0 /\ NoTasks \in Rows
    BY LenProperties, EmptySeq, ViewAssumption DEF DlqInv, DlqTypeOK, NoTasks, Rows
  <1>2. ASSUME NEW t \in Tasks, Exhaust(t) \/ RetryElsewhere(t) PROVE DlqInv'
    <2>1. \E status \in {"alive", "dead_letter"} : Becomes(t, status)
      BY <1>2 DEF Exhaust, RetryElsewhere
    <2>2. due' \in Seq(Change) /\ Len(due') <= MaxDue
      BY <2>1, Announced
    <2>3. task' \in Rows
      BY <1>1, <2>1 DEF Becomes, Rows
    <2>4. /\ UNCHANGED <<saved, listed, selected, error, todo, call, left, linked>> /\ Trouble
      BY <1>2 DEF Exhaust, RetryElsewhere
    <2> QED BY <1>1, <2>2, <2>3, <2>4, RowsInv, TroubleType
  <1>3. ASSUME NEW t \in Tasks, Toggle(t) PROVE DlqInv'
    <2>1. selected' \in SUBSET Tasks
      BY <1>3 DEF Toggle, DlqInv, DlqTypeOK
    <2> QED BY <1>3, <2>1 DEF DlqInv, DlqTypeOK, Undone, Toggle, Rows, Change
  <1>4. ASSUME NEW i \in DOMAIN due, Announce(i) PROVE DlqInv'
    <2>1. due[i] \in Change
      BY <1>1, ElementOfSeq, LenProperties
    <2>2. listed' \in Rows
      BY <1>1, <1>4, <2>1 DEF Announce, Rows, Change
    <2>3. due' \in Seq(Change) /\ Len(due') <= MaxDue
      BY <1>1, <1>4, RemoveAtSeq DEF Announce
    <2> QED BY <1>1, <1>4, <2>2, <2>3, RowsInv DEF Announce
  <1>5. CASE SaveTasks
    BY <1>1, <1>5, RowsInv DEF SaveTasks
  <1>6. CASE PollTasks
    BY <1>1, <1>6, RowsInv DEF PollTasks
  <1>7. CASE DlqAttach
    BY <1>1, <1>7, RowsInv DEF DlqAttach, Connect
  <1>8. CASE DlqDetach
    BY <1>1, <1>8, RowsInv, TroubleType DEF DlqDetach, Disconnect, dlqVars
  <1>9. CASE DlqRestart
    <2>1. troubles' \in 0..MaxTroubles
      BY <1>1, <1>9, TroubleType DEF DlqRestart
    <2>2. /\ due' = <<>> /\ saved' = NoTasks /\ linked' = FALSE
          /\ UNCHANGED <<task, listed, selected, error, todo, left>>
          /\ call' = (IF call = "asked" THEN "refused" ELSE call)
      BY <1>9 DEF DlqRestart
    <2>3. Undone'
      BY <2>2 DEF Undone, DlqInv
    <2>4. DlqTypeOK'
      BY <1>1, <2>2 DEF DlqInv, DlqTypeOK, Rows, Change
    <2> QED BY <1>1, <2>1, <2>2, <2>3, <2>4 DEF DlqInv
  <1>10. CASE DlqReset
    BY <1>1, <1>10, RowsInv, TroubleType DEF DlqReset
  <1>11. CASE SelectAll
    <2>1. selected' \in SUBSET Tasks
      BY <1>11 DEF SelectAll, DlqTasks
    <2> QED BY <1>11, <2>1 DEF DlqInv, DlqTypeOK, Undone, SelectAll, Rows, Change
  <1>12. ASSUME NEW ids \in SetToSeqs(selected), Reprocess(ids) PROVE DlqInv'
    <2>1. ids \in Seq(Tasks)
      BY IdsType DEF DlqInv, DlqTypeOK
    <2> QED BY <1>12, <2>1, ReprocessInv
  <1>13. ASSUME NEW t \in DlqTasks, Reprocess(<<t>>) PROVE DlqInv'
    <2>1. <<t>> \in Seq(Tasks)
      BY DEF DlqTasks
    <2> QED BY <1>13, <2>1, ReprocessInv
  <1>14. CASE RetryUnanswered
    <2>1. troubles' \in 0..MaxTroubles
      BY <1>1, <1>14, TroubleType DEF RetryUnanswered
    <2> QED BY <1>14, <2>1 DEF RetryUnanswered, DlqInv, DlqTypeOK, Undone, Rows, Change
  <1> QED BY <1>2, <1>3, <1>4, <1>5, <1>6, <1>7, <1>8, <1>9, <1>10, <1>11, <1>12, <1>13,
             <1>14, ServeRetryInv, AnswerInv DEF DlqNext


-----------------------------------------------------------------------------
(* The Workers page.                                                        *)

\* Rows and lists keep their types; so does what the page itself keeps.
LEMMA FleetOf ==
    ASSUME FleetInv,
           worker' \in Fleet, kept' \in Fleet, roster' \in Fleet,
           telling' \in Seq(Status), Len(telling') <= MaxDue,
           lists' \in Seq(Fleet), Len(lists') <= MaxCalls,
           clearing' \in {"none", "asked", "done"},
           seen' \in SUBSET Workers, removed' \in SUBSET Workers, timers' \in 0..MaxCalls,
           clearing' # "none" => timers' < MaxCalls,
           linked' \in BOOLEAN, troubles' \in 0..MaxTroubles
    PROVE  FleetInv'
  BY DEF FleetInv, Room, WorkersTypeOK, Fleet, Status

LEMMA ToldType ==
    ASSUME FleetInv, NEW w \in Workers, NEW status \in {"online", "offline"}, Turns(w, status)
    PROVE  worker' \in Fleet /\ telling' \in Seq(Status) /\ Len(telling') <= MaxDue
  <1>1. /\ telling \in Seq(Status) /\ Len(telling) \in Nat /\ Len(telling) < MaxDue
        /\ MaxDue \in Nat /\ [worker |-> w, status |-> status] \in Status
        /\ telling' = Append(telling, [worker |-> w, status |-> status])
    BY LenProperties, ViewAssumption DEF FleetInv, WorkersTypeOK, Turns, Status
  <1>2. worker' \in Fleet
    BY DEF FleetInv, WorkersTypeOK, Turns, Fleet
  <1> QED BY <1>1, <1>2, AppendProperties

LEMMA FleetStep == FleetInv /\ WorkersNext => FleetInv'
  <1> SUFFICES ASSUME FleetInv, WorkersNext PROVE FleetInv'
    OBVIOUS
  <1>1. /\ worker \in Fleet /\ kept \in Fleet /\ roster \in Fleet /\ NoWorkers \in Fleet
        /\ telling \in Seq(Status) /\ Len(telling) \in Nat /\ Len(telling) <= MaxDue
        /\ lists \in Seq(Fleet) /\ Len(lists) \in Nat /\ Len(lists) <= MaxCalls
        /\ clearing \in {"none", "asked", "done"} /\ timers \in 0..MaxCalls
        /\ seen \in SUBSET Workers /\ removed \in SUBSET Workers
        /\ clearing # "none" => timers < MaxCalls
        /\ linked \in BOOLEAN /\ troubles \in 0..MaxTroubles
        /\ MaxDue \in Nat /\ MaxCalls \in Nat
        /\ <<>> \in Seq(Status) /\ <<>> \in Seq(Fleet) /\ Len(<<>>) = 0
    BY LenProperties, EmptySeq, ViewAssumption DEF FleetInv, Room, WorkersTypeOK, NoWorkers, Fleet
  <1>2. ASSUME NEW w \in Workers, NEW status \in {"online", "offline"}
        PROVE  Shown(w, status) \in Fleet
    BY <1>1 DEF Shown, Fleet
  <1>3. ASSUME NEW w \in Workers, TimeOut(w) \/ Register(w) PROVE FleetInv'
    <2>1. /\ Trouble /\ UNCHANGED <<lists, kept, roster, pageOfFleet, linked>>
          /\ \E status \in {"online", "offline"} : Turns(w, status)
      BY <1>3 DEF TimeOut, Register
    <2> QED BY <1>1, <2>1, ToldType, TroubleType, FleetOf DEF pageOfFleet
  <1>4. ASSUME NEW w \in Workers, ShutDown(w) PROVE FleetInv'
    <2>1. worker' \in Fleet
      BY <1>1, <1>4 DEF ShutDown, Fleet
    <2> QED BY <1>1, <1>4, <2>1, TroubleType, FleetOf DEF ShutDown, pageOfFleet
  <1>5. ASSUME NEW w \in Workers, Heartbeat(w) PROVE FleetInv'
    BY <1>1, <1>2, <1>5, FleetOf DEF Heartbeat, pageOfFleet
  <1>6. ASSUME NEW i \in DOMAIN telling, Tell(i) \/ TellFails(i) PROVE FleetInv'
    <2>1. telling[i] \in Status
      BY <1>1, ElementOfSeq, LenProperties
    <2>2. telling' \in Seq(Status) /\ Len(telling') <= MaxDue
      BY <1>1, <1>6, RemoveAtSeq DEF Tell, TellFails
    <2>3. roster' \in Fleet /\ troubles' \in 0..MaxTroubles
      BY <1>1, <1>2, <1>6, <2>1, TroubleType DEF Tell, TellFails, Status
    <2>4. UNCHANGED <<worker, lists, kept, pageOfFleet, linked>>
      BY <1>6 DEF Tell, TellFails
    <2> QED BY <1>1, <2>2, <2>3, <2>4, FleetOf DEF pageOfFleet
  <1>7. CASE ListWorkers
    <2>1. lists' \in Seq(Fleet) /\ Len(lists') <= MaxCalls
      BY <1>1, <1>7, AppendProperties DEF ListWorkers
    <2> QED BY <1>1, <1>7, <2>1, FleetOf DEF ListWorkers, pageOfFleet
  <1>8. ASSUME NEW i \in DOMAIN lists, KeepWorkers(i) PROVE FleetInv'
    <2>1. lists[i] \in Fleet
      BY <1>1, ElementOfSeq, LenProperties
    <2>2. lists' \in Seq(Fleet) /\ Len(lists') <= MaxCalls
      BY <1>1, <1>8, RemoveAtSeq DEF KeepWorkers
    <2> QED BY <1>1, <1>8, <2>1, <2>2, FleetOf DEF KeepWorkers, pageOfFleet
  <1>9. CASE WorkersAttach
    BY <1>1, <1>9, FleetOf DEF WorkersAttach, Connect, pageOfFleet
  <1>10. CASE WorkersDetach
    <2>1. Trouble /\ linked' = FALSE /\ UNCHANGED fleetVars
      BY <1>10 DEF WorkersDetach, Disconnect
    <2> QED BY <1>1, <2>1, TroubleType, FleetOf DEF fleetVars
  <1>11. CASE WorkersRestart
    <2>1. /\ Trouble /\ telling' = <<>> /\ lists' = <<>> /\ kept' = NoWorkers /\ linked' = FALSE
          /\ clearing' \in {"none", clearing} /\ UNCHANGED <<worker, roster, seen, removed, timers>>
      BY <1>11 DEF WorkersRestart
    <2>2. troubles' \in 0..MaxTroubles
      BY <1>1, <2>1, TroubleType
    <2>3. /\ clearing' \in {"none", "asked", "done"} /\ linked' \in BOOLEAN
          /\ clearing' # "none" => clearing # "none"
      BY <1>1, <2>1
    <2> QED BY <1>1, <2>1, <2>2, <2>3, FleetOf
  <1>12. CASE WorkersReset
    <2>1. worker' \in Fleet
      BY <1>1, <1>12 DEF WorkersReset, Fleet
    <2> QED BY <1>1, <1>12, <2>1, TroubleType, FleetOf DEF WorkersReset, pageOfFleet
  <1>13. CASE ClearOffline
    BY <1>1, <1>13, FleetOf DEF ClearOffline, Offline
  <1>14. CASE ServeClear
    <2>1. worker' \in Fleet
      BY <1>1, <1>14 DEF ServeClear, Fleet
    <2> QED BY <1>1, <1>14, <2>1, FleetOf DEF ServeClear
  <1>15. CASE AnswerClear
    <2>1. /\ clearing = "done" /\ clearing' = "none" /\ timers' = timers + 1
          /\ removed' = removed \cup seen
          /\ UNCHANGED <<worker, telling, lists, kept, roster, seen, linked, troubles>>
      BY <1>15 DEF AnswerClear
    <2>2. timers' \in 0..MaxCalls
      BY <1>1, <2>1
    <2> QED BY <1>1, <2>1, <2>2, FleetOf
  <1>16. CASE TimerFires
    BY <1>1, <1>16, FleetOf DEF TimerFires
  <1>17. CASE AnswerClearFails
    BY <1>1, <1>17, TroubleType, FleetOf DEF AnswerClearFails
  <1> QED BY <1>3, <1>4, <1>5, <1>6, <1>7, <1>8, <1>9, <1>10, <1>11, <1>12, <1>13, <1>14,
             <1>15, <1>16, <1>17 DEF WorkersNext, TellNext, RefreshWorkers

-----------------------------------------------------------------------------

LEMMA InitInv == Init => IInv
  <1> SUFFICES ASSUME Init PROVE IInv
    OBVIOUS
  <1>1. troubles \in 0..MaxTroubles /\ linked \in BOOLEAN /\ page \in {"overview", "dlq", "workers"}
    BY ViewAssumption DEF Init
  <1>2. MetricsInv
    <2>1. /\ dead \in 0..MaxDead /\ failures = dead /\ dying = 0 /\ lost = 0
          /\ refreshes = <<>> /\ pushes = <<>> /\ polls = <<>> /\ troubles = MaxTroubles
          /\ cached = [dead |-> dead, failed |-> dead, owed |-> 0] /\ counters = cached
      BY DEF Init, MetricsInit
    <2>2. /\ MaxDead \in Nat /\ MaxTroubles \in Nat /\ MaxDue \in Nat /\ MaxCalls \in Nat
          /\ MaxRefreshes \in Nat /\ MaxPushes \in Nat /\ MaxPolls \in Nat /\ MaxFailures \in Nat /\ dead \in 0..MaxFailures
          /\ <<>> \in Seq(Snapshot) /\ <<>> \in Seq(Reads) /\ Len(<<>>) = 0
      BY <2>1, EmptySeq, MetricsAssumption, ViewAssumption DEF MaxFailures
    <2>3. cached \in Snapshot /\ Complete(cached)
      BY <2>1, <2>2 DEF Snapshot, Complete, Unread
    <2>4. MetricsTypeOK
      BY <2>1, <2>2, <2>3 DEF MetricsTypeOK
    <2>5. DeadCovered /\ Spent /\ CountsOrdered
      BY <2>1, <2>2 DEF DeadCovered, Spent, CountsOrdered, MaxFailures
    <2> QED BY <1>1, <2>1, <2>2, <2>4, <2>5 DEF MetricsInv
  <1>3. DlqInv
    <2>1. task \in [Tasks -> {"alive", "dead_letter"}] /\ task \in Rows
      BY DEF Init, DlqInit, Rows
    <2>2. <<>> \in Seq(Change) /\ <<>> \in Seq(Tasks) /\ Len(<<>>) = 0 /\ MaxDue \in Nat
      BY EmptySeq, ViewAssumption
    <2>3. /\ due = <<>> /\ saved = task /\ listed = task /\ selected = {} /\ error = FALSE
          /\ todo = <<>> /\ call = "none" /\ left = {}
      BY DEF Init, DlqInit
    <2>4. DlqTypeOK
      <3>1. {task, saved, listed} \subseteq Rows
        BY <2>1, <2>3
      <3>2. due \in Seq(Change) /\ Len(due) <= MaxDue /\ todo \in Seq(Tasks)
        BY <2>2, <2>3
      <3>3. {selected, left} \subseteq SUBSET Tasks /\ error \in BOOLEAN
        BY <2>3
      <3> QED BY <2>3, <3>1, <3>2, <3>3 DEF DlqTypeOK
    <2> QED BY <1>1, <2>3, <2>4 DEF DlqInv, Undone
  <1>4. FleetInv
    <2>1. worker \in Fleet
      BY DEF Init, WorkersInit, Fleet
    <2> QED BY <1>1, <2>1, EmptySeq, ViewAssumption DEF Init, WorkersInit, FleetInv, Room, WorkersTypeOK
  <1> QED BY <1>1, <1>2, <1>3, <1>4 DEF IInv

\* No step brings troubles back.
LEMMA DlqTroubles == DlqInv /\ DlqNext => troubles' <= troubles
  <1> SUFFICES ASSUME DlqInv, DlqNext PROVE troubles' <= troubles
    OBVIOUS
  <1>1. Trouble \/ troubles' = troubles
    BY DEF DlqNext, Exhaust, RetryElsewhere, Toggle, Announce, SaveTasks, PollTasks, DlqAttach,
       DlqDetach, DlqRestart, DlqReset, SelectAll, Reprocess, ServeRetry, RetryUnanswered,
       AnswerRetry
  <1> QED BY <1>1, TroubleType DEF DlqInv

LEMMA FleetTroubles == FleetInv /\ WorkersNext => troubles' <= troubles
  <1> SUFFICES ASSUME FleetInv, WorkersNext PROVE troubles' <= troubles
    OBVIOUS
  <1>1. Trouble \/ troubles' = troubles
    BY DEF WorkersNext, TimeOut, Register, ShutDown, Heartbeat, TellNext, Tell, TellFails,
       RefreshWorkers, ListWorkers, KeepWorkers, WorkersAttach, WorkersDetach, WorkersRestart,
       WorkersReset, ClearOffline, ServeClear, AnswerClear, AnswerClearFails,
       TimerFires
  <1> QED BY <1>1, TroubleType DEF FleetInv

\* A page that is not open keeps its invariant.
LEMMA Idle ==
    ASSUME troubles' \in 0..MaxTroubles, linked' \in BOOLEAN, IInv
    PROVE  /\ UNCHANGED metricsVars /\ troubles' <= troubles => MetricsInv'
           /\ UNCHANGED dlqVars => DlqInv'
           /\ UNCHANGED fleetVars => FleetInv'
  <1>1. ASSUME UNCHANGED metricsVars, troubles' <= troubles PROVE MetricsInv'
    <2>1. /\ UNCHANGED <<dead, failures, dying, lost, refreshes, pushes, polls, cached, counters>>
          /\ Reads' = Reads
      BY <1>1, ReadsKept DEF metricsVars, tableVars
    <2>2. MetricsTypeOK' /\ DeadCovered' /\ CountsOrdered'
      BY <2>1 DEF IInv, MetricsInv, MetricsTypeOK, DeadCovered, CountsOrdered, Snapshot, MaxFailures
    <2>3. Spent'
      <3>1. /\ failures \in Nat /\ dying \in Nat /\ lost \in Nat /\ MaxFailures \in Nat
            /\ troubles \in Nat /\ troubles' \in Nat
        BY MetricsAssumption, ViewAssumption DEF IInv, MetricsInv, MetricsTypeOK, MaxFailures
      <3> QED BY <1>1, <2>1, <3>1 DEF IInv, MetricsInv, Spent, MaxFailures
    <2> QED BY <2>1, <2>2, <2>3 DEF IInv, MetricsInv
  <1>2. ASSUME UNCHANGED dlqVars PROVE DlqInv'
    BY <1>2 DEF dlqVars, IInv, DlqInv, DlqTypeOK, Undone, Rows, Change
  <1>3. ASSUME UNCHANGED fleetVars PROVE FleetInv'
    BY <1>3 DEF fleetVars, IInv, FleetInv, Room, WorkersTypeOK, Fleet, Status
  <1> QED BY <1>1, <1>2, <1>3

\* Whoever moves, the troubles that are left and the socket keep their types for
\* the pages that do not.
LEMMA NextInv == IInv /\ [Next]_vars => IInv'
  <1> SUFFICES ASSUME IInv, [Next]_vars PROVE IInv'
    OBVIOUS
  <1>1. CASE UNCHANGED vars
    <2>1. troubles' = troubles /\ troubles' <= troubles
      BY <1>1 DEF vars, IInv, DlqInv
    <2> QED BY <1>1, <2>1, Idle DEF vars, IInv, DlqInv
  <1>2. CASE page = "overview" /\ MetricsNext /\ UNCHANGED <<page, dlqVars, fleetVars>>
    BY <1>2, MetricsStep, Idle DEF IInv, MetricsInv
  <1>3. CASE page = "dlq" /\ DlqNext /\ UNCHANGED <<page, metricsVars, fleetVars>>
    BY <1>3, DlqStep, DlqTroubles, Idle DEF IInv, DlqInv
  <1>4. CASE page = "workers" /\ WorkersNext /\ UNCHANGED <<page, metricsVars, dlqVars>>
    BY <1>4, FleetStep, FleetTroubles, Idle DEF IInv, FleetInv
  <1> QED BY <1>1, <1>2, <1>3, <1>4 DEF Next

\* What the pages keep, whichever is open.
THEOREM Invariance == Spec => []IInv
  BY InitInv, NextInv, PTL DEF Spec

\* Rows, calls, messages and what the pages keep have their types.
THEOREM TypeCorrect == Spec => []TypeOK
  <1>1. IInv => TypeOK
    BY DEF IInv, MetricsInv, DlqInv, FleetInv, TypeOK
  <1> QED BY <1>1, Invariance, PTL

\* metrics.ts:43-107: a snapshot of the counters never shows more dead letters
\* than failures, but for those whose event was not on record when it was taken.
THEOREM CountsAreOrdered == Spec => []CountsOrdered
  <1>1. IInv => CountsOrdered
    BY DEF IInv, MetricsInv
  <1> QED BY <1>1, Invariance, PTL

\* DlqPage.tsx:29-43: a press without an error has reprocessed all it was given.
THEOREM BulkIsDone == Spec => []BulkIsWhole
  <1>1. IInv => BulkIsWhole
    BY DEF IInv, DlqInv, Undone, BulkIsWhole, Busy
  <1> QED BY <1>1, Invariance, PTL

=============================================================================
