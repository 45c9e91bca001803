--------------------------- MODULE LiveFeedProofs ----------------------------
(***************************************************************************)
(* What the live feed keeps for any number of tasks, changes, events,      *)
(* disconnections and restarts: the ring of the server holds as many       *)
(* events of the table as fit, a connected dashboard shows them in its      *)
(* order, and it has one source of data.                                   *)
(***************************************************************************)
EXTENDS LiveFeed, SequenceTheorems, FiniteSetTheorems, TLAPS

-----------------------------------------------------------------------------
(* The source of the dashboard *)

\* OneSource is inductive: every callback changes the socket, the timers and
\* the mode together.
LEMMA SourceInit == Init => OneSource
  BY DEF Init, OneSource

LEMMA SourceStep ==
  ASSUME OneSource, [Next]_vars
  PROVE  OneSource'
  <1>0. CASE UNCHANGED <<sock, pollTimer, retryTimer, mode>>
    BY <1>0 DEF OneSource
  <1>1. CASE \E t \in Tasks : Change(t) \/ SilentChange(t)
    BY <1>0, <1>1 DEF Change, SilentChange, pollVars
  <1>2. CASE Publish \/ Refresh
    BY <1>0, <1>2 DEF Publish, Refresh, InsertEvent, Announce, RefreshRead, RefreshStore, pollVars
  <1>3. CASE \E n \in News : BreakEvent(n)
    BY <1>0, <1>3 DEF BreakEvent, pollVars
  <1>4. CASE Restart
    BY <1>4 DEF Restart, OneSource
  <1>5. CASE Attach
    BY <1>5 DEF Attach, OneSource, pollVars
  <1>6. CASE Opened
    BY <1>6 DEF Opened, OpenedStopsPolling, OneSource
  <1>7. CASE Receive
    BY <1>0, <1>7 DEF Receive, pollVars
  <1>8. CASE Drop
    BY <1>8 DEF Drop, OneSource, pollVars
  <1>9. CASE Closed
    BY <1>9 DEF Closed, StartPolling, OneSource
  <1>10. CASE Reconnect
    BY <1>10 DEF Reconnect, OneSource, pollVars
  <1>11. CASE Poll
    BY <1>0, <1>11 DEF Poll, PollAsk, PollServe, PollReceive
  <1>12. CASE OpenPage
    BY <1>0, <1>12 DEF OpenPage, pollVars
  <1>13. CASE UNCHANGED vars
    BY <1>0, <1>13 DEF vars, pollVars
  <1>14. QED
    BY <1>1, <1>2, <1>3, <1>4, <1>5, <1>6, <1>7, <1>8, <1>9, <1>10, <1>11, <1>12, <1>13
       DEF Next

\* store.ts:103-142: whatever drops, restarts and late answers come, the
\* dashboard has at most one socket, is never without a source of data, and does
\* not go on polling once it is live.
THEOREM SourceIsOne == Spec => []OneSource
  BY SourceInit, SourceStep, PTL DEF Spec

-----------------------------------------------------------------------------
(* Sequences without repetition *)

\* The newest n of s are the elements of s from some place on.
LEMMA LastOfElements ==
  ASSUME NEW S, NEW s \in Seq(S), NEW n \in Nat
  PROVE  LET k == IF Len(s) > n THEN Len(s) - n ELSE 0
         IN  /\ LastOf(s, n) \in Seq(S)
             /\ Len(LastOf(s, n)) = Len(s) - k
             /\ \A i \in 1..Len(s) - k : LastOf(s, n)[i] = s[i + k]
  <1> DEFINE k == IF Len(s) > n THEN Len(s) - n ELSE 0
  <1>1. Len(s) \in Nat /\ k \in 0..Len(s) /\ LastOf(s, n) = SubSeq(s, k + 1, Len(s))
    BY DEF LastOf
  <1>2. \A i \in (k + 1)..Len(s) : s[i] \in S
    BY <1>1
  <1> HIDE DEF k
  <1>3. /\ SubSeq(s, k + 1, Len(s)) \in Seq(S)
        /\ Len(SubSeq(s, k + 1, Len(s))) = IF k + 1 <= Len(s) THEN Len(s) - (k + 1) + 1 ELSE 0
        /\ \A i \in 1..Len(s) - (k + 1) + 1 : SubSeq(s, k + 1, Len(s))[i] = s[k + 1 + i - 1]
    BY <1>1, <1>2, SubSeqProperties
  <1>4. /\ LastOf(s, n) \in Seq(S)
        /\ Len(LastOf(s, n)) = Len(s) - k
        /\ \A i \in 1..Len(s) - k : LastOf(s, n)[i] = s[i + k]
    BY <1>1, <1>3
  <1>5. QED
    BY <1>4 DEF k

LEMMA LastOfOnce ==
  ASSUME NEW S, NEW s \in Seq(S), NEW n \in Nat, IsInjective(s)
  PROVE  /\ LastOf(s, n) \in Seq(S) /\ IsInjective(LastOf(s, n))
         /\ ToSet(LastOf(s, n)) \subseteq ToSet(s)
         /\ Len(LastOf(s, n)) <= n
         /\ Len(LastOf(s, n)) = n \/ ToSet(LastOf(s, n)) = ToSet(s)
  <1> DEFINE k == IF Len(s) > n THEN Len(s) - n ELSE 0
             l == LastOf(s, n)
  <1>1. /\ l \in Seq(S)
        /\ Len(l) = Len(s) - k
        /\ \A i \in 1..Len(s) - k : l[i] = s[i + k]
    BY LastOfElements
  <1>2. Len(s) \in Nat /\ k \in 0..Len(s) /\ Len(s) - k <= n
    OBVIOUS
  <1>3. DOMAIN s = 1..Len(s) /\ DOMAIN l = 1..Len(s) - k
    BY <1>1
  <1>4. k # 0 => Len(s) - k = n
    OBVIOUS
  <1> HIDE DEF k, l
  <1>5. \A i \in DOMAIN l : i \in Nat /\ i + k \in DOMAIN s /\ l[i] = s[i + k]
    BY <1>1, <1>2, <1>3
  <1>6. IsInjective(l)
    <2> SUFFICES ASSUME NEW i \in DOMAIN l, NEW j \in DOMAIN l, l[i] = l[j] PROVE i = j
      BY DEF IsInjective
    <2>1. i + k = j + k
      BY <1>5 DEF IsInjective
    <2>2. QED
      BY <1>2, <1>5, <2>1
  <1>7. ToSet(l) \subseteq ToSet(s)
    BY <1>5 DEF ToSet
  <1>8. k = 0 => ToSet(l) = ToSet(s)
    <2> SUFFICES ASSUME k = 0 PROVE ToSet(s) \subseteq ToSet(l)
      BY <1>7
    <2>1. \A i \in DOMAIN s : i \in DOMAIN l /\ l[i] = s[i]
      BY <1>2, <1>3, <1>5
    <2>2. QED
      BY <2>1 DEF ToSet
  <1>9. QED
    BY <1>1, <1>2, <1>4, <1>6, <1>7, <1>8 DEF l

LEMMA AppendOnce ==
  ASSUME NEW S, NEW s \in Seq(S), NEW x \in S, IsInjective(s), x \notin ToSet(s)
  PROVE  /\ Append(s, x) \in Seq(S) /\ IsInjective(Append(s, x))
         /\ ToSet(Append(s, x)) = ToSet(s) \cup {x}
  <1> DEFINE a == Append(s, x)
  <1>1. /\ a \in Seq(S) /\ Len(a) = Len(s) + 1
        /\ \A i \in 1..Len(s) : a[i] = s[i]
        /\ a[Len(s) + 1] = x
    BY AppendProperties
  <1>2. Len(s) \in Nat /\ DOMAIN s = 1..Len(s) /\ DOMAIN a = 1..(Len(s) + 1)
    BY <1>1
  <1>3. \A i \in 1..Len(s) : s[i] # x
    BY <1>2 DEF ToSet
  <1> HIDE DEF a
  <1>4. IsInjective(a)
    BY <1>1, <1>2, <1>3 DEF IsInjective
  <1>5. ToSet(a) = ToSet(s) \cup {x}
    BY <1>1, <1>2 DEF ToSet
  <1>6. QED
    BY <1>1, <1>4, <1>5 DEF a

\* A sequence without repetition has as many elements as places.
LEMMA OnceCounted ==
  ASSUME NEW S, NEW s \in Seq(S), IsInjective(s)
  PROVE  IsFiniteSet(ToSet(s)) /\ Cardinality(ToSet(s)) = Len(s)
  <1>1. Len(s) \in Nat /\ DOMAIN s = 1..Len(s)
    OBVIOUS
  <1>2. IsFiniteSet(1..Len(s)) /\ Cardinality(1..Len(s)) = Len(s)
    BY <1>1, FS_Interval
  <1>3. s \in [1..Len(s) -> ToSet(s)]
    BY <1>1 DEF ToSet
  <1>4. s \in Injection(1..Len(s), ToSet(s)) /\ s \in Surjection(1..Len(s), ToSet(s))
    BY <1>1, <1>3 DEF Injection, Surjection, ToSet
  <1>5. QED
    BY <1>2, <1>4, FS_Surjection

-----------------------------------------------------------------------------
(* The ring *)

RingTypes ==
    /\ row \in Versions
    /\ pending \subseteq News
    /\ log \in Seq(News) /\ ring \in Seq(News)

\* An event is named by the version its statement returned: a version is
\* announced once, and no version has an event before the table has it.
Known(n) == n.version <= row[n.task]

LogOnce ==
    /\ IsInjective(log)
    /\ pending \cap ToSet(log) = {}
    /\ \A n \in pending \cup ToSet(log) : Known(n)

\* Every event of the table is in the ring or waits for its announcement, but
\* for those a full ring has let go.
RingOnce ==
    /\ IsInjective(ring) /\ Len(ring) <= RingSize
    /\ inserted \cup ToSet(ring) \subseteq ToSet(log)
    /\ inserted \cap ToSet(ring) = {}
    /\ Len(ring) = RingSize \/ ToSet(log) = inserted \cup ToSet(ring)

RingInv == RingTypes /\ LogOnce /\ RingOnce

LEMMA RingInit == Init => RingInv
  <1> SUFFICES ASSUME Init PROVE RingInv
    OBVIOUS
  <1>1. <<>> \in Seq(News) /\ Len(<<>>) = 0 /\ DOMAIN <<>> = {} /\ ToSet(<<>>) = {}
    BY DEF ToSet
  <1>2. IsInjective(<<>>)
    BY <1>1 DEF IsInjective
  <1>3. RingTypes
    BY <1>1, FeedAssumption DEF Init, RingTypes, NoVersions, Versions
  <1>4. QED
    BY <1>1, <1>2, <1>3, FeedAssumption DEF Init, RingInv, LogOnce, RingOnce

\* A step that changes no event changes versions upwards, if at all.
LEMMA QuietKeeps ==
  ASSUME RingInv, row' \in Versions, UNCHANGED <<inserted, log, ring>>,
         \A t \in Tasks : row[t] <= row'[t],
         pending' \subseteq pending
  PROVE  RingInv'
  <1>1. ToSet(log)' = ToSet(log) /\ ToSet(ring)' = ToSet(ring)
    BY DEF ToSet
  <1>2. ToSet(log) \subseteq News
    BY DEF RingInv, RingTypes, ToSet
  <1>3. \A n \in News : Known(n) => Known(n)'
    <2> TAKE n \in News
    <2>1. n.task \in Tasks /\ n.version \in Nat
      BY FeedAssumption DEF News
    <2>2. row[n.task] \in Nat /\ row'[n.task] \in Nat /\ row[n.task] <= row'[n.task]
      BY <2>1, FeedAssumption DEF RingInv, RingTypes, Versions
    <2>3. QED
      BY <2>1, <2>2 DEF Known
  <1>4. RingTypes' /\ LogOnce'
    BY <1>1, <1>2, <1>3 DEF RingInv, RingTypes, LogOnce
  <1>5. RingOnce'
    BY <1>1 DEF RingInv, RingOnce
  <1>6. QED
    BY <1>4, <1>5 DEF RingInv

LEMMA ChangeKeeps ==
  ASSUME RingInv, NEW t \in Tasks, Change(t)
  PROVE  RingInv'
  <1>1. row[t] \in 0..MaxVersion /\ row[t] < MaxVersion /\ MaxVersion \in Nat
    BY FeedAssumption DEF RingInv, RingTypes, Versions, Change
  <1>2. [task |-> t, version |-> row[t] + 1] \in News
    BY <1>1 DEF News
  <1> PICK n \in News : n = [task |-> t, version |-> row[t] + 1]
    BY <1>2
  <1>3. /\ row' = [row EXCEPT ![t] = row[t] + 1] /\ pending' = pending \cup {n}
        /\ UNCHANGED <<inserted, log, ring>>
    BY DEF Change
  <1>4. row' \in Versions
    BY <1>1, <1>3 DEF RingInv, RingTypes, Versions
  <1>5. row'[t] = row[t] + 1 /\ \A u \in Tasks \ {t} : row'[u] = row[u]
    BY <1>3 DEF RingInv, RingTypes, Versions
  <1>6. ~Known(n) /\ Known(n)'
    <2>1. ~(n.version <= row[n.task]) /\ n.version <= row'[n.task]
      BY <1>1, <1>5
    <2>2. QED
      BY <2>1 DEF Known
  <1>7. ToSet(log) \subseteq News /\ ToSet(log)' = ToSet(log)
    BY <1>3 DEF RingInv, RingTypes, ToSet
  <1>8. \A m \in News : Known(m) => Known(m)'
    <2> TAKE m \in News
    <2>1. m.task \in Tasks /\ m.version \in Nat
      BY FeedAssumption DEF News
    <2>2. row[m.task] \in Nat /\ row'[m.task] \in {row[m.task], row[m.task] + 1}
      BY <1>5, <2>1, FeedAssumption DEF RingInv, RingTypes, Versions
    <2>3. QED
      BY <2>1, <2>2 DEF Known
  <1>9. RingTypes'
    BY <1>3, <1>4 DEF RingInv, RingTypes
  <1>10. LogOnce'
    <2>1. \A m \in pending \cup ToSet(log) : m \in News /\ Known(m) /\ Known(m)'
      BY <1>7, <1>8 DEF RingInv, RingTypes, LogOnce
    <2>2. n \notin ToSet(log)
      BY <1>6, <2>1
    <2>3. IsInjective(log)'
      BY <1>3 DEF RingInv, LogOnce
    <2>4. pending' \cap ToSet(log) = {}
      BY <1>3, <2>2 DEF RingInv, LogOnce
    <2>5. \A m \in pending' \cup ToSet(log) : Known(m)'
      BY <1>3, <1>6, <2>1
    <2>6. QED
      BY <1>7, <2>3, <2>4, <2>5 DEF LogOnce
  <1>11. RingOnce'
    <2>1. ToSet(ring)' = ToSet(ring)
      BY <1>3 DEF ToSet
    <2>2. QED
      BY <1>3, <1>7, <2>1 DEF RingInv, RingOnce
  <1>12. QED
    BY <1>9, <1>10, <1>11 DEF RingInv

LEMMA InsertKeeps ==
  ASSUME RingInv, NEW n \in News, InsertEvent(n)
  PROVE  RingInv'
  <1>1. /\ n \in pending /\ pending' = pending \ {n} /\ inserted' = inserted \cup {n}
        /\ log' = Append(log, n) /\ UNCHANGED <<row, ring>>
    BY DEF InsertEvent
  <1>2. n \notin ToSet(log) /\ log \in Seq(News) /\ IsInjective(log)
    BY <1>1 DEF RingInv, RingTypes, LogOnce
  <1>3. log' \in Seq(News) /\ IsInjective(log') /\ ToSet(log') = ToSet(log) \cup {n}
    BY <1>1, <1>2, AppendOnce
  <1>4. RingTypes'
    BY <1>1, <1>3 DEF RingInv, RingTypes
  <1>5. LogOnce'
    BY <1>1, <1>3 DEF RingInv, LogOnce, Known
  <1>6. n \notin ToSet(ring)
    BY <1>2 DEF RingInv, RingOnce
  <1>7. RingOnce'
    BY <1>1, <1>3, <1>6 DEF RingInv, RingOnce
  <1>8. QED
    BY <1>4, <1>5, <1>7 DEF RingInv

LEMMA AnnounceKeeps ==
  ASSUME RingInv, NEW n \in News, Announce(n)
  PROVE  RingInv'
  <1>1. /\ n \in inserted /\ inserted' = inserted \ {n}
        /\ ring' = LastOf(Append(ring, n), RingSize) /\ UNCHANGED <<row, pending, log>>
    BY DEF Announce, Push
  <1>2. ring \in Seq(News) /\ IsInjective(ring) /\ n \notin ToSet(ring) /\ RingSize \in Nat
    BY <1>1, FeedAssumption DEF RingInv, RingTypes, RingOnce
  <1> DEFINE a == Append(ring, n)
  <1>3. a \in Seq(News) /\ IsInjective(a) /\ ToSet(a) = ToSet(ring) \cup {n}
    BY <1>2, AppendOnce
  <1> HIDE DEF a
  <1>4. /\ LastOf(a, RingSize) \in Seq(News) /\ IsInjective(LastOf(a, RingSize))
        /\ ToSet(LastOf(a, RingSize)) \subseteq ToSet(a)
        /\ Len(LastOf(a, RingSize)) <= RingSize
        /\ Len(LastOf(a, RingSize)) = RingSize \/ ToSet(LastOf(a, RingSize)) = ToSet(a)
    BY <1>2, <1>3, LastOfOnce
  <1>5. /\ ring' \in Seq(News) /\ IsInjective(ring') /\ Len(ring') <= RingSize
        /\ ToSet(ring') \subseteq ToSet(ring) \cup {n}
        /\ Len(ring') = RingSize \/ ToSet(ring') = ToSet(ring) \cup {n}
    BY <1>1, <1>3, <1>4 DEF a
  <1>6. RingTypes' /\ LogOnce'
    BY <1>1, <1>5 DEF RingInv, RingTypes, LogOnce, Known, ToSet
  <1>7. Len(ring) = RingSize => Len(ring') = RingSize
    <2>1. Len(a) = Len(ring) + 1 /\ Len(ring) \in Nat
      BY <1>2, AppendProperties DEF a
    <2>2. Len(a) > RingSize => Len(LastOf(a, RingSize)) = Len(a) - (Len(a) - RingSize)
      BY <1>2, <1>3, LastOfElements
    <2>3. QED
      BY <1>1, <1>2, <2>1, <2>2 DEF a
  <1>8. RingOnce'
    <2>1. n \in ToSet(log)
      BY <1>1 DEF RingInv, RingOnce
    <2>2. ToSet(log)' = ToSet(log)
      BY <1>1 DEF ToSet
    <2>3. inserted' \cup ToSet(ring') \subseteq ToSet(log)
      BY <1>1, <1>5, <2>1 DEF RingInv, RingOnce
    <2>4. inserted' \cap ToSet(ring') = {}
      BY <1>1, <1>5 DEF RingInv, RingOnce
    <2>5. Len(ring') = RingSize \/ ToSet(log) = inserted' \cup ToSet(ring')
      BY <1>1, <1>5, <1>7, <2>1 DEF RingInv, RingOnce
    <2>6. QED
      BY <1>5, <2>2, <2>3, <2>4, <2>5 DEF RingOnce
  <1>9. QED
    BY <1>6, <1>8 DEF RingInv

LEMMA RestartKeeps ==
  ASSUME RingInv, Restart
  PROVE  RingInv'
  <1>1. /\ pending' = {} /\ inserted' = {} /\ ring' = LastOf(log, RingSize)
        /\ UNCHANGED <<row, log>>
    BY DEF Restart, Warmed
  <1>2. log \in Seq(News) /\ IsInjective(log) /\ RingSize \in Nat
    BY FeedAssumption DEF RingInv, RingTypes, LogOnce
  <1>3. /\ ring' \in Seq(News) /\ IsInjective(ring')
        /\ ToSet(ring') \subseteq ToSet(log)
        /\ Len(ring') <= RingSize
        /\ Len(ring') = RingSize \/ ToSet(ring') = ToSet(log)
    BY <1>1, <1>2, LastOfOnce
  <1>4. RingTypes' /\ LogOnce'
    BY <1>1, <1>3 DEF RingInv, RingTypes, LogOnce, Known, ToSet
  <1>5. ToSet(log)' = ToSet(log) /\ ToSet(ring)' = ToSet(ring')
    BY <1>1 DEF ToSet
  <1>6. RingOnce'
    BY <1>1, <1>3, <1>5 DEF RingOnce
  <1>7. QED
    BY <1>4, <1>6 DEF RingInv

LEMMA SilentKeeps ==
  ASSUME RingInv, NEW t \in Tasks, SilentChange(t)
  PROVE  RingInv'
  <1>1. /\ row[t] \in 1..(MaxVersion - 1) /\ row' = [row EXCEPT ![t] = row[t] + 1]
        /\ UNCHANGED <<pending, inserted, log, ring>>
    BY DEF SilentChange
  <1>2. \A u \in Tasks : row[u] \in 0..MaxVersion /\ row'[u] \in {row[u], row[u] + 1}
    BY <1>1 DEF RingInv, RingTypes, Versions
  <1>3. row' \in Versions
    BY <1>1, FeedAssumption DEF RingInv, RingTypes, Versions
  <1>4. \A u \in Tasks : row[u] <= row'[u]
    BY <1>2, FeedAssumption
  <1>5. QED
    BY <1>1, <1>3, <1>4, QuietKeeps

LEMMA RingStep ==
  ASSUME RingInv, [Next]_vars
  PROVE  RingInv'
  <1>0. CASE pending' \subseteq pending /\ UNCHANGED <<row, inserted, log, ring>>
    <2>1. row' \in Versions /\ \A t \in Tasks : row[t] \in Nat /\ row[t] <= row'[t]
      BY <1>0, FeedAssumption DEF RingInv, RingTypes, Versions
    <2>2. QED
      BY <1>0, <2>1, QuietKeeps
  <1>1. CASE \E t \in Tasks : Change(t)
    BY <1>1, ChangeKeeps
  <1>2. CASE \E t \in Tasks : SilentChange(t)
    BY <1>2, SilentKeeps
  <1>3. CASE Publish
    BY <1>3, InsertKeeps, AnnounceKeeps DEF Publish
  <1>4. CASE Refresh
    BY <1>0, <1>4 DEF Refresh, RefreshRead, RefreshStore
  <1>5. CASE \E n \in News : BreakEvent(n)
    BY <1>0, <1>5 DEF BreakEvent
  <1>6. CASE Restart
    BY <1>6, RestartKeeps
  <1>7. CASE Attach \/ Opened \/ Receive \/ Drop \/ Closed \/ Reconnect \/ OpenPage
    BY <1>0, <1>7 DEF Attach, Opened, Receive, Drop, Closed, Reconnect, OpenPage, serverVars
  <1>8. CASE Poll
    BY <1>0, <1>8 DEF Poll, PollAsk, PollServe, PollReceive, serverVars
  <1>9. CASE UNCHANGED vars
    BY <1>0, <1>9 DEF vars, serverVars
  <1>10. QED
    BY <1>1, <1>2, <1>3, <1>4, <1>5, <1>6, <1>7, <1>8, <1>9 DEF Next

-----------------------------------------------------------------------------
(* Which events the ring holds *)

\* What was, or will be, announced after the event at place i of the ring.
Behind(i) == inserted \cup {ring[m] : m \in (i + 1)..Len(ring)}

\* The older ones among them: their INSERTs were answered late.
Overtaken(i, p) == {q \in 1..(p - 1) : log[q] \in Behind(i)}

\* Only those whose INSERT was under way when that of the event was answered are
\* older and announced later; and of what a full ring has let go enough is newer.
RingNew ==
    /\ IsFiniteSet(inserted) /\ Cardinality(inserted) <= MaxInserts
    /\ \A i \in DOMAIN ring, p \in DOMAIN log :
           ring[i] = log[p] => Cardinality(Overtaken(i, p)) < MaxInserts
    /\ \A p \in DOMAIN log : log[p] \notin ToSet(ring) \cup inserted
                               => RingSize < Len(log) - p + MaxInserts

LEMMA NewInit == Init => RingNew
  <1> SUFFICES ASSUME Init PROVE RingNew
    OBVIOUS
  <1>1. ring = <<>> /\ log = <<>> /\ inserted = {} /\ DOMAIN <<>> = {}
    BY DEF Init
  <1>2. IsFiniteSet({}) /\ Cardinality({}) = 0 /\ 0 <= MaxInserts
    BY FS_EmptySet, FeedAssumption
  <1>3. QED
    BY <1>1, <1>2 DEF RingNew

\* As many places of a table without repetition as elements looked for.
LEMMA PlacesCounted ==
  ASSUME NEW S, NEW s \in Seq(S), IsInjective(s),
         NEW X, X \subseteq ToSet(s), IsFiniteSet(X)
  PROVE  LET Q == {q \in DOMAIN s : s[q] \in X}
         IN  IsFiniteSet(Q) /\ Cardinality(Q) = Cardinality(X)
  <1> DEFINE Q == {q \in DOMAIN s : s[q] \in X}
             f == [q \in Q |-> s[q]]
  <1>1. Len(s) \in Nat /\ DOMAIN s = 1..Len(s)
    OBVIOUS
  <1>2. IsFiniteSet(1..Len(s))
    BY <1>1, FS_Interval
  <1>3. IsFiniteSet(Q)
    BY <1>1, <1>2, FS_Subset
  <1>4. f \in [Q -> X]
    OBVIOUS
  <1>5. \A x \in X : \E q \in Q : f[q] = x
    BY DEF ToSet
  <1>6. \A q, r \in Q : f[q] = f[r] => q = r
    BY DEF IsInjective
  <1> HIDE DEF f, Q
  <1>7. f \in Injection(Q, X) /\ f \in Surjection(Q, X)
    BY <1>4, <1>5, <1>6 DEF Injection, Surjection, IsInjective
  <1>8. Cardinality(Q) = Cardinality(X)
    BY <1>3, <1>7, FS_Surjection
  <1> USE DEF Q
  <1>9. QED
    BY <1>3, <1>8

LEMMA InsertKeepsNew ==
  ASSUME RingInv, RingNew, NEW n \in News, InsertEvent(n)
  PROVE  RingNew'
  <1>1. /\ n \in pending /\ Cardinality(inserted) < MaxInserts
        /\ inserted' = inserted \cup {n} /\ log' = Append(log, n) /\ UNCHANGED ring
    BY DEF InsertEvent
  <1>2. n \notin ToSet(log) /\ log \in Seq(News) /\ ring \in Seq(News)
    BY <1>1 DEF RingInv, RingTypes, LogOnce
  <1>3. /\ Len(log) \in Nat /\ DOMAIN log = 1..Len(log)
        /\ Len(log') = Len(log) + 1 /\ DOMAIN log' = 1..(Len(log) + 1)
        /\ \A q \in 1..Len(log) : log'[q] = log[q]
        /\ log'[Len(log) + 1] = n
    BY <1>1, <1>2, AppendProperties
  <1>4. n \notin ToSet(ring) /\ Len(ring) \in Nat /\ DOMAIN ring = 1..Len(ring)
    BY <1>2 DEF RingInv, RingOnce
  <1>5. IsFiniteSet(inserted') /\ Cardinality(inserted') <= MaxInserts
    <2>1. IsFiniteSet(inserted) /\ Cardinality(inserted) \in Nat /\ MaxInserts \in Nat
      BY FS_CardinalityType, FeedAssumption DEF RingNew
    <2>2. Cardinality(inserted \cup {n}) \in {Cardinality(inserted), Cardinality(inserted) + 1}
      BY <2>1, FS_AddElement
    <2>3. IsFiniteSet(inserted \cup {n})
      BY <2>1, FS_AddElement
    <2>4. QED
      BY <1>1, <2>1, <2>2, <2>3
  <1>6. ASSUME NEW i \in DOMAIN ring, NEW p \in DOMAIN log', ring[i] = log'[p]
        PROVE  Cardinality(Overtaken(i, p)') < MaxInserts
    <2>1. p \in DOMAIN log /\ log[p] = ring[i]
      BY <1>3, <1>4, <1>6 DEF ToSet
    <2>2. \A q \in 1..(p - 1) : q \in 1..Len(log) /\ log'[q] = log[q] /\ log[q] # n
      BY <1>2, <1>3, <2>1 DEF ToSet
    <2>3. Overtaken(i, p)' = Overtaken(i, p)
      BY <1>1, <2>2 DEF Overtaken, Behind
    <2>4. QED
      BY <2>1, <2>3 DEF RingNew
  <1>7. ASSUME NEW p \in DOMAIN log', log'[p] \notin ToSet(ring) \cup inserted'
        PROVE  RingSize < Len(log') - p + MaxInserts
    <2>1. p \in DOMAIN log /\ log[p] \notin ToSet(ring) \cup inserted
      BY <1>1, <1>3, <1>7
    <2>2. RingSize < Len(log) - p + MaxInserts
      BY <2>1 DEF RingNew
    <2>3. QED
      BY <1>3, <2>1, <2>2, FeedAssumption
  <1>8. ToSet(ring)' = ToSet(ring)
    BY <1>1 DEF ToSet
  <1>9. QED
    BY <1>1, <1>5, <1>6, <1>7, <1>8 DEF RingNew

LEMMA AnnounceKeepsNew ==
  ASSUME RingInv, RingNew, NEW n \in News, Announce(n)
  PROVE  RingNew'
  <1> DEFINE a == Append(ring, n)
             k == IF Len(a) > RingSize THEN Len(a) - RingSize ELSE 0
  <1>1. /\ n \in inserted /\ inserted' = inserted \ {n}
        /\ ring' = LastOf(a, RingSize) /\ UNCHANGED log
    BY DEF Announce, Push
  <1>2. /\ ring \in Seq(News) /\ log \in Seq(News) /\ IsInjective(log) /\ IsInjective(ring)
        /\ n \notin ToSet(ring) /\ inserted \cup ToSet(ring) \subseteq ToSet(log)
        /\ RingSize \in Nat /\ RingSize > 0 /\ MaxInserts \in Nat /\ Len(ring) <= RingSize
    BY <1>1, FeedAssumption DEF RingInv, RingTypes, RingOnce, LogOnce
  <1>3. /\ a \in Seq(News) /\ Len(a) = Len(ring) + 1 /\ Len(ring) \in Nat
        /\ \A i \in 1..Len(ring) : a[i] = ring[i]
        /\ a[Len(ring) + 1] = n
        /\ DOMAIN ring = 1..Len(ring)
    BY <1>2, AppendProperties
  <1>4. ring' \in Seq(News) /\ Len(ring') = Len(a) - k /\ \A i \in 1..(Len(a) - k) : ring'[i] = a[i + k]
    BY <1>1, <1>2, <1>3, LastOfElements
  <1> HIDE DEF a
  <1>5. k \in {0, 1} /\ (k = 1 => Len(ring) = RingSize)
    <2>1. Len(ring) \in Nat /\ Len(a) = Len(ring) + 1 /\ Len(ring) <= RingSize /\ RingSize \in Nat
      BY <1>2, <1>3
    <2>2. QED
      BY <2>1
  <1> HIDE DEF k
  <1>6. Len(ring') = Len(ring) + 1 - k /\ DOMAIN ring' = 1..(Len(ring) + 1 - k)
    BY <1>3, <1>4, <1>5
  <1>7. Len(log) \in Nat /\ DOMAIN log = 1..Len(log) /\ log' = log
    BY <1>1, <1>2
  <1>8. /\ IsFiniteSet(inserted) /\ Cardinality(inserted) \in Nat
        /\ Cardinality(inserted) <= MaxInserts
    BY FS_CardinalityType DEF RingNew
  <1>9. IsFiniteSet(inserted') /\ Cardinality(inserted') = Cardinality(inserted) - 1
    BY <1>1, <1>8, FS_RemoveElement
  <1>10. ASSUME NEW i \in DOMAIN ring', NEW p \in DOMAIN log, ring'[i] = log[p]
         PROVE  Cardinality(Overtaken(i, p)') < MaxInserts
    <2>1. i \in 1..(Len(ring) + 1 - k) /\ i + k \in 1..(Len(ring) + 1) /\ ring'[i] = a[i + k]
      BY <1>3, <1>4, <1>5, <1>6
    <2>2. CASE i + k <= Len(ring)
      <3>1. i + k \in DOMAIN ring /\ ring[i + k] = log[p]
        BY <1>3, <1>10, <2>1, <2>2
      <3>2. {ring'[m] : m \in (i + 1)..Len(ring')} = {ring[m] : m \in (i + k + 1)..Len(ring)} \cup {n}
        <4>1. \A m \in (i + 1)..Len(ring') :
                  /\ m \in 1..(Len(a) - k) /\ m + k \in (i + k + 1)..(Len(ring) + 1)
                  /\ ring'[m] = a[m + k]
          BY <1>3, <1>4, <1>5, <1>6, <2>1
        <4>2. \A m \in (i + k + 1)..(Len(ring) + 1) : m - k \in (i + 1)..Len(ring') /\ (m - k) + k = m
          BY <1>3, <1>5, <1>6, <2>1
        <4>3. \A m \in (i + k + 1)..(Len(ring) + 1) :
                  \/ m \in (i + k + 1)..Len(ring) /\ a[m] = ring[m]
                  \/ m = Len(ring) + 1 /\ a[m] = n
          <5> TAKE m \in (i + k + 1)..(Len(ring) + 1)
          <5>1. (m \in 1..Len(ring) /\ m \in (i + k + 1)..Len(ring)) \/ m = Len(ring) + 1
            BY <1>3, <2>1
          <5>2. QED
            BY <1>3, <5>1
        <4>4. \A m \in (i + 1)..Len(ring') :
                  ring'[m] \in {ring[l] : l \in (i + k + 1)..Len(ring)} \cup {n}
          BY <4>1, <4>3
        <4>5. \A m \in (i + k + 1)..Len(ring) : \E l \in (i + 1)..Len(ring') : ring'[l] = ring[m]
          <5> TAKE m \in (i + k + 1)..Len(ring)
          <5>1. m \in 1..Len(ring) /\ m \in (i + k + 1)..(Len(ring) + 1)
            BY <1>3, <1>5, <2>1
          <5>2. m - k \in (i + 1)..Len(ring') /\ ring'[m - k] = ring[m]
            BY <1>3, <4>1, <4>2, <5>1
          <5>3. QED
            BY <5>2
        <4>6. \E l \in (i + 1)..Len(ring') : ring'[l] = n
          <5>1. Len(ring) + 1 \in (i + k + 1)..(Len(ring) + 1)
            BY <1>3, <1>5, <2>1, <2>2
          <5>2. (Len(ring) + 1) - k \in (i + 1)..Len(ring') /\ ring'[(Len(ring) + 1) - k] = n
            BY <1>3, <4>1, <4>2, <5>1
          <5>3. QED
            BY <5>2
        <4>7. QED
          BY <4>4, <4>5, <4>6
      <3>3. Behind(i)' = Behind(i + k)
        BY <1>1, <3>2 DEF Behind
      <3>4. Overtaken(i, p)' = Overtaken(i + k, p)
        BY <1>7, <3>3 DEF Overtaken
      <3>5. QED
        BY <3>1, <3>4 DEF RingNew
    <2>3. CASE i + k = Len(ring) + 1
      <3>1. i = Len(ring')
        BY <1>3, <1>5, <1>6, <2>1, <2>3
      <3>2. (i + 1)..Len(ring') = {}
        BY <1>3, <1>5, <1>6, <3>1
      <3>3. Behind(i)' = inserted'
        BY <3>2 DEF Behind
      <3>4. inserted' \subseteq ToSet(log)
        BY <1>1, <1>2
      <3>5. LET Q == {q \in DOMAIN log : log[q] \in inserted'}
            IN  IsFiniteSet(Q) /\ Cardinality(Q) = Cardinality(inserted')
        BY <1>2, <1>9, <3>4, PlacesCounted
      <3>6. Overtaken(i, p)' \subseteq {q \in DOMAIN log : log[q] \in inserted'}
        BY <1>7, <3>3 DEF Overtaken
      <3>7. Cardinality(Overtaken(i, p)') <= Cardinality(inserted')
        BY <3>5, <3>6, FS_Subset
      <3>8. Cardinality(Overtaken(i, p)') \in Nat
        BY <3>5, <3>6, FS_Subset, FS_CardinalityType
      <3>9. QED
        BY <1>2, <1>8, <1>9, <3>7, <3>8
    <2>4. QED
      BY <1>3, <1>5, <2>1, <2>2, <2>3
  <1>11. ASSUME NEW p \in DOMAIN log, log[p] \notin ToSet(ring') \cup inserted'
         PROVE  RingSize < Len(log) - p + MaxInserts
    <2>1. CASE log[p] \notin ToSet(ring) \cup inserted
      BY <2>1 DEF RingNew
    <2>2. CASE log[p] \in ToSet(ring) \cup inserted
      <3>1. n \in ToSet(ring')
        <4>1. (Len(ring) + 1 - k) + k = Len(ring) + 1 /\ Len(ring) + 1 - k \in 1..(Len(ring) + 1 - k)
          <5>1. Len(ring) \in Nat /\ (k = 0 \/ (k = 1 /\ Len(ring) > 0))
            BY <1>2, <1>3, <1>5
          <5>2. QED
            BY <5>1
        <4>2. Len(ring) + 1 - k \in DOMAIN ring' /\ ring'[Len(ring) + 1 - k] = n
          BY <1>3, <1>4, <1>6, <4>1
        <4>3. QED
          BY <4>2 DEF ToSet
      <3>2. log[p] # n /\ log[p] \in ToSet(ring)
        BY <1>1, <1>11, <2>2, <3>1
      <3> PICK j \in DOMAIN ring : ring[j] = log[p]
        BY <3>2 DEF ToSet
      <3>3. k = 1 /\ j = 1
        <4> SUFFICES ASSUME j - k >= 1 PROVE FALSE
          BY <1>3, <1>5
        <4>1. j - k \in DOMAIN ring' /\ ring'[j - k] = ring[j]
          BY <1>3, <1>4, <1>5, <1>6
        <4>2. QED
          BY <1>11, <4>1 DEF ToSet
      <3>4. Len(ring) = RingSize /\ Len(ring') = RingSize
        BY <1>3, <1>5, <1>6, <3>3
      <3>5. IsInjective(ring')
        <4>1. IsInjective(a)
          BY <1>2, AppendOnce DEF a
        <4>2. QED
          BY <1>1, <1>2, <1>3, <4>1, LastOfOnce
      <3>6. IsFiniteSet(ToSet(ring')) /\ Cardinality(ToSet(ring')) = RingSize
        BY <1>4, <3>4, <3>5, OnceCounted
      <3>7. ToSet(ring') \subseteq Behind(1)
        <4>1. \A m \in DOMAIN ring' : \/ m + 1 \in 2..Len(ring) /\ ring'[m] = ring[m + 1]
                                      \/ ring'[m] = n
          BY <1>3, <1>4, <1>5, <1>6, <3>3
        <4>2. QED
          BY <1>1, <4>1 DEF ToSet, Behind
      <3>8. ToSet(ring') \subseteq ToSet(log)
        <4>1. Behind(1) \subseteq inserted \cup ToSet(ring)
          BY <1>3 DEF Behind, ToSet
        <4>2. QED
          BY <1>2, <3>7, <4>1
      <3> DEFINE Q == {q \in DOMAIN log : log[q] \in ToSet(ring')}
                 New == {q \in Q : q > p}
      <3>9. IsFiniteSet(Q) /\ Cardinality(Q) = RingSize
        BY <1>2, <3>6, <3>8, PlacesCounted
      <3>10. p \notin Q
        BY <1>11
      <3> HIDE DEF Q
      <3>11. Q \subseteq DOMAIN log /\ \A q \in Q : log[q] \in ToSet(ring')
        BY DEF Q
      <3>12. Q \subseteq Overtaken(1, p) \cup New
        <4>1. \A q \in Q : q \in Nat /\ q >= 1 /\ (q <= p - 1 \/ q > p)
          BY <1>7, <3>10, <3>11
        <4>2. p \in Nat
          BY <1>7
        <4>3. \A q \in Q : q <= p - 1 => q \in Overtaken(1, p)
          BY <3>7, <3>11, <4>1, <4>2 DEF Overtaken
        <4>4. QED
          BY <4>1, <4>3
      <3>13. IsFiniteSet((p + 1)..Len(log)) /\ Cardinality((p + 1)..Len(log)) = Len(log) - p
        <4>1. p \in 1..Len(log) /\ p + 1 \in Int /\ Len(log) \in Int
          BY <1>7
        <4>2. /\ IsFiniteSet((p + 1)..Len(log))
              /\ Cardinality((p + 1)..Len(log)) = IF p + 1 > Len(log) THEN 0 ELSE Len(log) - (p + 1) + 1
          BY <4>1, FS_Interval
        <4>3. QED
          BY <1>7, <4>1, <4>2
      <3>14. New \subseteq (p + 1)..Len(log)
        BY <1>7, <3>11
      <3>15. IsFiniteSet(New) /\ Cardinality(New) \in Nat /\ Cardinality(New) <= Len(log) - p
        BY <3>13, <3>14, FS_Subset, FS_CardinalityType
      <3>16. IsFiniteSet(Overtaken(1, p))
        <4>1. Overtaken(1, p) \subseteq DOMAIN log
          BY <1>7 DEF Overtaken
        <4>2. 1 \in Int /\ Len(log) \in Int
          BY <1>7
        <4>3. IsFiniteSet(DOMAIN log)
          BY <1>7, <4>2, FS_Interval
        <4>4. QED
          BY <4>1, <4>3, FS_Subset
      <3>17. Cardinality(Overtaken(1, p)) \in Nat /\ Cardinality(Overtaken(1, p)) < MaxInserts
        BY <3>3, <3>16, FS_CardinalityType DEF RingNew
      <3>18. Cardinality(Q) <= Cardinality(Overtaken(1, p)) + Cardinality(New)
        <4>1. /\ IsFiniteSet(Overtaken(1, p) \cup New)
              /\ Cardinality(Overtaken(1, p) \cup New)
                   = Cardinality(Overtaken(1, p)) + Cardinality(New)
                       - Cardinality(Overtaken(1, p) \cap New)
          BY <3>15, <3>16, FS_Union
        <4>2. Cardinality(Overtaken(1, p) \cap New) \in Nat
          BY <3>15, FS_Intersection, FS_CardinalityType
        <4>3. Cardinality(Q) <= Cardinality(Overtaken(1, p) \cup New)
          BY <3>12, <4>1, FS_Subset
        <4>4. Cardinality(Q) \in Nat
          BY <3>9, FS_CardinalityType
        <4>5. QED
          BY <3>15, <3>17, <4>1, <4>2, <4>3, <4>4
      <3>19. QED
        BY <1>2, <1>7, <3>9, <3>15, <3>17, <3>18
    <2>3. QED
      BY <2>1, <2>2
  <1>12. QED
    BY <1>2, <1>7, <1>8, <1>9, <1>10, <1>11 DEF RingNew

LEMMA RestartKeepsNew ==
  ASSUME RingInv, Restart
  PROVE  RingNew'
  <1> DEFINE k == IF Len(log) > RingSize THEN Len(log) - RingSize ELSE 0
  <1>1. inserted' = {} /\ ring' = LastOf(log, RingSize) /\ log' = log
    BY DEF Restart, Warmed
  <1>2. /\ log \in Seq(News) /\ IsInjective(log) /\ Len(log) \in Nat /\ DOMAIN log = 1..Len(log)
        /\ RingSize \in Nat /\ MaxInserts \in Nat /\ MaxInserts > 0
    BY FeedAssumption DEF RingInv, RingTypes, LogOnce
  <1>3. /\ ring' \in Seq(News) /\ Len(ring') = Len(log) - k
        /\ \A i \in 1..(Len(log) - k) : ring'[i] = log[i + k]
    BY <1>1, <1>2, LastOfElements
  <1>4. Len(log) \in Nat /\ k \in Nat /\ k <= Len(log)
    BY <1>2
  <1>5. k > 0 => k = Len(log) - RingSize
    OBVIOUS
  <1> HIDE DEF k
  <1>6. DOMAIN ring' = 1..(Len(log) - k) /\ Len(ring') = Len(log) - k
    BY <1>3, <1>4
  <1>7. ASSUME NEW i \in DOMAIN ring', NEW p \in DOMAIN log, ring'[i] = log[p]
        PROVE  Cardinality(Overtaken(i, p)') < MaxInserts
    <2>1. i \in 1..(Len(log) - k) /\ i + k \in 1..Len(log)
      BY <1>6, <1>4
    <2>2. log[i + k] = log[p] /\ i + k \in DOMAIN log
      BY <1>2, <1>3, <1>7, <2>1
    <2>3. p = i + k
      BY <1>2, <2>2 DEF IsInjective
    <2>4. ASSUME NEW q \in 1..(p - 1), log[q] \in Behind(i)' PROVE FALSE
      <3>1. Behind(i)' = {ring'[m] : m \in (i + 1)..(Len(log) - k)}
        BY <1>1, <1>6 DEF Behind
      <3> PICK m \in (i + 1)..(Len(log) - k) : log[q] = ring'[m]
        BY <2>4, <3>1
      <3>2. m \in 1..(Len(log) - k) /\ m + k \in 1..Len(log) /\ q \in 1..Len(log)
        BY <1>4, <2>1, <2>3
      <3>3. m + k \in DOMAIN log /\ q \in DOMAIN log /\ log[q] = log[m + k]
        BY <1>2, <1>3, <3>2
      <3>4. q = m + k
        BY <1>2, <3>3 DEF IsInjective
      <3>5. i + k \in Nat /\ m \in (i + 1)..(Len(log) - k) /\ m + k <= (i + k) - 1
        BY <1>4, <2>1, <2>3, <3>4
      <3>6. QED
        BY <1>4, <2>1, <3>5
    <2>5. Overtaken(i, p)' = {}
      BY <1>1, <2>4 DEF Overtaken
    <2>6. QED
      BY <1>2, <2>5, FS_EmptySet
  <1>8. ASSUME NEW p \in DOMAIN log, log[p] \notin ToSet(ring')
        PROVE  RingSize < Len(log) - p + MaxInserts
    <2>1. p \in 1..Len(log)
      BY <1>2
    <2>2. p > k => p - k \in 1..(Len(log) - k) /\ (p - k) + k = p
      BY <1>4, <2>1
    <2>3. ~(p > k)
      BY <1>3, <1>6, <1>8, <2>2 DEF ToSet
    <2>4. k = Len(log) - RingSize /\ p <= k
      BY <1>5, <1>4, <2>1, <2>3
    <2>5. RingSize \in Nat /\ MaxInserts \in Nat /\ MaxInserts > 0
      BY <1>2
    <2>6. QED
      BY <1>4, <2>1, <2>4, <2>5
  <1>9. QED
    BY <1>1, <1>7, <1>8, <1>2, FS_EmptySet DEF RingNew

LEMMA NewStep ==
  ASSUME RingInv, RingNew, [Next]_vars
  PROVE  RingNew'
  <1>0. CASE UNCHANGED <<inserted, log, ring>>
    BY <1>0 DEF RingNew, Overtaken, Behind, ToSet
  <1>1. CASE \E t \in Tasks : Change(t) \/ SilentChange(t)
    BY <1>0, <1>1 DEF Change, SilentChange
  <1>2. CASE Publish
    BY <1>2, InsertKeepsNew, AnnounceKeepsNew DEF Publish
  <1>3. CASE Refresh
    BY <1>0, <1>3 DEF Refresh, RefreshRead, RefreshStore
  <1>4. CASE \E n \in News : BreakEvent(n)
    BY <1>0, <1>4 DEF BreakEvent
  <1>5. CASE Restart
    BY <1>5, RestartKeepsNew
  <1>6. CASE Attach \/ Opened \/ Receive \/ Drop \/ Closed \/ Reconnect \/ OpenPage
    BY <1>0, <1>6 DEF Attach, Opened, Receive, Drop, Closed, Reconnect, OpenPage, serverVars
  <1>7. CASE Poll
    BY <1>0, <1>7 DEF Poll, PollAsk, PollServe, PollReceive, serverVars
  <1>8. CASE UNCHANGED vars
    BY <1>0, <1>8 DEF vars, serverVars
  <1>9. QED
    BY <1>1, <1>2, <1>3, <1>4, <1>5, <1>6, <1>7, <1>8 DEF Next

\* Without announcements under way the ring and the table differ by what a full
\* ring has let go: count both.
LEMMA RingFull ==
  ASSUME RingInv, inserted = {}
  PROVE  Len(ring) = IF Len(log) < RingSize THEN Len(log) ELSE RingSize
  <1>1. IsFiniteSet(ToSet(log)) /\ Cardinality(ToSet(log)) = Len(log)
    BY OnceCounted DEF RingInv, RingTypes, LogOnce
  <1>2. IsFiniteSet(ToSet(ring)) /\ Cardinality(ToSet(ring)) = Len(ring)
    BY OnceCounted DEF RingInv, RingTypes, RingOnce
  <1>3. ToSet(ring) \subseteq ToSet(log)
    BY DEF RingInv, RingOnce
  <1>4. Len(ring) <= Len(log)
    BY <1>1, <1>2, <1>3, FS_Subset
  <1>5. Len(log) \in Nat /\ Len(ring) \in Nat /\ RingSize \in Nat /\ Len(ring) <= RingSize
    BY FeedAssumption DEF RingInv, RingTypes, RingOnce
  <1>6. CASE Len(ring) = RingSize
    BY <1>2, <1>3, <1>4, <1>5, <1>6
  <1>7. CASE ToSet(log) = ToSet(ring)
    BY <1>1, <1>2, <1>5, <1>7
  <1>8. QED
    BY <1>6, <1>7 DEF RingInv, RingOnce

LEMMA RingImplies == RingInv /\ RingNew => RingHoldsLog
  <1> SUFFICES ASSUME RingInv, RingNew PROVE RingHoldsLog
    OBVIOUS
  <1>1. ToSet(ring) \subseteq ToSet(log) /\ IsInjective(ring)
    BY DEF RingInv, RingOnce
  <1>2. ASSUME MaxInserts <= RingSize
        PROVE  ToSet(LastOf(log, RingSize - MaxInserts + 1)) \subseteq ToSet(ring) \cup inserted
    <2> DEFINE n == RingSize - MaxInserts + 1
               k == IF Len(log) > n THEN Len(log) - n ELSE 0
               l == LastOf(log, n)
    <2>1. n \in Nat /\ n > 0 /\ RingSize = n + MaxInserts - 1 /\ MaxInserts \in Nat
      BY <1>2, FeedAssumption
    <2>2. log \in Seq(News) /\ Len(log) \in Nat /\ DOMAIN log = 1..Len(log)
      BY DEF RingInv, RingTypes
    <2> HIDE DEF n
    <2>3. l \in Seq(News) /\ Len(l) = Len(log) - k /\ \A i \in 1..(Len(log) - k) : l[i] = log[i + k]
      BY <2>1, <2>2, LastOfElements
    <2>4. k \in Nat /\ k <= Len(log) /\ Len(log) - k <= n
      BY <2>1, <2>2
    <2> HIDE DEF k, l
    <2>5. ASSUME NEW i \in DOMAIN l PROVE l[i] \in ToSet(ring) \cup inserted
      <3>1. i \in 1..(Len(log) - k) /\ i + k \in DOMAIN log /\ l[i] = log[i + k]
        BY <2>2, <2>3, <2>4
      <3>2. ~(RingSize < Len(log) - (i + k) + MaxInserts)
        BY <2>1, <2>2, <2>4, <3>1
      <3>3. QED
        BY <3>1, <3>2 DEF RingNew
    <2>6. QED
      BY <2>5 DEF ToSet, l, n
  <1>3. QED
    BY <1>1, <1>2, RingFull DEF RingHoldsLog

\* events.ts:17-42: whatever restarts come between the INSERT of an event and its
\* announcement, and in whatever order INSERTs are answered, the ring holds events
\* of the table, none twice, as many as fit, and the newest but for as many as the
\* pool has connections.
THEOREM RingIsTail == Spec => []RingHoldsLog
  <1>1. RingInv /\ RingNew /\ [Next]_vars => RingInv' /\ RingNew'
    BY RingStep, NewStep
  <1>2. QED
    BY RingInit, NewInit, <1>1, RingImplies, PTL DEF Spec

-----------------------------------------------------------------------------
(* The types of the view *)

LEMMA RemovedAt ==
  ASSUME NEW S, NEW s \in Seq(S), NEW i \in DOMAIN s
  PROVE  RemoveAt(s, i) \in Seq(S) /\ Len(RemoveAt(s, i)) = Len(s) - 1
  <1>1. i \in 1..Len(s) /\ Len(s) \in Nat
    OBVIOUS
  <1>2. SubSeq(s, 1, i - 1) \in Seq(S) /\ Len(SubSeq(s, 1, i - 1)) = i - 1
    <2>1. \A j \in 1..i - 1 : s[j] \in S
      BY <1>1
    <2>2. QED
      BY <1>1, <2>1, SubSeqProperties
  <1>3. SubSeq(s, i + 1, Len(s)) \in Seq(S) /\ Len(SubSeq(s, i + 1, Len(s))) = Len(s) - i
    <2>1. \A j \in i + 1..Len(s) : s[j] \in S
      BY <1>1
    <2>2. QED
      BY <1>1, <2>1, SubSeqProperties
  <1> DEFINE a == SubSeq(s, 1, i - 1)
             b == SubSeq(s, i + 1, Len(s))
  <1> HIDE DEF a, b
  <1>4. a \o b \in Seq(S) /\ Len(a \o b) = Len(a) + Len(b)
    BY <1>2, <1>3, ConcatProperties DEF a, b
  <1>5. Len(a) + Len(b) = Len(s) - 1
    BY <1>1, <1>2, <1>3 DEF a, b
  <1>6. QED
    BY <1>4, <1>5 DEF RemoveAt, a, b

LEMMA LastOfShort ==
  ASSUME NEW S, NEW s \in Seq(S), NEW n \in Nat
  PROVE  LastOf(s, n) \in Seq(S) /\ Len(LastOf(s, n)) <= n
  <1> DEFINE k == IF Len(s) > n THEN Len(s) - n ELSE 0
  <1>1. Len(s) \in Nat /\ Len(s) - k <= n
    OBVIOUS
  <1>2. LastOf(s, n) \in Seq(S) /\ Len(LastOf(s, n)) = Len(s) - k
    BY LastOfElements
  <1>3. QED
    BY <1>1, <1>2

Messages == Snapshot \cup Delta

LEMMA SentType ==
  ASSUME NEW n \in News
  PROVE  /\ Sent(n) \in Seq(Messages) /\ Len(Sent(n)) = 2
         /\ Sent(n)[1] = [type |-> "task.event", news |-> n]
         /\ Sent(n)[2] = [type |-> "task.updated", news |-> n]
  <1>1. /\ [type |-> "task.event", news |-> n] \in Delta
        /\ [type |-> "task.updated", news |-> n] \in Delta
    BY DEF Delta
  <1>2. QED
    BY <1>1 DEF Sent, Messages

\* A snapshot fits into the feed: its events are those of the tail.
TypeInv ==
    /\ TypeOK
    /\ \A i \in DOMAIN chan : chan[i].type = "snapshot" => Len(chan[i].events) <= TailSize

LEMMA TypeInit == Init => TypeInv
  <1> SUFFICES ASSUME Init PROVE TypeInv
    OBVIOUS
  <1>1. NoVersions \in Versions
    BY FeedAssumption DEF NoVersions, Versions
  <1>2. /\ <<>> \in Seq(News) /\ <<>> \in Seq(Versions) /\ <<>> \in Seq(Snapshot \cup Delta)
        /\ Len(<<>>) = 0 /\ DOMAIN <<>> = {}
    OBVIOUS
  <1>3. /\ MaxReads \in Nat \ {0} /\ MaxDrops \in Nat /\ RingSize \in Nat /\ FeedSize \in Nat
    BY FeedAssumption
  <1>4. 1 \in 0..MaxReads /\ 1 + 0 <= MaxReads /\ MaxDrops \in 0..MaxDrops /\ 0 <= MaxReads
        /\ 0 <= RingSize /\ 0 <= FeedSize
    BY <1>3
  <1>5. TypeOK
    BY <1>1, <1>2, <1>4 DEF Init, TypeOK
  <1>6. QED
    BY <1>2, <1>5 DEF Init, TypeInv

LEMMA ReceiveTypes ==
  ASSUME TypeInv, Receive
  PROVE  TypeInv'
  <1> DEFINE m == Head(chan)
  <1>1. chan \in Seq(Messages) /\ chan # <<>>
    BY DEF TypeInv, TypeOK, Receive, Messages
  <1>2. /\ m \in Messages /\ m = chan[1] /\ 1 \in DOMAIN chan
        /\ chan' \in Seq(Messages)
        /\ \A i \in DOMAIN chan' : i + 1 \in DOMAIN chan /\ chan'[i] = chan[i + 1]
    <2>1. chan' = Tail(chan)
      BY DEF Receive
    <2>2. m = chan[1] /\ Len(chan) \in Nat \ {0}
      BY <1>1, EmptySeq
    <2>3. QED
      BY <1>1, <2>1, <2>2, HeadTailProperties
  <1>3. /\ feed \in Seq(News) /\ Len(feed) <= FeedSize /\ FeedSize \in Nat \ {0}
        /\ TailSize \in Nat /\ TailSize <= FeedSize /\ mirror \in Versions
        /\ rendered \in Seq(News)
    BY FeedAssumption DEF TypeInv, TypeOK
  <1>4. \A i \in DOMAIN chan' : chan'[i].type = "snapshot" => Len(chan'[i].events) <= TailSize
    BY <1>2 DEF TypeInv
  <1>5. UNCHANGED <<row, pending, inserted, log, ring, cache, reads, sock, asked, answers,
                    pollTimer, retryTimer, mode, drops>>
    BY DEF Receive, serverVars, pollVars
  <1> SUFFICES mirror' \in Versions /\ {feed', rendered'} \subseteq Seq(News)
               /\ Len(feed') <= FeedSize
    BY <1>2, <1>4, <1>5 DEF TypeInv, TypeOK, Messages
  <1>6. \/ /\ m.type = "snapshot" /\ mirror' = m.tasks /\ feed' = m.events
           /\ rendered' = rendered
        \/ /\ m.type = "task.updated" /\ feed' = feed /\ rendered' = rendered
           /\ mirror' = [mirror EXCEPT ![m.news.task] = m.news.version]
        \/ /\ m.type = "task.event" /\ mirror' = mirror
           /\ feed' = Append(LastOf(feed, FeedSize - 1), m.news) /\ rendered' = feed'
    BY DEF Receive
  <1>7. CASE m.type = "snapshot"
    <2>1. m \in Snapshot
      BY <1>2, <1>7 DEF Delta, Messages
    <2>2. m.tasks \in Versions /\ m.events \in Seq(News) /\ Len(m.events) <= TailSize
      BY <1>2, <1>7, <2>1 DEF Snapshot, TypeInv
    <2> HIDE DEF m
    <2>3. mirror' = m.tasks /\ feed' = m.events /\ rendered' = rendered
      BY <1>6, <1>7
    <2>4. Len(feed') <= FeedSize
      BY <1>3, <2>2, <2>3
    <2>5. QED
      BY <1>3, <2>2, <2>3, <2>4
  <1>8. CASE m.type # "snapshot"
    <2>1. m \in Delta
      BY <1>2, <1>8 DEF Snapshot, Messages
    <2>2. m.news \in News /\ m.news.task \in Tasks /\ m.news.version \in 0..MaxVersion
      BY <2>1, FeedAssumption DEF Delta, News
    <2> HIDE DEF m
    <2>3. CASE m.type = "task.updated"
      <3>1. /\ feed' = feed /\ rendered' = rendered
            /\ mirror' = [mirror EXCEPT ![m.news.task] = m.news.version]
        BY <1>6, <2>3
      <3>2. QED
        BY <1>3, <2>2, <3>1 DEF Versions
    <2>4. CASE m.type = "task.event"
      <3>1. LastOf(feed, FeedSize - 1) \in Seq(News) /\ Len(LastOf(feed, FeedSize - 1)) <= FeedSize - 1
        <4>1. FeedSize - 1 \in Nat /\ Len(feed) \in Nat
          BY <1>3
        <4>2. QED
          BY <1>3, <4>1, LastOfElements
      <3>2. mirror' = mirror /\ feed' = Append(LastOf(feed, FeedSize - 1), m.news) /\ rendered' = feed'
        BY <1>6, <2>4
      <3>3. feed' \in Seq(News) /\ Len(feed') <= FeedSize
        BY <1>3, <2>2, <3>1, <3>2, AppendProperties
      <3>4. QED
        BY <1>3, <3>2, <3>3
    <2>5. QED
      BY <1>6, <1>8, <2>3, <2>4
  <1>9. QED
    BY <1>7, <1>8

LEMMA TypeStep ==
  ASSUME TypeInv, [Next]_vars
  PROVE  TypeInv'
  <1> USE DEF TypeInv
  <1>a. /\ MaxReads \in Nat /\ MaxVersion \in Nat /\ MaxDrops \in Nat /\ RingSize \in Nat
        /\ TailSize \in Nat /\ FeedSize \in Nat /\ MaxReads > 0 /\ TailSize <= RingSize
    BY FeedAssumption
  <1>1. ASSUME NEW t \in Tasks, Change(t) \/ SilentChange(t) PROVE TypeInv'
    <2>1. row[t] \in 0..MaxVersion /\ row' = [row EXCEPT ![t] = row[t] + 1] /\ row[t] < MaxVersion
      <3>1. row[t] \in 0..MaxVersion
        BY DEF TypeOK, Versions
      <3>2. CASE Change(t)
        BY <3>1, <3>2 DEF Change
      <3>3. CASE SilentChange(t)
        BY <1>a, <3>1, <3>3 DEF SilentChange
      <3>4. QED
        BY <1>1, <3>2, <3>3
    <2>2. row' \in Versions
      <3>1. row[t] + 1 \in 0..MaxVersion
        BY <1>a, <2>1
      <3>2. row \in [Tasks -> 0..MaxVersion]
        BY DEF TypeOK, Versions
      <3>3. QED
        BY <2>1, <3>1, <3>2 DEF Versions
    <2>3. pending' \subseteq News
      <3>1. [task |-> t, version |-> row[t] + 1] \in News
        BY <1>a, <2>1 DEF News
      <3>2. QED
        BY <1>1, <3>1 DEF Change, SilentChange, TypeOK
    <2>4. QED
      BY <1>1, <2>2, <2>3 DEF Change, SilentChange, TypeOK, viewVars, pollVars
  <1>2. ASSUME NEW n \in News, InsertEvent(n) \/ BreakEvent(n) PROVE TypeInv'
    <2>1. log \in Seq(News) => Append(log, n) \in Seq(News)
      BY AppendProperties
    <2>2. pending' \subseteq News /\ inserted' \subseteq News /\ log' \in Seq(News)
      BY <1>2, <2>1 DEF InsertEvent, BreakEvent, TypeOK
    <2>3. QED
      BY <1>2, <2>2 DEF InsertEvent, BreakEvent, TypeOK, viewVars, pollVars
  <1>3. ASSUME NEW n \in News, Announce(n) PROVE TypeInv'
    <2>1. ring' \in Seq(News) /\ Len(ring') <= RingSize
      <3>1. ring \in Seq(News) /\ Append(ring, n) \in Seq(News)
        BY AppendProperties DEF TypeOK
      <3>2. QED
        <4>1. ring' = LastOf(Append(ring, n), RingSize)
          BY <1>3 DEF Announce, Push
        <4>2. QED
          BY <1>a, <3>1, <4>1, LastOfShort
    <2>2. chan \in Seq(Messages)
      BY DEF TypeOK, Messages
    <2>3. CASE Attached
      <3>1. chan' = chan \o Sent(n)
        BY <1>3, <2>3 DEF Announce
      <3>2. /\ chan' \in Seq(Messages) /\ Len(chan') = Len(chan) + 2
            /\ \A i \in 1..Len(chan) + 2 :
                 chan'[i] = IF i <= Len(chan) THEN chan[i] ELSE Sent(n)[i - Len(chan)]
        <4>1. Sent(n) \in Seq(Messages) /\ Len(Sent(n)) = 2
          BY SentType
        <4>2. /\ chan \o Sent(n) \in Seq(Messages) /\ Len(chan \o Sent(n)) = Len(chan) + Len(Sent(n))
              /\ \A i \in 1..Len(chan) + Len(Sent(n)) :
                   (chan \o Sent(n))[i] = IF i <= Len(chan) THEN chan[i] ELSE Sent(n)[i - Len(chan)]
          BY <2>2, <4>1, ConcatProperties
        <4>3. QED
          BY <3>1, <4>1, <4>2
      <3>3. \A i \in DOMAIN chan' : chan'[i].type = "snapshot" => i \in DOMAIN chan /\ chan'[i] = chan[i]
        <4> TAKE i \in DOMAIN chan'
        <4>1. i \in 1..Len(chan) + 2 /\ Len(chan) \in Nat
          BY <2>2, <3>2
        <4>2. CASE i <= Len(chan)
          BY <2>2, <3>2, <4>1, <4>2
        <4>3. CASE i = Len(chan) + 1 \/ i = Len(chan) + 2
          <5>1. i - Len(chan) = 1 \/ i - Len(chan) = 2
            BY <4>1, <4>3
          <5>2. chan'[i] = Sent(n)[i - Len(chan)]
            <6>1. ~(i <= Len(chan))
              BY <4>1, <4>3
            <6>2. QED
              BY <3>2, <4>1, <6>1
          <5>3. chan'[i].type # "snapshot"
            <6>1. Sent(n)[1].type = "task.event" /\ Sent(n)[2].type = "task.updated"
              BY DEF Sent
            <6>2. QED
              BY <5>1, <5>2, <6>1
          <5>4. QED
            BY <5>3
        <4>4. QED
          BY <4>1, <4>2, <4>3
      <3>4. \A i \in DOMAIN chan' : chan'[i].type = "snapshot" => Len(chan'[i].events) <= TailSize
        BY <3>3
      <3>5. QED
        BY <1>3, <2>1, <3>2, <3>4 DEF Announce, TypeOK, Messages, viewVars, pollVars
    <2>4. CASE ~Attached
      BY <1>3, <2>1, <2>4 DEF Announce, TypeOK, viewVars, pollVars
    <2>5. QED
      BY <2>3, <2>4
  <1>4. CASE RefreshRead
    <2>1. reads \in Seq(Versions) /\ Len(reads) < MaxReads /\ row \in Versions /\ reads' = Append(reads, row)
      BY <1>4 DEF RefreshRead, TypeOK
    <2>2. reads' \in Seq(Versions) /\ Len(reads') <= MaxReads
      BY <1>a, <2>1, AppendProperties
    <2>3. QED
      BY <1>4, <2>2 DEF RefreshRead, TypeOK, viewVars, pollVars
  <1>5. ASSUME NEW i \in DOMAIN reads, RefreshStore(i) PROVE TypeInv'
    <2>1. reads \in Seq(Versions) /\ Len(reads) <= MaxReads /\ reads[i] \in Versions
      BY DEF TypeOK
    <2>2. reads' \in Seq(Versions) /\ Len(reads') = Len(reads) - 1 /\ cache' \in Versions
      BY <1>5, <2>1, RemovedAt DEF RefreshStore
    <2>3. Len(reads') <= MaxReads
      BY <1>a, <2>1, <2>2
    <2>4. QED
      BY <1>5, <2>2, <2>3 DEF RefreshStore, TypeOK, viewVars, pollVars
  <1>6. CASE Restart
    <2>1. ring' \in Seq(News) /\ Len(ring') <= RingSize
      BY <1>6, <1>a, LastOfShort DEF Restart, Warmed, TypeOK
    <2>2. NoVersions \in Versions
      BY <1>a DEF NoVersions, Versions
    <2>3. /\ <<>> \in Seq(Versions) /\ <<>> \in Seq(Snapshot \cup Delta)
          /\ Len(<<>>) = 0 /\ DOMAIN <<>> = {}
      OBVIOUS
    <2>4. 0 + Len(answers) <= MaxReads /\ 0 \in 0..MaxReads /\ drops - 1 \in 0..MaxDrops
      BY <1>6, <1>a DEF Restart, TypeOK
    <2>5. QED
      BY <1>6, <1>a, <2>1, <2>2, <2>3, <2>4 DEF Restart, TypeOK, viewVars
  <1>7. CASE Attach
    <2>1. /\ LastOf(ring, TailSize) \in Seq(News) /\ Len(LastOf(ring, TailSize)) <= TailSize
      BY <1>a, LastOfShort DEF TypeOK
    <2> DEFINE m == [type |-> "snapshot", tasks |-> cache, events |-> LastOf(ring, TailSize)]
    <2>2. m \in Snapshot /\ Len(m.events) <= TailSize
      BY <2>1 DEF Snapshot, TypeOK
    <2>3. chan' = <<m>>
      BY <1>7 DEF Attach
    <2> HIDE DEF m
    <2>4. chan' \in Seq(Snapshot \cup Delta) /\ \A i \in DOMAIN chan' : chan'[i] = m
      BY <2>2, <2>3
    <2>5. QED
      BY <1>7, <2>2, <2>4 DEF Attach, TypeOK, serverVars, viewVars, pollVars
  <1>8. CASE Opened
    BY <1>8 DEF Opened, OpenedStopsPolling, TypeOK, serverVars, viewVars
  <1>9. CASE Receive
    BY <1>9, ReceiveTypes
  <1>10. CASE Drop \/ Closed \/ Reconnect
    <2>1. <<>> \in Seq(Snapshot \cup Delta) /\ DOMAIN <<>> = {}
      OBVIOUS
    <2>2. drops > 0 => drops - 1 \in 0..MaxDrops
      BY <1>a DEF TypeOK
    <2>3. Len(answers) \in Nat /\ asked \in 0..MaxReads /\ asked + Len(answers) <= MaxReads
      BY DEF TypeOK
    <2>4. asked + Len(answers) < MaxReads => asked + 1 \in 0..MaxReads /\ asked + 1 + Len(answers) <= MaxReads
      BY <1>a, <2>3
    <2>5. CASE Drop
      BY <2>1, <2>2, <2>5 DEF Drop, TypeOK, serverVars, viewVars, pollVars
    <2>6. CASE Closed
      BY <2>3, <2>4, <2>6 DEF Closed, StartPolling, TypeOK, serverVars, viewVars
    <2>7. CASE Reconnect
      BY <2>7 DEF Reconnect, TypeOK, serverVars, viewVars, pollVars
    <2>8. QED
      BY <1>10, <2>5, <2>6, <2>7
  <1>11. CASE Poll
    <2>1. answers \in Seq(Versions) /\ Len(answers) \in Nat /\ asked \in 0..MaxReads
          /\ asked + Len(answers) <= MaxReads /\ row \in Versions
      BY DEF TypeOK
    <2>2. CASE PollAsk
      <3>1. asked' \in 0..MaxReads /\ asked' + Len(answers) <= MaxReads
        BY <1>a, <2>1, <2>2 DEF PollAsk
      <3>2. QED
        BY <2>2, <3>1 DEF PollAsk, TypeOK, serverVars, viewVars
    <2>3. CASE PollServe
      <3>1. /\ answers' \in Seq(Versions) /\ Len(answers') = Len(answers) + 1
            /\ asked' = asked - 1 /\ asked' \in 0..MaxReads
        BY <1>a, <2>1, <2>3, AppendProperties DEF PollServe
      <3>2. asked' + Len(answers') <= MaxReads
        BY <1>a, <2>1, <3>1
      <3>3. QED
        BY <2>3, <3>1, <3>2 DEF PollServe, TypeOK, serverVars, viewVars
    <2>4. ASSUME NEW i \in DOMAIN answers, PollReceive(i) PROVE TypeInv'
      <3>1. answers' \in Seq(Versions) /\ Len(answers') = Len(answers) - 1 /\ mirror' \in Versions
        BY <2>1, <2>4, RemovedAt DEF PollReceive, Polled
      <3>2. asked + Len(answers') <= MaxReads
        BY <1>a, <2>1, <3>1
      <3>3. QED
        BY <2>4, <3>1, <3>2 DEF PollReceive, TypeOK, serverVars
    <2>5. QED
      BY <1>11, <2>2, <2>3, <2>4 DEF Poll
  <1>12. CASE OpenPage
    BY <1>12 DEF OpenPage, TypeOK, serverVars, pollVars
  <1>13. CASE UNCHANGED vars
    BY <1>13 DEF vars, serverVars, viewVars, pollVars, TypeOK
  <1>14. QED
    BY <1>1, <1>2, <1>3, <1>4, <1>5, <1>6, <1>7, <1>8, <1>9, <1>10, <1>11, <1>12, <1>13
       DEF Next, Publish, Refresh

\* Every variable of the live feed keeps its type and every queue its bound.
THEOREM TypeCorrect == Spec => []TypeOK
  <1>1. TypeInv /\ [Next]_vars => TypeInv'
    BY TypeStep
  <1>2. TypeInv => TypeOK
    BY DEF TypeInv
  <1>3. QED
    BY TypeInit, <1>1, <1>2, PTL DEF Spec

-----------------------------------------------------------------------------
(* The newest events of two sequences *)

\* s ends like r, as far as both go; if s is the shorter one it has a tail's length.
Agree(s, r) ==
    LET n == IF Len(s) < Len(r) THEN Len(s) ELSE Len(r)
    IN  /\ \A i \in 0..n - 1 : s[Len(s) - i] = r[Len(r) - i]
        /\ n = Len(r) \/ n >= TailSize

\* The newest elements keep their place, counted from the end.
LEMMA LastOfFromEnd ==
  ASSUME NEW S, NEW s \in Seq(S), NEW m \in Nat
  PROVE  LET l == LastOf(s, m)
         IN  /\ l \in Seq(S) /\ Len(l) \in Nat /\ Len(s) \in Nat
             /\ Len(l) <= Len(s) /\ (Len(l) = m \/ Len(l) = Len(s))
             /\ \A i \in 0..Len(l) - 1 : l[Len(l) - i] = s[Len(s) - i]
  <1> DEFINE k == IF Len(s) > m THEN Len(s) - m ELSE 0
             l == LastOf(s, m)
  <1>1. /\ l \in Seq(S) /\ Len(l) = Len(s) - k
        /\ \A i \in 1..Len(s) - k : l[i] = s[i + k]
    BY LastOfElements
  <1>2. Len(s) \in Nat /\ k \in Nat /\ k <= Len(s) /\ (k = 0 \/ Len(s) - k = m)
    OBVIOUS
  <1> HIDE DEF k, l
  <1>3. \A i \in 0..Len(l) - 1 : l[Len(l) - i] = s[Len(s) - i]
    <2> TAKE i \in 0..Len(l) - 1
    <2>1. Len(l) - i \in 1..Len(s) - k /\ Len(l) - i + k = Len(s) - i
      BY <1>1, <1>2
    <2>2. QED
      BY <1>1, <2>1
  <1>4. QED
    BY <1>1, <1>2, <1>3 DEF l

LEMMA AgreeTail ==
  ASSUME NEW S, NEW s \in Seq(S), NEW r \in Seq(S), NEW m \in Nat, m >= TailSize, Agree(s, r)
  PROVE  Agree(LastOf(s, m), r)
  <1> DEFINE l == LastOf(s, m)
  <1>1. /\ Len(l) \in Nat /\ Len(s) \in Nat /\ Len(l) <= Len(s) /\ (Len(l) = m \/ Len(l) = Len(s))
        /\ \A i \in 0..Len(l) - 1 : l[Len(l) - i] = s[Len(s) - i]
    BY LastOfFromEnd
  <1>2. Len(r) \in Nat /\ TailSize \in Nat
    BY FeedAssumption
  <1> HIDE DEF l
  <1> DEFINE n == IF Len(s) < Len(r) THEN Len(s) ELSE Len(r)
             o == IF Len(l) < Len(r) THEN Len(l) ELSE Len(r)
  <1>3. /\ \A i \in 0..n - 1 : s[Len(s) - i] = r[Len(r) - i]
        /\ n = Len(r) \/ n >= TailSize
    BY DEF Agree
  <1>4. n \in Nat /\ o \in Nat /\ o <= n /\ o <= Len(l)
    BY <1>1, <1>2
  <1>5. o = Len(r) \/ o >= TailSize
    BY <1>1, <1>2, <1>3
  <1> HIDE DEF n, o
  <1>6. ASSUME NEW i \in 0..o - 1 PROVE l[Len(l) - i] = r[Len(r) - i]
    <2>1. i \in 0..n - 1 /\ i \in 0..Len(l) - 1
      BY <1>1, <1>4
    <2>2. QED
      BY <1>1, <1>3, <2>1
  <1>7. QED
    BY <1>5, <1>6 DEF Agree, o, l

LEMMA AgreeRing ==
  ASSUME NEW S, NEW s \in Seq(S), NEW r \in Seq(S), NEW m \in Nat, Agree(s, r)
  PROVE  Agree(s, LastOf(r, m))
  <1> DEFINE l == LastOf(r, m)
  <1>1. /\ Len(l) \in Nat /\ Len(r) \in Nat /\ Len(l) <= Len(r)
        /\ \A i \in 0..Len(l) - 1 : l[Len(l) - i] = r[Len(r) - i]
    BY LastOfFromEnd
  <1>2. Len(s) \in Nat /\ TailSize \in Nat
    BY FeedAssumption
  <1> HIDE DEF l
  <1> DEFINE n == IF Len(s) < Len(r) THEN Len(s) ELSE Len(r)
             o == IF Len(s) < Len(l) THEN Len(s) ELSE Len(l)
  <1>3. /\ \A i \in 0..n - 1 : s[Len(s) - i] = r[Len(r) - i]
        /\ n = Len(r) \/ n >= TailSize
    BY DEF Agree
  <1>4. n \in Nat /\ o \in Nat /\ o <= n /\ o <= Len(l)
    BY <1>1, <1>2
  <1>5. o = Len(l) \/ o >= TailSize
    BY <1>1, <1>2, <1>3
  <1> HIDE DEF n, o
  <1>6. ASSUME NEW i \in 0..o - 1 PROVE s[Len(s) - i] = l[Len(l) - i]
    <2>1. i \in 0..n - 1 /\ i \in 0..Len(l) - 1
      BY <1>1, <1>4
    <2>2. QED
      BY <1>1, <1>3, <2>1
  <1>7. QED
    BY <1>5, <1>6 DEF Agree, o, l

LEMMA AgreeAppend ==
  ASSUME NEW S, NEW s \in Seq(S), NEW r \in Seq(S), NEW x \in S, Agree(s, r)
  PROVE  Agree(Append(s, x), Append(r, x))
  <1> DEFINE s1 == Append(s, x)
             r1 == Append(r, x)
  <1>1. /\ Len(s1) = Len(s) + 1 /\ s1[Len(s) + 1] = x /\ \A i \in 1..Len(s) : s1[i] = s[i]
        /\ Len(r1) = Len(r) + 1 /\ r1[Len(r) + 1] = x /\ \A i \in 1..Len(r) : r1[i] = r[i]
    BY AppendProperties
  <1>2. Len(s) \in Nat /\ Len(r) \in Nat /\ TailSize \in Nat
    BY FeedAssumption
  <1> HIDE DEF s1, r1
  <1> DEFINE n == IF Len(s) < Len(r) THEN Len(s) ELSE Len(r)
             o == IF Len(s1) < Len(r1) THEN Len(s1) ELSE Len(r1)
  <1>3. /\ \A i \in 0..n - 1 : s[Len(s) - i] = r[Len(r) - i]
        /\ n = Len(r) \/ n >= TailSize
    BY DEF Agree
  <1>4. n \in Nat /\ o = n + 1 /\ n <= Len(s) /\ n <= Len(r)
    BY <1>1, <1>2
  <1>5. o = Len(r1) \/ o >= TailSize
    BY <1>1, <1>2, <1>3, <1>4
  <1> HIDE DEF n, o
  <1>6. ASSUME NEW i \in 0..o - 1 PROVE s1[Len(s1) - i] = r1[Len(r1) - i]
    <2>1. CASE i = 0
      BY <1>1, <1>2, <2>1
    <2>2. CASE i # 0
      <3>1. i - 1 \in 0..n - 1
        BY <1>4, <2>2
      <3>2. Len(s1) - i \in 1..Len(s) /\ Len(s1) - i = Len(s) - (i - 1)
        BY <1>1, <1>2, <1>4, <2>2
      <3>3. Len(r1) - i \in 1..Len(r) /\ Len(r1) - i = Len(r) - (i - 1)
        BY <1>1, <1>2, <1>4, <2>2
      <3>4. s1[Len(s1) - i] = s[Len(s) - (i - 1)]
        BY <1>1, <3>2
      <3>5. r1[Len(r1) - i] = r[Len(r) - (i - 1)]
        BY <1>1, <3>3
      <3>6. s[Len(s) - (i - 1)] = r[Len(r) - (i - 1)]
        BY <1>3, <3>1
      <3>7. QED
        BY <3>4, <3>5, <3>6
    <2>3. QED
      BY <2>1, <2>2
  <1>7. QED
    BY <1>5, <1>6 DEF Agree, o, s1, r1

-----------------------------------------------------------------------------
(* The events on their way *)

\* What a socket carries: at most one message that stands alone, a snapshot or
\* an update whose event has been received, then pairs of an event and an update.
Pairs(c, lead, n) ==
    /\ Len(c) = lead + 2 * n
    /\ lead = 1 => c[1].type \in {"snapshot", "task.updated"}
    /\ \A i \in 1..n : c[lead + 2 * i - 1].type = "task.event" /\ c[lead + 2 * i].type = "task.updated"

\* The feed that these events extend: a snapshot replaces what is shown.
Base(c, f) == IF Len(c) # 0 /\ c[1].type = "snapshot" THEN c[1].events ELSE f

Extends(s, b, c, lead, n) ==
    /\ Len(s) = Len(b) + n
    /\ \A i \in 1..Len(b) : s[i] = b[i]
    /\ \A i \in 1..n : s[Len(b) + i] = c[lead + 2 * i - 1].news

Follows(c, f, r) ==
    \E lead \in {0, 1}, n \in Nat, s \in Seq(News) :
        /\ Pairs(c, lead, n) /\ Extends(s, Base(c, f), c, lead, n) /\ Agree(s, r)

\* Whatever has been sent on a socket since it was attached continues the feed
\* of the dashboard to one that ends like the ring.
FeedInv == Attached => Follows(chan, feed, ring)

LEMMA BaseType ==
  ASSUME NEW c \in Seq(Messages), NEW f \in Seq(News)
  PROVE  Base(c, f) \in Seq(News)
  <1>1. CASE Len(c) # 0 /\ c[1].type = "snapshot"
    <2>1. c[1] \in Messages
      <3>1. 1 \in 1..Len(c)
        BY <1>1
      <3>2. QED
        BY <3>1
    <2>2. c[1] \in Snapshot
      BY <1>1, <2>1 DEF Messages, Delta
    <2>3. QED
      BY <1>1, <2>2 DEF Base, Snapshot
  <1>2. CASE ~(Len(c) # 0 /\ c[1].type = "snapshot")
    BY <1>2 DEF Base
  <1>3. QED
    BY <1>1, <1>2

LEMMA FeedInit == Init => FeedInv
  BY DEF Init, FeedInv, Attached

LEMMA AttachFollows ==
  ASSUME TypeInv, Attach
  PROVE  FeedInv'
  <1> DEFINE s == LastOf(ring, TailSize)
             m == [type |-> "snapshot", tasks |-> cache, events |-> s]
             c == <<m>>
  <1>1. chan' = c /\ ring' = ring /\ ring \in Seq(News) /\ TailSize \in Nat
    BY FeedAssumption DEF Attach, serverVars, TypeInv, TypeOK
  <1>2. s \in Seq(News)
    BY <1>1, LastOfShort
  <1>3. Agree(ring, ring)
    <2>1. Len(ring) \in Nat
      BY <1>1
    <2>2. QED
      BY <2>1 DEF Agree
  <1>4. Agree(s, ring)
    BY <1>1, <1>3, AgreeTail
  <1>5. Len(c) = 1 /\ c[1].type = "snapshot" /\ c[1].events = s
    OBVIOUS
  <1> HIDE DEF s, m, c
  <1>6. Pairs(c, 1, 0)
    BY <1>5 DEF Pairs
  <1>7. Base(c, feed') = s
    BY <1>5 DEF Base
  <1>8. Extends(s, s, c, 1, 0)
    <2>1. Len(s) \in Nat
      BY <1>2
    <2>2. QED
      BY <2>1 DEF Extends
  <1>9. Follows(c, feed', ring)
    BY <1>2, <1>4, <1>6, <1>7, <1>8 DEF Follows
  <1>10. QED
    BY <1>1, <1>9 DEF FeedInv

LEMMA AnnounceFollows ==
  ASSUME TypeInv, FeedInv, NEW x \in News, Announce(x)
  PROVE  FeedInv'
  <1> SUFFICES ASSUME Attached PROVE Follows(chan', feed, ring')
    BY DEF Announce, FeedInv, Attached, viewVars
  <1>1. /\ chan \in Seq(Messages) /\ ring \in Seq(News) /\ feed \in Seq(News) /\ RingSize \in Nat
    BY FeedAssumption DEF TypeInv, TypeOK, Messages
  <1>2. PICK lead \in {0, 1}, n \in Nat, s \in Seq(News) :
             Pairs(chan, lead, n) /\ Extends(s, Base(chan, feed), chan, lead, n) /\ Agree(s, ring)
    BY DEF FeedInv, Follows
  <1> DEFINE t == Append(s, x)
             c == chan \o Sent(x)
             e == Sent(x)
  <1>3. chan' = c /\ ring' = LastOf(Append(ring, x), RingSize)
    BY DEF Announce, Push
  <1>4. Agree(t, ring') /\ t \in Seq(News)
    <2>1. Append(ring, x) \in Seq(News) /\ t \in Seq(News) /\ Agree(t, Append(ring, x))
      BY <1>1, <1>2, AgreeAppend, AppendProperties
    <2>2. QED
      BY <1>1, <1>3, <2>1, AgreeRing
  <1>5. Len(t) = Len(s) + 1 /\ t[Len(s) + 1] = x /\ \A i \in 1..Len(s) : t[i] = s[i]
    BY AppendProperties
  <1>6. e \in Seq(Messages) /\ Len(e) = 2
    BY SentType
  <1>7. e[1].type = "task.event" /\ e[1].news = x /\ e[2].type = "task.updated"
    BY DEF Sent
  <1>8. /\ Len(c) = Len(chan) + 2
        /\ \A i \in 1..Len(chan) + 2 : c[i] = IF i <= Len(chan) THEN chan[i] ELSE e[i - Len(chan)]
    <2>1. /\ Len(c) = Len(chan) + Len(e)
          /\ \A i \in 1..Len(chan) + Len(e) : c[i] = IF i <= Len(chan) THEN chan[i] ELSE e[i - Len(chan)]
      BY <1>1, <1>6, ConcatProperties
    <2>2. QED
      BY <1>6, <2>1
  <1> DEFINE l == Len(chan)
  <1>9. l \in Nat /\ l = lead + 2 * n
    BY <1>1, <1>2 DEF Pairs
  <1>10. /\ \A i \in 1..l : c[i] = chan[i]
         /\ c[l + 1] = e[1] /\ c[l + 2] = e[2]
    <2>1. \A i \in 1..l : c[i] = chan[i]
      BY <1>8, <1>9
    <2>2. c[l + 1] = e[l + 1 - l] /\ c[l + 2] = e[l + 2 - l]
      <3>1. l + 1 \in 1..l + 2 /\ l + 2 \in 1..l + 2 /\ ~(l + 1 <= l) /\ ~(l + 2 <= l)
        BY <1>9
      <3>2. QED
        BY <1>8, <3>1
    <2>3. l + 1 - l = 1 /\ l + 2 - l = 2
      BY <1>9
    <2>4. QED
      BY <2>1, <2>2, <2>3
  <1> HIDE DEF t, c, e, l
  <1>11. \A i \in 1..n : lead + 2 * i - 1 \in 1..l /\ lead + 2 * i \in 1..l
    BY <1>9
  <1>12. l + 1 = lead + 2 * (n + 1) - 1 /\ l + 2 = lead + 2 * (n + 1)
    BY <1>9
  <1>13. Pairs(c, lead, n + 1)
    <2>1. Len(c) = lead + 2 * (n + 1)
      BY <1>8, <1>9 DEF l
    <2>2. lead = 1 => c[1].type \in {"snapshot", "task.updated"}
      <3>1. lead = 1 => 1 \in 1..l
        BY <1>9
      <3>2. QED
        BY <1>2, <1>10, <3>1 DEF Pairs
    <2>3. ASSUME NEW i \in 1..n + 1
          PROVE  c[lead + 2 * i - 1].type = "task.event" /\ c[lead + 2 * i].type = "task.updated"
      <3>1. CASE i = n + 1
        BY <1>7, <1>10, <1>12, <3>1
      <3>2. CASE i \in 1..n
        BY <1>2, <1>10, <1>11, <3>2 DEF Pairs
      <3>3. QED
        BY <3>1, <3>2
    <2>4. QED
      BY <2>1, <2>2, <2>3 DEF Pairs
  <1>14. Base(c, feed) = Base(chan, feed)
    <2>1. CASE l = 0
      <3>1. c[1].type # "snapshot"
        BY <1>7, <1>10, <2>1
      <3>2. QED
        BY <2>1, <3>1 DEF Base, l
    <2>2. CASE l # 0
      <3>1. 1 \in 1..l /\ Len(c) # 0
        BY <1>8, <1>9, <2>2 DEF l
      <3>2. c[1] = chan[1]
        BY <1>10, <3>1
      <3>3. QED
        BY <2>2, <3>1, <3>2 DEF Base, l
    <2>3. QED
      BY <2>1, <2>2
  <1> DEFINE b == Base(chan, feed)
  <1>15. Len(s) = Len(b) + n /\ Len(b) \in Nat
    <2>1. Len(s) = Len(b) + n
      BY <1>2 DEF Extends
    <2>2. b \in Seq(News)
      BY <1>1, BaseType
    <2>3. QED
      BY <2>1, <2>2
  <1>16. Extends(t, b, c, lead, n + 1)
    <2>1. Len(t) = Len(b) + (n + 1)
      BY <1>5, <1>15
    <2>2. \A i \in 1..Len(b) : t[i] = b[i]
      <3>1. \A i \in 1..Len(b) : i \in 1..Len(s)
        BY <1>15
      <3>2. QED
        BY <1>2, <1>5, <3>1 DEF Extends
    <2>3. ASSUME NEW i \in 1..n + 1
          PROVE  t[Len(b) + i] = c[lead + 2 * i - 1].news
      <3>1. CASE i = n + 1
        <4>1. Len(b) + i = Len(s) + 1
          BY <1>15, <3>1
        <4>2. QED
          BY <1>5, <1>7, <1>10, <1>12, <3>1, <4>1
      <3>2. CASE i \in 1..n
        <4>1. Len(b) + i \in 1..Len(s)
          BY <1>15, <3>2
        <4>2. t[Len(b) + i] = s[Len(b) + i]
          BY <1>5, <4>1
        <4>3. s[Len(b) + i] = chan[lead + 2 * i - 1].news
          BY <1>2, <3>2 DEF Extends
        <4>4. c[lead + 2 * i - 1] = chan[lead + 2 * i - 1]
          BY <1>10, <1>11, <3>2
        <4>5. QED
          BY <4>2, <4>3, <4>4
      <3>3. QED
        BY <3>1, <3>2
    <2>4. QED
      BY <2>1, <2>2, <2>3 DEF Extends
  <1>17. n + 1 \in Nat
    OBVIOUS
  <1>18. Follows(c, feed, ring')
    BY <1>4, <1>13, <1>14, <1>16, <1>17 DEF Follows
  <1>19. QED
    BY <1>3, <1>18 DEF c

\* The message that stands alone is received: a snapshot takes the place of the
\* feed, and an update leaves it.
LEMMA ReceiveAlone ==
  ASSUME NEW c \in Seq(Messages), NEW f \in Seq(News), NEW n \in Nat, NEW s \in Seq(News),
         c # <<>>, Pairs(c, 1, n), Extends(s, Base(c, f), c, 1, n), NEW g, g = Base(c, f)
  PROVE  Pairs(Tail(c), 0, n) /\ Extends(s, Base(Tail(c), g), Tail(c), 0, n)
  <1> DEFINE d == Tail(c)
  <1>1. /\ Len(d) = Len(c) - 1 /\ \A i \in 1..Len(d) : d[i] = c[i + 1]
        /\ Len(c) \in Nat
    BY HeadTailProperties
  <1>2. Len(c) = 1 + 2 * n
    BY DEF Pairs
  <1> HIDE DEF d
  <1>3. \A i \in 1..n : d[0 + 2 * i - 1] = c[1 + 2 * i - 1] /\ d[0 + 2 * i] = c[1 + 2 * i]
    <2> TAKE i \in 1..n
    <2>1. 2 * i - 1 \in 1..Len(d) /\ 2 * i \in 1..Len(d)
      BY <1>1, <1>2
    <2>2. d[2 * i - 1] = c[2 * i - 1 + 1] /\ d[2 * i] = c[2 * i + 1]
      BY <1>1, <2>1
    <2>3. 2 * i - 1 + 1 = 1 + 2 * i - 1 /\ 2 * i + 1 = 1 + 2 * i /\ 0 + 2 * i - 1 = 2 * i - 1
          /\ 0 + 2 * i = 2 * i
      OBVIOUS
    <2>4. QED
      BY <2>2, <2>3
  <1>4. Pairs(d, 0, n)
    <2>1. Len(d) = 0 + 2 * n
      BY <1>1, <1>2
    <2>2. QED
      BY <1>3, <2>1 DEF Pairs
  <1>5. Base(d, g) = g
    <2>1. CASE n = 0
      BY <1>1, <1>2, <2>1 DEF Base
    <2>2. CASE n # 0
      <3>1. 1 \in 1..n /\ 0 + 2 * 1 - 1 = 1
        BY <2>2
      <3>2. d[1].type = "task.event"
        BY <1>4, <3>1 DEF Pairs
      <3>3. QED
        BY <3>2 DEF Base
    <2>3. QED
      BY <2>1, <2>2
  <1>6. Extends(s, g, d, 0, n)
    BY <1>3 DEF Extends
  <1>7. QED
    BY <1>4, <1>5, <1>6 DEF d

\* An event is received: it moves to the feed, which lets its oldest events go.
LEMMA ReceiveEvent ==
  ASSUME NEW c \in Seq(Messages), NEW f \in Seq(News), NEW n \in Nat, NEW s \in Seq(News),
         NEW r \in Seq(News),
         c # <<>>, Pairs(c, 0, n), Extends(s, f, c, 0, n), Agree(s, r)
  PROVE  Follows(Tail(c), Append(LastOf(f, FeedSize - 1), c[1].news), r)
  <1>a. FeedSize \in Nat \ {0} /\ TailSize \in Nat \ {0} /\ TailSize <= FeedSize
    BY FeedAssumption
  <1> DEFINE d == Tail(c)
             x == c[1].news
             k == IF Len(f) > FeedSize - 1 THEN Len(f) - (FeedSize - 1) ELSE 0
             l == LastOf(f, FeedSize - 1)
             g == Append(l, x)
             t == LastOf(s, Len(s) - k)
  <1>1. /\ Len(d) = Len(c) - 1 /\ \A i \in 1..Len(d) : d[i] = c[i + 1]
        /\ Len(c) \in Nat \ {0} /\ Len(f) \in Nat /\ Len(s) \in Nat
    BY HeadTailProperties, EmptySeq
  <1>2. Len(c) = 2 * n /\ n \in Nat \ {0}
    BY <1>1 DEF Pairs
  <1>3. Len(s) = Len(f) + n
    BY DEF Extends
  <1>4. k \in Nat /\ k <= Len(f) /\ (k = 0 \/ Len(f) - k = FeedSize - 1)
    BY <1>1, <1>a
  <1>5. l \in Seq(News) /\ Len(l) = Len(f) - k /\ \A i \in 1..Len(f) - k : l[i] = f[i + k]
    <2>1. FeedSize - 1 \in Nat
      BY <1>a
    <2>2. QED
      BY <2>1, LastOfElements
  <1>6. x \in News
    <2>1. c[1] \in Messages /\ c[0 + 2 * 1 - 1] = c[1]
      <3>1. 1 \in 1..Len(c)
        BY <1>1
      <3>2. QED
        BY <3>1
    <2>2. c[1].type = "task.event"
      <3>1. 1 \in 1..n
        BY <1>2
      <3>2. QED
        BY <2>1, <3>1 DEF Pairs
    <2>3. QED
      BY <2>1, <2>2 DEF Messages, Snapshot, Delta
  <1> HIDE DEF k
  <1>7. Len(s) - k \in Nat
    BY <1>1, <1>3, <1>4
  <1>8. t \in Seq(News) /\ Len(t) = Len(s) - k /\ \A i \in 1..Len(s) - k : t[i] = s[i + k]
    <2> DEFINE j == IF Len(s) > Len(s) - k THEN Len(s) - (Len(s) - k) ELSE 0
    <2>1. /\ t \in Seq(News) /\ Len(t) = Len(s) - j
          /\ \A i \in 1..Len(s) - j : t[i] = s[i + j]
      BY <1>7, LastOfElements
    <2>2. j = k
      BY <1>1, <1>4
    <2> HIDE DEF j, t
    <2>3. QED
      BY <2>1, <2>2
  <1>9. Agree(t, r)
    <2>1. CASE k = 0
      <3>1. Len(t) = Len(s) /\ \A i \in 1..Len(s) : t[i] = s[i]
        BY <1>1, <1>8, <2>1
      <3>2. t = s
        BY <1>8, <3>1, SeqEqual
      <3>3. QED
        BY <3>2
    <2>2. CASE k # 0
      <3>1. Len(s) - k >= TailSize
        BY <1>1, <1>2, <1>3, <1>4, <1>a, <2>2
      <3>2. QED
        BY <1>7, <3>1, AgreeTail
    <2>3. QED
      BY <2>1, <2>2
  <1>10. g \in Seq(News) /\ Len(g) = Len(l) + 1 /\ g[Len(l) + 1] = x /\ \A i \in 1..Len(l) : g[i] = l[i]
    BY <1>5, <1>6, AppendProperties
  <1>11. \A i \in 1..n : s[Len(f) + i] = c[2 * i - 1].news
    BY DEF Extends
  <1>12. \A i \in 1..Len(f) : s[i] = f[i]
    BY DEF Extends
  <1>13. \A i \in 1..n : c[2 * i - 1].type = "task.event" /\ c[2 * i].type = "task.updated"
    BY DEF Pairs
  <1> HIDE DEF d, g, t, l, x
  <1>14. \A i \in 1..n - 1 : /\ d[1 + 2 * i - 1] = c[2 * (i + 1) - 1] /\ d[1 + 2 * i] = c[2 * (i + 1)]
                            /\ i + 1 \in 1..n
    <2> TAKE i \in 1..n - 1
    <2>1. 2 * i \in 1..Len(d) /\ 2 * i + 1 \in 1..Len(d) /\ i + 1 \in 1..n
      BY <1>1, <1>2
    <2>2. d[2 * i] = c[2 * i + 1] /\ d[2 * i + 1] = c[2 * i + 1 + 1]
      BY <1>1, <2>1
    <2>3. 1 + 2 * i - 1 = 2 * i /\ 1 + 2 * i = 2 * i + 1 /\ 2 * (i + 1) - 1 = 2 * i + 1
          /\ 2 * (i + 1) = 2 * i + 1 + 1
      BY <2>1
    <2>4. QED
      BY <2>1, <2>2, <2>3
  <1>15. d[1].type = "task.updated"
    <2>1. 1 \in 1..Len(d) /\ 1 \in 1..n /\ 2 * 1 = 2 /\ 1 + 1 = 2
      BY <1>1, <1>2
    <2>2. d[1] = c[2]
      BY <1>1, <2>1
    <2>3. QED
      BY <1>13, <2>1, <2>2
  <1>16. Pairs(d, 1, n - 1)
    <2>1. Len(d) = 1 + 2 * (n - 1)
      BY <1>1, <1>2
    <2>2. QED
      BY <1>13, <1>14, <1>15, <2>1 DEF Pairs
  <1>17. Base(d, g) = g
    BY <1>15 DEF Base
  <1>b. /\ Len(l) \in Nat /\ Len(f) - k = Len(l) /\ Len(g) = Len(l) + 1 /\ Len(s) - k = Len(l) + n
        /\ Len(f) = Len(l) + k
    BY <1>1, <1>3, <1>4, <1>5, <1>10
  <1>18. Extends(t, g, d, 1, n - 1)
    <2>1. Len(t) = Len(g) + (n - 1)
      BY <1>1, <1>2, <1>3, <1>4, <1>5, <1>8, <1>10
    <2>2. ASSUME NEW i \in 1..Len(g) PROVE t[i] = g[i]
      <3>1. i \in 1..Len(s) - k /\ i + k \in 1..Len(s)
        <4>1. i \in 1..Len(l) + 1
          BY <1>b
        <4>2. i \in 1..Len(l) + n
          BY <1>2, <1>b, <4>1
        <4>3. i + k \in 1..Len(s)
          BY <1>1, <1>4, <1>b, <4>2
        <4>4. QED
          BY <1>b, <4>2, <4>3
      <3>2. t[i] = s[i + k]
        BY <1>8, <3>1
      <3>3. CASE i = Len(l) + 1
        <4>1. i + k = Len(f) + 1 /\ 1 \in 1..n /\ 2 * 1 - 1 = 1
          BY <1>1, <1>2, <1>4, <1>5, <3>3
        <4>2. s[i + k] = x
          BY <1>11, <4>1 DEF x
        <4>3. QED
          BY <1>10, <3>2, <3>3, <4>2
      <3>4. CASE i \in 1..Len(l)
        <4>1. i \in 1..Len(f) - k /\ i + k \in 1..Len(f)
          BY <1>1, <1>4, <1>5, <3>4
        <4>2. g[i] = f[i + k] /\ s[i + k] = f[i + k]
          BY <1>5, <1>10, <1>12, <3>4, <4>1
        <4>3. QED
          BY <3>2, <4>2
      <3>5. QED
        BY <1>b, <3>3, <3>4
    <2>3. ASSUME NEW i \in 1..n - 1 PROVE t[Len(g) + i] = d[1 + 2 * i - 1].news
      <3>1. Len(g) + i \in 1..Len(s) - k /\ Len(g) + i + k = Len(f) + (i + 1)
        <4>1. Len(g) + i \in 1..Len(l) + n
          BY <1>2, <1>b
        <4>2. Len(g) + i + k = Len(f) + (i + 1)
          BY <1>4, <1>b
        <4>3. QED
          BY <1>b, <4>1, <4>2
      <3>2. t[Len(g) + i] = s[Len(f) + (i + 1)]
        BY <1>8, <3>1
      <3>3. QED
        BY <1>11, <1>14, <3>2
    <2>4. QED
      BY <2>1, <2>2, <2>3 DEF Extends
  <1>19. n - 1 \in Nat
    BY <1>2
  <1>20. Follows(d, g, r)
    BY <1>8, <1>9, <1>16, <1>17, <1>18, <1>19 DEF Follows
  <1>21. QED
    BY <1>20 DEF d, g, l, x

LEMMA ReceiveFollows ==
  ASSUME TypeInv, FeedInv, Receive
  PROVE  FeedInv'
  <1>1. /\ chan \in Seq(Messages) /\ ring \in Seq(News) /\ feed \in Seq(News)
        /\ chan # <<>> /\ chan' = Tail(chan) /\ ring' = ring /\ Attached
    BY DEF Receive, TypeInv, TypeOK, Messages, serverVars, Attached
  <1>2. Head(chan) = chan[1] /\ Len(chan) \in Nat \ {0}
    BY <1>1, EmptySeq
  <1>3. \/ chan[1].type = "snapshot" /\ feed' = chan[1].events
        \/ chan[1].type = "task.updated" /\ feed' = feed
        \/ /\ chan[1].type = "task.event"
           /\ feed' = Append(LastOf(feed, FeedSize - 1), chan[1].news)
    BY <1>2 DEF Receive
  <1>4. PICK lead \in {0, 1}, n \in Nat, s \in Seq(News) :
             Pairs(chan, lead, n) /\ Extends(s, Base(chan, feed), chan, lead, n) /\ Agree(s, ring)
    BY <1>1 DEF FeedInv, Follows
  <1> SUFFICES Follows(Tail(chan), feed', ring)
    BY <1>1 DEF FeedInv
  <1>5. CASE lead = 1
    <2>1. chan[1].type \in {"snapshot", "task.updated"}
      BY <1>4, <1>5 DEF Pairs
    <2>2. feed' = Base(chan, feed)
      BY <1>2, <1>3, <2>1 DEF Base
    <2>3. Pairs(Tail(chan), 0, n) /\ Extends(s, Base(Tail(chan), feed'), Tail(chan), 0, n)
      BY <1>1, <1>4, <1>5, <2>2, ReceiveAlone
    <2>4. QED
      BY <1>4, <2>3 DEF Follows
  <1>6. CASE lead = 0
    <2>1. chan[1].type = "task.event"
      <3>1. 1 \in 1..n /\ 0 + 2 * 1 - 1 = 1
        BY <1>2, <1>4, <1>6 DEF Pairs
      <3>2. QED
        BY <1>4, <1>6, <3>1 DEF Pairs
    <2>2. Base(chan, feed) = feed
      BY <2>1 DEF Base
    <2>3. feed' = Append(LastOf(feed, FeedSize - 1), chan[1].news)
      BY <1>3, <2>1
    <2>4. QED
      BY <1>1, <1>4, <1>6, <2>2, <2>3, ReceiveEvent
  <1>7. QED
    BY <1>5, <1>6

LEMMA FeedStep ==
  ASSUME TypeInv, FeedInv, [Next]_vars
  PROVE  FeedInv'
  <1>1. CASE UNCHANGED <<chan, feed, ring>> /\ (Attached' => Attached)
    BY <1>1 DEF FeedInv
  <1>2. CASE ~Attached'
    BY <1>2 DEF FeedInv
  <1>3. CASE \E t \in Tasks : Change(t) \/ SilentChange(t)
    BY <1>1, <1>3 DEF Change, SilentChange, viewVars, Attached
  <1>4. CASE \E n \in News : InsertEvent(n) \/ BreakEvent(n)
    BY <1>1, <1>4 DEF InsertEvent, BreakEvent, viewVars, Attached
  <1>5. CASE \E n \in News : Announce(n)
    BY <1>5, AnnounceFollows
  <1>6. CASE Refresh
    BY <1>1, <1>6 DEF Refresh, RefreshRead, RefreshStore, viewVars, Attached
  <1>7. CASE Restart \/ Drop \/ Closed \/ Reconnect
    BY <1>2, <1>7 DEF Restart, Drop, Closed, Reconnect, Attached
  <1>8. CASE Attach
    BY <1>8, AttachFollows
  <1>9. CASE Opened \/ Poll \/ OpenPage
    BY <1>1, <1>9 DEF Opened, Poll, PollAsk, PollServe, PollReceive, OpenPage, serverVars, viewVars,
                      Attached
  <1>10. CASE Receive
    BY <1>10, ReceiveFollows
  <1>11. CASE UNCHANGED vars
    BY <1>1, <1>11 DEF vars, serverVars, viewVars, Attached
  <1>12. QED
    BY <1>3, <1>4, <1>5, <1>6, <1>7, <1>8, <1>9, <1>10, <1>11 DEF Next, Publish

\* The events among the messages stand at every second place.
LEMMA PlacesOfPairs ==
  ASSUME chan \in Seq(Messages), NEW lead \in {0, 1}, NEW n \in Nat, Pairs(chan, lead, n),
         ~\E i \in DOMAIN chan : chan[i].type = "snapshot"
  PROVE  LET f == [i \in 1..n |-> lead + 2 * i - 1]
         IN  Cardinality(EventPlaces) = n /\ f \in Listings
  <1> DEFINE f == [i \in 1..n |-> lead + 2 * i - 1]
  <1>1. DOMAIN chan = 1..Len(chan) /\ Len(chan) \in Nat /\ Len(chan) = lead + 2 * n
    BY DEF Pairs
  <1>2. \A i \in 1..n : f[i] \in 1..Len(chan) /\ f[i] = lead + 2 * i - 1
    BY <1>1
  <1>3. \A i \in 1..n : f[i] \in EventPlaces
    BY <1>1, <1>2 DEF EventPlaces, Pairs
  <1>4. ASSUME NEW j \in EventPlaces PROVE \E i \in 1..n : j = f[i]
    <2>1. j \in 1..Len(chan) /\ chan[j].type = "task.event"
      BY <1>1 DEF EventPlaces
    <2>2. CASE j = 1 /\ lead = 1
      <3>1. chan[1].type \in {"snapshot", "task.updated"}
        BY <2>2 DEF Pairs
      <3>2. QED
        BY <2>1, <2>2, <3>1
    <2>3. CASE \E i \in 1..n : j = lead + 2 * i
      BY <2>1, <2>3 DEF Pairs
    <2>4. CASE \E i \in 1..n : j = lead + 2 * i - 1
      BY <1>2, <2>4
    <2>5. \/ j = 1 /\ lead = 1
          \/ \E i \in 1..n : j = lead + 2 * i \/ j = lead + 2 * i - 1
      <3> SUFFICES ASSUME ~(j = 1 /\ lead = 1)
                   PROVE  \E i \in 1..n : j = lead + 2 * i \/ j = lead + 2 * i - 1
        OBVIOUS
      <3> DEFINE h == j - lead
      <3>1. h \in 1..2 * n /\ j = lead + h
        BY <1>1, <2>1
      <3> HIDE DEF h
      <3>2. \E i \in 1..n : h = 2 * i \/ h = 2 * i - 1
        <4> DEFINE i == (h + 1) \div 2
        <4>1. h \in Int /\ 1 <= h /\ h <= 2 * n
          BY <3>1
        <4>2. i \in Int /\ (h = 2 * i \/ h = 2 * i - 1)
          BY <4>1
        <4>3. i \in 1..n
          BY <4>1, <4>2
        <4>4. QED
          BY <4>2, <4>3
      <3>3. QED
        BY <3>1, <3>2
    <2>6. QED
      BY <2>2, <2>3, <2>4, <2>5
  <1>5. \A i, j \in 1..n : i < j => f[i] < f[j]
    BY <1>2
  <1> HIDE DEF f
  <1>6. f \in [1..n -> EventPlaces]
    BY <1>3 DEF f
  <1>7. \A i, j \in 1..n : f[i] = f[j] => i = j
    <2> TAKE i, j \in 1..n
    <2>1. f[i] = lead + 2 * i - 1 /\ f[j] = lead + 2 * j - 1
      BY <1>2
    <2>2. QED
      BY <2>1
  <1>8. f \in Bijection(1..n, EventPlaces)
    BY <1>4, <1>6, <1>7 DEF Bijection, Injection, Surjection, IsInjective
  <1>9. Cardinality(EventPlaces) = n
    BY <1>8, FS_CountingElements DEF ExistsBijection
  <1>10. f \in Listings
    BY <1>5, <1>6, <1>9 DEF Listings
  <1>11. QED
    BY <1>9, <1>10 DEF f

LEMMA FeedImplies == TypeInv /\ FeedInv => FeedFollowsRing
  <1> SUFFICES ASSUME TypeInv, FeedInv, sock = "open",
                      ~\E i \in DOMAIN chan : chan[i].type = "snapshot"
               PROVE  \E f \in Listings :
                        LET shown == feed \o [i \in DOMAIN f |-> chan[f[i]].news]
                            n == IF Len(shown) < Len(ring) THEN Len(shown) ELSE Len(ring)
                        IN  /\ LastOf(shown, n) = LastOf(ring, n)
                            /\ n = Len(ring) \/ n >= TailSize
    BY DEF FeedFollowsRing
  <1>1. chan \in Seq(Messages) /\ ring \in Seq(News) /\ feed \in Seq(News)
    BY DEF TypeInv, TypeOK, Messages
  <1>2. PICK lead \in {0, 1}, n \in Nat, s \in Seq(News) :
             Pairs(chan, lead, n) /\ Extends(s, Base(chan, feed), chan, lead, n) /\ Agree(s, ring)
    BY DEF FeedInv, Follows, Attached
  <1>3. Base(chan, feed) = feed
    <2>1. Len(chan) # 0 => 1 \in DOMAIN chan
      BY <1>1
    <2>2. QED
      BY <2>1 DEF Base
  <1> DEFINE f == [i \in 1..n |-> lead + 2 * i - 1]
             g == [i \in DOMAIN f |-> chan[f[i]].news]
             shown == feed \o g
  <1>4. f \in Listings
    BY <1>1, <1>2, PlacesOfPairs
  <1>5. \A i \in 1..n : g[i] = chan[lead + 2 * i - 1].news
    OBVIOUS
  <1>6. Len(s) = Len(feed) + n /\ Len(feed) \in Nat
        /\ (\A i \in 1..Len(feed) : s[i] = feed[i])
        /\ (\A i \in 1..n : s[Len(feed) + i] = g[i])
    BY <1>1, <1>2, <1>3, <1>5 DEF Extends
  <1>7. g \in Seq(News) /\ Len(g) = n
    <2>1. \A i \in 1..n : g[i] \in News
      <3> TAKE i \in 1..n
      <3>1. Len(feed) + i \in 1..Len(s)
        BY <1>6
      <3>2. s[Len(feed) + i] \in News
        BY <3>1
      <3>3. QED
        BY <1>6, <3>2
    <2>2. g = [i \in 1..n |-> g[i]]
      OBVIOUS
    <2> HIDE DEF g
    <2>3. QED
      BY <2>1, <2>2
  <1> HIDE DEF f
  <1>8. shown = s
    <2> HIDE DEF g
    <2>1. /\ shown \in Seq(News) /\ Len(shown) = Len(feed) + n
          /\ \A i \in 1..Len(feed) + n : shown[i] = IF i <= Len(feed) THEN feed[i] ELSE g[i - Len(feed)]
      BY <1>1, <1>7, ConcatProperties
    <2>2. ASSUME NEW i \in 1..Len(s) PROVE s[i] = shown[i]
      <3>1. CASE i \in 1..Len(feed)
        BY <1>6, <2>1, <3>1
      <3>2. CASE i \notin 1..Len(feed)
        <4>1. i - Len(feed) \in 1..n /\ ~(i <= Len(feed)) /\ i \in 1..Len(feed) + n
              /\ Len(feed) + (i - Len(feed)) = i
          BY <1>6, <3>2
        <4>2. s[Len(feed) + (i - Len(feed))] = g[i - Len(feed)]
          BY <1>6, <4>1
        <4>3. shown[i] = g[i - Len(feed)]
          BY <2>1, <4>1
        <4>4. QED
          BY <4>1, <4>2, <4>3
      <3>3. QED
        BY <3>1, <3>2
    <2>3. QED
      BY <1>6, <2>1, <2>2, SeqEqual
  <1> HIDE DEF g, shown
  <1> DEFINE m == IF Len(s) < Len(ring) THEN Len(s) ELSE Len(ring)
             p == LastOf(s, m)
             q == LastOf(ring, m)
  <1>9. /\ \A i \in 0..m - 1 : s[Len(s) - i] = ring[Len(ring) - i]
        /\ m = Len(ring) \/ m >= TailSize
    BY <1>2 DEF Agree
  <1>10. Len(s) \in Nat /\ Len(ring) \in Nat /\ m \in Nat /\ m <= Len(s) /\ m <= Len(ring)
    BY <1>1
  <1> HIDE DEF m
  <1>11. p \in Seq(News) /\ Len(p) = m /\ \A i \in 0..m - 1 : p[m - i] = s[Len(s) - i]
    <2>1. /\ p \in Seq(News) /\ (Len(p) = m \/ Len(p) = Len(s)) /\ Len(p) <= m
          /\ \A i \in 0..Len(p) - 1 : p[Len(p) - i] = s[Len(s) - i]
      BY <1>10, LastOfFromEnd, LastOfShort
    <2>2. Len(p) = m
      BY <1>10, <2>1
    <2>3. QED
      BY <2>1, <2>2
  <1>12. q \in Seq(News) /\ Len(q) = m /\ \A i \in 0..m - 1 : q[m - i] = ring[Len(ring) - i]
    <2>1. /\ q \in Seq(News) /\ (Len(q) = m \/ Len(q) = Len(ring)) /\ Len(q) <= m
          /\ \A i \in 0..Len(q) - 1 : q[Len(q) - i] = ring[Len(ring) - i]
      BY <1>1, <1>10, LastOfFromEnd, LastOfShort
    <2>2. Len(q) = m
      BY <1>10, <2>1
    <2>3. QED
      BY <2>1, <2>2
  <1> HIDE DEF p, q
  <1>13. p = q
    <2>1. ASSUME NEW i \in 1..m PROVE p[i] = q[i]
      <3>1. m - i \in 0..m - 1 /\ m - (m - i) = i
        BY <1>10
      <3>2. p[m - (m - i)] = q[m - (m - i)]
        BY <1>9, <1>11, <1>12, <3>1
      <3>3. QED
        BY <3>1, <3>2
    <2>2. QED
      BY <1>11, <1>12, <2>1, SeqEqual
  <1>14. /\ LastOf(s, m) = LastOf(ring, m)
         /\ m = Len(ring) \/ m >= TailSize
    BY <1>9, <1>13 DEF p, q
  <1>15. QED
    BY <1>4, <1>8, <1>14 DEF shown, g, m

\* hub.ts:12-17: between the events of the snapshot and the deltas nothing is
\* lost and nothing comes twice, whatever is announced before, between and after
\* they are received: a connected dashboard shows the newest events of the server,
\* but for those on their way, in the server's order.
THEOREM FeedIsTail == Spec => []FeedFollowsRing
  <1>1. Init => TypeInv /\ FeedInv
    BY TypeInit, FeedInit
  <1>2. TypeInv /\ FeedInv /\ [Next]_vars => (TypeInv /\ FeedInv)'
    BY TypeStep, FeedStep
  <1>3. QED
    BY <1>1, <1>2, FeedImplies, PTL DEF Spec

=============================================================================
