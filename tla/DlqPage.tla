------------------------------- MODULE DlqPage -------------------------------
(***************************************************************************)
(* The dead-letter page: a selection over the mirror of the tasks, and a   *)
(* press that sends one retry after the other, while workers, other        *)
(* clients and the server go on.  A task is here in the DLQ or "alive",    *)
(* whatever else happens to it is TaskStore's.                             *)
(***************************************************************************)
EXTENDS LiveView, FiniteSets

CONSTANT Tasks

ASSUME TasksAssumption == IsFiniteSet(Tasks)

VARIABLES
    task,      \* rows of tasks
    due,       \* rows returned by a statement and not announced yet
    saved,     \* recentTasksCache
    listed,    \* snapshot.tasks of the dashboard
    selected, error,
    todo,      \* ids the press has still to send, the one under way first
    call,      \* the request for it
    left       \* tasks the last press was given and has not reprocessed (history)

dlqVars == <<task, due, saved, listed, selected, error, todo, call, left>>

Rows == [Tasks -> {"none", "alive", "dead_letter"}]
Change == [task : Tasks, status : {"alive", "dead_letter"}]

DlqTypeOK ==
    /\ {task, saved, listed} \subseteq Rows
    /\ due \in Seq(Change) /\ Len(due) <= MaxDue
    /\ {selected, left} \subseteq SUBSET Tasks /\ error \in BOOLEAN
    /\ todo \in Seq(Tasks)
    /\ call \in {"none", "asked", "done", "refused"}
    /\ todo = <<>> <=> call = "none"

NoTasks == [t \in Tasks |-> "none"]

\* Some tasks may be in the DLQ when the page is opened.
DlqInit ==
    /\ task \in [Tasks -> {"alive", "dead_letter"}]
    /\ due = <<>> /\ saved = task /\ listed = task
    /\ selected = {} /\ error = FALSE /\ todo = <<>> /\ call = "none" /\ left = {}

DlqTasks == {t \in Tasks : listed[t] = "dead_letter"}
Busy == call # "none"

-----------------------------------------------------------------------------

Becomes(t, status) ==
    /\ task' = [task EXCEPT ![t] = status]
    /\ Len(due) < MaxDue
    /\ due' = Append(due, [task |-> t, status |-> status])

Exhaust(t) ==
    /\ Trouble
    /\ task[t] = "alive" /\ Becomes(t, "dead_letter")
    /\ UNCHANGED <<saved, listed, selected, error, todo, call, left, linked>>

\* Another client reprocesses the task: a TasksPage, a second tab, curl.
RetryElsewhere(t) ==
    /\ Trouble
    /\ task[t] = "dead_letter" /\ Becomes(t, "alive")
    /\ UNCHANGED <<saved, listed, selected, error, todo, call, left, linked>>

\* task.updated arrives, or nobody is there to receive it.
Announce(i) ==
    /\ due' = RemoveAt(due, i)
    /\ listed' = IF linked THEN [listed EXCEPT ![due[i].task] = due[i].status] ELSE listed
    /\ UNCHANGED <<task, saved, selected, error, todo, call, left, linked, troubles>>

\* The snapshot caches; LiveFeed takes a refresh apart.
SaveTasks ==
    /\ saved' = task
    /\ UNCHANGED <<task, due, listed, selected, error, todo, call, left, linked, troubles>>

DlqAttach ==
    /\ Connect
    /\ listed' = saved
    /\ UNCHANGED <<task, due, saved, selected, error, todo, call, left, troubles>>

\* Without a socket the dashboard polls; LiveFeed takes a poll apart, too.
PollTasks ==
    /\ ~linked
    /\ listed' = task
    /\ UNCHANGED <<task, due, saved, selected, error, todo, call, left, linked, troubles>>

DlqDetach == Trouble /\ Disconnect /\ UNCHANGED dlqVars

DlqRestart ==
    /\ Trouble
    /\ due' = <<>> /\ saved' = NoTasks /\ linked' = FALSE
    /\ call' = IF call = "asked" THEN "refused" ELSE call
    /\ UNCHANGED <<task, listed, selected, error, todo, left>>

DlqReset ==
    /\ Trouble
    /\ task' = NoTasks
    /\ UNCHANGED <<due, saved, listed, selected, error, todo, call, left, linked>>

-----------------------------------------------------------------------------

\* A box can be ticked whether or not a press is under way.
Toggle(t) ==
    /\ t \in DlqTasks
    /\ selected' = IF t \in selected THEN selected \ {t} ELSE selected \cup {t}
    /\ UNCHANGED <<task, due, saved, listed, error, todo, call, left, linked, troubles>>

\* The box for all compares sizes, not sets.
SelectAll ==
    /\ selected' = IF Cardinality(selected) = Cardinality(DlqTasks) THEN {} ELSE DlqTasks
    /\ UNCHANGED <<task, due, saved, listed, error, todo, call, left, linked, troubles>>

\* reprocess(ids): the ids of the click, whatever is ticked later.
Reprocess(ids) ==
    /\ ~Busy /\ ids # <<>>
    /\ todo' = ids /\ call' = "asked" /\ error' = FALSE
    /\ left' = ToSet(ids)
    /\ UNCHANGED <<task, due, saved, listed, selected, linked, troubles>>

\* retryNow(): the row, if it is a dead letter; 409 otherwise.
ServeRetry ==
    /\ call = "asked"
    /\ LET t == Head(todo) IN
         \/ /\ task[t] = "dead_letter" /\ Becomes(t, "alive")
            /\ left' = left \ {t}
            /\ call' = "done"
         \/ /\ task[t] # "dead_letter"
            /\ call' = "refused"
            /\ UNCHANGED <<task, due, left>>
    /\ UNCHANGED <<saved, listed, selected, error, todo, linked, troubles>>

\* The row is written; the INSERT of its event fails, or the answer is lost.
RetryUnanswered ==
    /\ Trouble
    /\ call = "done" /\ call' = "refused"
    /\ UNCHANGED <<task, due, saved, listed, selected, error, todo, left, linked>>

SentNext ==
    /\ todo' = Tail(todo) /\ call' = "asked"
    /\ UNCHANGED <<selected, error>>

SentAll ==
    /\ todo' = <<>> /\ call' = "none"
    /\ selected' = {}
    /\ UNCHANGED error

\* catch: the rest is not sent, and what was ticked stays ticked.
GaveUp ==
    /\ todo' = <<>> /\ call' = "none"
    /\ error' = TRUE
    /\ UNCHANGED selected

AnswerAnyhow ==  \* mutant: the try is inside the loop
    IF Len(todo) > 1 THEN SentNext ELSE SentAll

AnswerPastTheEnd ==  \* mutant: <= for < in the loop
    IF call = "refused" THEN GaveUp ELSE SentNext

Answer ==
    \/ call = "refused" /\ GaveUp
    \/ call = "done" /\ Len(todo) > 1 /\ SentNext
    \/ call = "done" /\ Len(todo) = 1 /\ SentAll

AnswerRetry ==
    /\ call \in {"done", "refused"}
    /\ Answer
    /\ UNCHANGED <<task, due, saved, listed, left, linked, troubles>>

DlqNext ==
    \/ \E t \in Tasks : Exhaust(t) \/ RetryElsewhere(t) \/ Toggle(t)
    \/ \E i \in DOMAIN due : Announce(i)
    \/ SaveTasks \/ PollTasks \/ DlqAttach \/ DlqDetach \/ DlqRestart \/ DlqReset
    \/ SelectAll
    \/ \E ids \in SetToSeqs(selected) : Reprocess(ids)
    \/ \E t \in DlqTasks : Reprocess(<<t>>)
    \/ ServeRetry \/ RetryUnanswered \/ AnswerRetry

-----------------------------------------------------------------------------

\* DlqPage.tsx:29-43: a press that has ended without an error has reprocessed every
\* task it was given, whatever workers, other clients and the server did meanwhile.
BulkIsWhole == ~Busy /\ left # {} => error

-----------------------------------------------------------------------------
(* What the code does not keep. *)

\* README.md:42: dead letters are reprocessed "singly or in bulk".  After a press
\* that broke off, the ticks name a task it has reprocessed: 409, at every press.
PressGoesThrough ==
    [][GaveUp /\ left' # {} => \A t \in selected : task[t] = "dead_letter"]_dlqVars

=============================================================================
