------------------------------ MODULE Dashboard ------------------------------
(***************************************************************************)
(* The dashboard with one of its pages open.  Counters, tasks and workers  *)
(* are read by statements of their own and travel in messages of their     *)
(* own: what the other pages would show is left as it is.  The page of the *)
(* tasks has the calls of the DLQ page, the chaos page is ChaosConsole's.  *)
(***************************************************************************)
EXTENDS Metrics, DlqPage, WorkersPage

VARIABLE page

vars == <<page, linked, troubles, metricsVars, dlqVars, fleetVars>>

TypeOK ==
    /\ page \in {"overview", "dlq", "workers"}
    /\ linked \in BOOLEAN /\ troubles \in 0..MaxTroubles
    /\ MetricsTypeOK /\ DlqTypeOK /\ WorkersTypeOK

Init ==
    /\ linked = TRUE /\ troubles = MaxTroubles
    /\ MetricsInit /\ DlqInit /\ WorkersInit
    /\ page \in {"overview", "dlq", "workers"}
    /\ page # "overview" => dead = 0
    /\ page # "dlq" => DlqTasks = {}
    /\ page # "workers" => Offline = {}

Next ==
    /\ UNCHANGED page
    /\ \/ page = "overview" /\ MetricsNext /\ UNCHANGED <<dlqVars, fleetVars>>
       \/ page = "dlq" /\ DlqNext /\ UNCHANGED <<metricsVars, fleetVars>>
       \/ page = "workers" /\ WorkersNext /\ UNCHANGED <<metricsVars, dlqVars>>

Open(p, A) == page = p /\ A

\* Timers fire, handlers finish, queries are answered, and workers that are online
\* send heartbeats.  That a socket opens, or that anybody clicks, is not assumed.
Fairness ==
    /\ WF_metricsVars(Open("overview", Record))
    /\ WF_metricsVars(Open("overview", MetricsRefresh)) /\ WF_metricsVars(Open("overview", MetricsPush))
    /\ WF_metricsVars(Open("overview", MetricsPoll))
    /\ WF_fleetVars(Open("workers", TellNext)) /\ WF_fleetVars(Open("workers", RefreshWorkers))
    /\ WF_fleetVars(Open("workers", ServeClear)) /\ WF_fleetVars(Open("workers", AnswerClear))
    /\ WF_fleetVars(Open("workers", TimerFires))
    /\ \A w \in Workers : WF_fleetVars(Open("workers", Heartbeat(w)))

Spec == Init /\ [][Next]_vars /\ Fairness

=============================================================================
