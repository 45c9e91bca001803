------------------------------ MODULE LiveView -------------------------------
(***************************************************************************)
(* What the pages of the dashboard have in common: a socket that is there  *)
(* or not, announcements that follow their statements, and a budget of     *)
(* things that happen.  LiveFeed takes apart how an event row, the ring    *)
(* and the messages follow a statement, what a socket does, and polling;   *)
(* here an announcement is one step, and a message arrives when it is sent.*)
(***************************************************************************)
EXTENDS Integers, SequencesExt

CONSTANTS
    MaxCalls,     \* bound: calls of one kind, or timers, under way
    MaxDue,       \* bound: announcements that are due
    MaxTroubles   \* bound: what happens to tasks, workers, queries and the server

ASSUME ViewAssumption ==
    /\ MaxCalls \in Nat \ {0} /\ MaxDue \in Nat \ {0} /\ MaxTroubles \in Nat

VARIABLES
    linked,    \* whether the dashboard is connected
    troubles   \* how many more things happen

Trouble == troubles > 0 /\ troubles' = troubles - 1

Connect == ~linked /\ linked' = TRUE
Disconnect == linked /\ linked' = FALSE

=============================================================================
