--------------------------- MODULE TaskLifecycle -----------------------------
(***************************************************************************)
(* What the coordinator promises about a task, whatever tables, handlers   *)
(* and timers it is built from.  A task is leased to one holder at a time; *)
(* the leases of a task are numbered by epochs; an acknowledgement counts  *)
(* only if it comes from the holder of the newest lease and presents it;   *)
(* what is done stays done.                                                *)
(***************************************************************************)
EXTENDS Naturals

CONSTANTS
    Tasks,     \* the tasks
    Holders,   \* who may hold a lease
    NoHolder   \* the holder of a task that is not leased

VARIABLE life  \* per task: phase, epoch, holder, last acknowledgement

Life(phase, epoch, holder, ack) ==
    [phase |-> phase, epoch |-> epoch, holder |-> holder, ack |-> ack]

Unborn == Life("absent", 0, NoHolder, [worker |-> NoHolder, epoch |-> 0])

Init == life = [t \in Tasks |-> Unborn]

-----------------------------------------------------------------------------
(* What may happen to one task: r before the step, s after it. *)

Inserted(r, s) ==
    /\ r.phase = "absent"
    /\ s = Life("waiting", r.epoch, r.holder, r.ack)

\* A first lease, or one that takes the task from its present holder.
Granted(r, s) ==
    /\ r.phase \in {"waiting", "held"}
    /\ \E h \in Holders : s = Life("held", r.epoch + 1, h, r.ack)

Revoked(r, s) ==
    /\ r.phase = "held"
    /\ s = Life("waiting", r.epoch, NoHolder, r.ack)

\* The holder reports the end of its newest lease.
Acknowledged(r, s) ==
    /\ r.phase = "held"
    /\ \E next \in {"done", "waiting", "dead"} :
         s = Life(next, r.epoch, NoHolder, [worker |-> r.holder, epoch |-> r.epoch])

Revived(r, s) ==
    /\ r.phase = "dead"
    /\ s = Life("waiting", r.epoch, r.holder, r.ack)

Wiped(r, s) ==
    /\ r.phase # "absent"
    /\ s = Life("wiped", r.epoch, NoHolder, r.ack)

Legal(r, s) ==
    \/ s = r
    \/ Inserted(r, s) \/ Granted(r, s) \/ Revoked(r, s)
    \/ Acknowledged(r, s) \/ Revived(r, s) \/ Wiped(r, s)

-----------------------------------------------------------------------------

\* One statement may lease, revoke or wipe several tasks at once.
Next ==
    /\ \A t \in Tasks : Legal(life[t], life'[t])
    /\ life' = [t \in Tasks |-> life'[t]]

Spec == Init /\ [][Next]_life

=============================================================================
