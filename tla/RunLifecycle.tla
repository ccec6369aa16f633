----------------------------- MODULE RunLifecycle -----------------------------
(***************************************************************************)
(* What the Core promises the users of a static run, whatever fails on the *)
(* way: a task is sent to the Scheduler once, after its parents' ends are  *)
(* on record; the record of a finished task is never taken back; the run   *)
(* succeeds only with all its tasks; an end is announced once, with the    *)
(* end on record, and is final from then on.                               *)
(***************************************************************************)
EXTENDS Naturals, Sequences

CONSTANTS Tasks, Parents

VARIABLES
    status,      \* of the run, as recorded
    announced,   \* the subscribers know the end
    finished,    \* the tasks whose finish is recorded
    dispatched   \* the tasks sent to the Scheduler, in order

vars == <<status, announced, finished, dispatched>>

Active  == {"created", "running"}
Endings == {"succeeded", "failed", "timed_out", "cancelled", "interrupted"}
IsDispatched(t) == \E i \in 1..Len(dispatched) : dispatched[i] = t

Init ==
    /\ status = "created" /\ announced = FALSE /\ finished = {}
    /\ dispatched \in Seq(Tasks)
    /\ \A t \in Tasks : IsDispatched(t) <=> Parents[t] = {}
    /\ \A i, j \in 1..Len(dispatched) : dispatched[i] = dispatched[j] => i = j

Begin ==
    /\ status = "created" /\ status' = "running"
    /\ UNCHANGED <<announced, finished, dispatched>>

\* The save that comes before it may be the first to record an end.
Dispatch(t) ==
    /\ ~IsDispatched(t) /\ Parents[t] \subseteq finished
    /\ dispatched' = Append(dispatched, t)
    /\ \/ status' = status
       \/ ~announced /\ status' \in Endings \ {"succeeded"}
    /\ UNCHANGED <<announced, finished>>

\* The last task may end the run in the same step.
Finish(t) ==
    /\ IsDispatched(t) /\ t \notin finished /\ status \in Active
    /\ finished' = finished \cup {t}
    /\ status' = status \/ (finished' = Tasks /\ status' = "succeeded")
    /\ UNCHANGED <<announced, dispatched>>

\* Before it is announced, another end may come to be recorded: the write of
\* the first was reported as failed.
End(s) ==
    /\ ~announced
    /\ s = "succeeded" => finished = Tasks
    /\ status' = s
    /\ announced' \in BOOLEAN
    /\ UNCHANGED <<finished, dispatched>>

Next == \/ Begin \/ \E s \in Endings : End(s)
        \/ \E t \in Tasks : Dispatch(t) \/ Finish(t)

Spec == Init /\ [][Next]_vars
===============================================================================
