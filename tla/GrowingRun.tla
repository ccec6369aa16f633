------------------------------ MODULE GrowingRun ------------------------------
(***************************************************************************)
(* What a dynamic run promises its client: tasks join the run with parents *)
(* that are in it already, a task is sent once and only after its parents  *)
(* have finished, a finalized run has nothing left to do, and an end that  *)
(* was read is never replaced by another one.                              *)
(***************************************************************************)
EXTENDS Naturals, Sequences, FiniteSets

CONSTANT Ids

VARIABLES status, tasks, parents, finished, dispatched

vars == <<status, tasks, parents, finished, dispatched>>

Active  == {"created", "running"}
Endings == {"finalized", "failed", "canceled", "timed_out"}
IsDispatched(t) == \E i \in 1..Len(dispatched) : dispatched[i] = t

Init ==
    /\ status = "created" /\ tasks = {} /\ finished = {} /\ dispatched = <<>>
    /\ parents = [t \in Ids |-> {}]

\* A task without unfinished parents is sent at once.
Append1(t, ps) ==
    /\ status \in Active /\ t \notin tasks /\ ps \subseteq tasks
    /\ tasks' = tasks \cup {t} /\ parents' = [parents EXCEPT ![t] = ps]
    /\ status' = "running" /\ UNCHANGED finished
    /\ \/ UNCHANGED dispatched
       \/ ps \subseteq finished /\ dispatched' = Append(dispatched, t)

Dispatch(t) ==
    /\ t \in tasks /\ ~IsDispatched(t) /\ parents[t] \subseteq finished
    /\ dispatched' = Append(dispatched, t)
    /\ UNCHANGED <<status, tasks, parents, finished>>

Finish(t) ==
    /\ status \in Active /\ IsDispatched(t) /\ t \notin finished
    /\ finished' = finished \cup {t}
    /\ UNCHANGED <<status, tasks, parents, dispatched>>

End(s) ==
    /\ status \in Active
    /\ s = "finalized" => finished = tasks
    /\ status' = s
    /\ UNCHANGED <<tasks, parents, finished, dispatched>>

Next == \/ \E t \in Ids : Dispatch(t) \/ Finish(t) \/ \E ps \in SUBSET Ids : Append1(t, ps)
        \/ \E s \in Endings : End(s)

Spec == Init /\ [][Next]_vars
===============================================================================
