---------------------------- MODULE AttemptStream -----------------------------
(***************************************************************************)
(* What the Scheduler promises the Core about the events of a task: the    *)
(* attempts come one after the other, each with a start_task and then one  *)
(* of finish_task, task_retry and task_exception; a retry is announced     *)
(* only while retries are left; nothing follows the end.  The acceptance   *)
(* of events in the Core (path.py, _accept_task_attempt_event) and the     *)
(* states of a run rest on it.                                             *)
(*                                                                         *)
(* An event has a kind, the number n of its attempt and the mark known:    *)
(* the Core can tell which attempt it is about.                            *)
(***************************************************************************)
EXTENDS Naturals

CONSTANTS
    Objs,        \* one stream per dispatched task
    MaxRetries

VARIABLE last    \* the last event of each stream

Kinds  == {"none", "start", "retry", "finish", "exception"}
Events == [kind : Kinds, n : 0..MaxRetries + 1, known : BOOLEAN]
Say(o, kind, k, known) ==
    last' = [last EXCEPT ![o] = [kind |-> kind, n |-> k, known |-> known]]

Init == last = [o \in Objs |-> [kind |-> "none", n |-> 0, known |-> TRUE]]

Start(o) ==
    /\ last[o].kind \in {"none", "retry"}
    /\ Say(o, "start", last[o].n + 1, TRUE)

Finish(o) ==
    /\ last[o].kind = "start"
    /\ Say(o, "finish", last[o].n, TRUE)

Retry(o) ==
    /\ last[o].kind = "start" /\ last[o].n <= MaxRetries
    /\ Say(o, "retry", last[o].n, TRUE)

\* The attempt under way fails.
Fail(o) ==
    /\ last[o].kind = "start"
    /\ Say(o, "exception", last[o].n, TRUE)

\* Between attempts: the task cannot be placed, its next attempt is not
\* launched, or its model is not deployed.  In the last case the event of a task
\* that was retried names no attempt the Core knows.
FailWaiting(o) ==
    /\ last[o].kind \in {"none", "retry"}
    /\ \/ \E k \in {last[o].n, last[o].n + 1} : Say(o, "exception", k, TRUE)
       \/ last[o].kind = "retry" /\ Say(o, "exception", last[o].n, FALSE)

Next == \E o \in Objs : Start(o) \/ Finish(o) \/ Retry(o) \/ Fail(o) \/ FailWaiting(o)

Spec == Init /\ [][Next]_last
===============================================================================
