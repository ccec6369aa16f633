--------------------------- MODULE DispatchOrder ---------------------------
(* The order in which HACS lets the tasks of one class start, and the standby
   workers they run in: scheduler/queues.py, strategy.py, standby_worker.py and
   their calls from runtime.py.  FCFS is HACS with Threshold = 0.  The workers are
   those of one node, which leaves the cluster and comes back; an actor stands for
   the identity of a Python object, which is used again once nothing refers to the
   object. *)
EXTENDS Naturals, FiniteSets, FiniteSetsExt, SequencesExt

CONSTANTS Tasks, NoTask, Actors, NoActor,
          Need,         \* slots a task takes
          Slots,        \* slots of the node
          Threshold,    \* starvation_seconds
          Target,       \* workers kept ready on the node
          MaxRetries

\* The parameters that a program can have.
Parameters ==
    /\ NoTask \notin Tasks /\ NoActor \notin Actors /\ IsFiniteSet(Actors)
    /\ Target \in Nat

VARIABLES
    place,      \* where a task is: idle, queued, waiting for a model, running
    order,      \* queued and waiting tasks by their queue_sequence
    age,        \* now - queue_entered_time, up to Threshold
    backoff,    \* queued tasks in the back-off of a retry
    retries,
    parked,     \* tasks that have waited for a model: once in a run (a bound)
    head,       \* the task the submit thread has looked at
    known,      \* the node has an entry in node_workers
    pool,       \* node_workers of the node
    busy,       \* busy_worker_ids
    lease       \* standby_worker_lease of a task

vars == <<place, order, age, backoff, retries, parked, head, known, pool, busy, lease>>
poolVars == <<known, pool, busy, lease>>

At(p) == {t \in Tasks : place[t] = p}

Init ==
    /\ place = [t \in Tasks |-> "idle"] /\ order = <<>> /\ age = [t \in Tasks |-> 0]
    /\ backoff = {} /\ retries = [t \in Tasks |-> 0] /\ parked = {} /\ head = NoTask
    /\ known = FALSE /\ pool = {} /\ busy = {} /\ lease = [t \in Tasks |-> NoActor]
-----------------------------------------------------------------------------
(* The standby workers. *)

Leased == {lease[t] : t \in Tasks} \ {NoActor}

\* actor_factory: as many new actors as are missing, or fewer when a start fails.
Started(present) ==
    {new \in SUBSET (Actors \ (present \cup pool \cup Leased)) :
        Cardinality(present) + Cardinality(new) <= Target}

\* ensure_for_nodes: the node is in the cluster.  Its entry is made before the
\* first actor is started, and stays when that start fails.
Ensure ==
    /\ ~known \/ Cardinality(pool) < Target
    /\ known' = TRUE
    /\ \E new \in Started(pool) : pool' = pool \cup new /\ (known => new # {})
    /\ UNCHANGED <<place, order, age, backoff, retries, parked, head, busy, lease>>

\* remove_node: its workers are killed, the leases of their tasks stay.
RemoveNode ==
    /\ known /\ known' = FALSE /\ pool' = {} /\ busy' = busy \ pool
    /\ UNCHANGED <<place, order, age, backoff, retries, parked, head, lease>>

\* The end of release: a worker is killed and replaced by what can be started.
Replace(a) == \E new \in Started(pool \ {a}) : pool' = (pool \ {a}) \cup new

\* acquire: a worker nobody is using, or none; a task without one runs as a Ray
\* task, also when the call of its worker fails and the worker is replaced.
Acquire(t) ==
    IF known /\ pool \ busy # {}
    THEN \E a \in pool \ busy :
             \/ lease' = [lease EXCEPT ![t] = a] /\ busy' = busy \cup {a} /\ UNCHANGED pool
             \/ Replace(a) /\ UNCHANGED <<lease, busy>>
    ELSE UNCHANGED <<pool, lease, busy>>

\* release
Release(t) == busy' = busy \ {lease[t]} /\ lease' = [lease EXCEPT ![t] = NoActor]

\* The worker goes back to the pool.
Keep(t) == Release(t) /\ UNCHANGED pool

\* Mutant of Discard: the mark of a discarded worker stays.
DiscardMarked(t) ==
    IF lease[t] \in pool
    THEN Replace(lease[t]) /\ lease' = [lease EXCEPT ![t] = NoActor] /\ UNCHANGED busy
    ELSE Keep(t)

\* release with discard: the worker may have gone with its node before.
Discard(t) == IF lease[t] \in pool THEN Release(t) /\ Replace(lease[t]) ELSE Keep(t)
-----------------------------------------------------------------------------
(* The queue. *)

Starved == {t \in At("queued") : age[t] >= Threshold}

\* Mutant of First: the score alone decides.
FirstByScore == At("queued")

\* The tasks that may be at the head after _refresh_queue: the starved ones come
\* first, by their numbers; the others by a score, which is any number here.
First ==
    LET starved == Starved
    IN IF starved = {} THEN At("queued")
       ELSE {t \in starved : \E i \in DOMAIN order :
                 order[i] = t /\ \A j \in 1..(i - 1) : order[j] \notin starved}

\* put: a new number and a new time of entry.
Put(t) ==
    /\ place[t] = "idle"
    /\ place' = [place EXCEPT ![t] = "queued"] /\ order' = Append(order, t)
    /\ age' = [age EXCEPT ![t] = 0]
    /\ UNCHANGED <<backoff, retries, parked, head>> /\ UNCHANGED poolVars

\* peek: a head in its back-off ends the scan.
Peek ==
    /\ head = NoTask /\ \E t \in First \ backoff : head' = t
    /\ UNCHANGED <<place, order, age, backoff, retries, parked>> /\ UNCHANGED poolVars

Used == MapThenSumSet(LAMBDA t : Need[t], At("running"))
Fits == head # NoTask /\ Used + Need[head] <= Slots

\* take, by identity: others may be first by now.
Dispatch ==
    /\ Fits /\ head' = NoTask
    /\ place' = [place EXCEPT ![head] = "running"] /\ order' = Remove(order, head)
    /\ age' = [age EXCEPT ![head] = 0]
    /\ Acquire(head)
    /\ UNCHANGED <<backoff, retries, parked, known>>

Pending ==
    /\ head # NoTask /\ ~Fits /\ head' = NoTask
    /\ UNCHANGED <<place, order, age, backoff, retries, parked>> /\ UNCHANGED poolVars

\* _wait_for_model takes the item off its queue ...
Park ==
    /\ head # NoTask /\ head \notin parked /\ head' = NoTask
    /\ parked' = parked \cup {head} /\ place' = [place EXCEPT ![head] = "waiting"]
    /\ UNCHANGED <<order, age, backoff, retries>> /\ UNCHANGED poolVars

\* ... and restore puts it back with its number and its time of entry.
Restore(t) ==
    /\ place[t] = "waiting" /\ place' = [place EXCEPT ![t] = "queued"]
    /\ UNCHANGED <<order, age, backoff, retries, parked, head>> /\ UNCHANGED poolVars

\* The result of a task: clear_task_ref; a GPU worker serves one task only.
Finish(t) ==
    /\ place[t] = "running" /\ place' = [place EXCEPT ![t] = "idle"]
    /\ retries' = [retries EXCEPT ![t] = 0] /\ parked' = parked \ {t}
    /\ Keep(t) \/ Discard(t)
    /\ UNCHANGED <<order, age, backoff, head, known>>

\* _retry_or_fail_task: the worker is discarded when the error says it may be gone
\* or busy; the task is put into the queue anew.
Retry(t) ==
    /\ place[t] = "running" /\ retries[t] < MaxRetries
    /\ place' = [place EXCEPT ![t] = "queued"] /\ order' = Append(order, t)
    /\ backoff' = backoff \cup {t} /\ retries' = [retries EXCEPT ![t] = @ + 1]
    /\ parked' = parked \ {t}
    /\ Keep(t) \/ Discard(t)
    /\ UNCHANGED <<age, head, known>>

\* cancel_workflow
Cancel(t) ==
    /\ place[t] = "running" /\ place' = [place EXCEPT ![t] = "idle"]
    /\ retries' = [retries EXCEPT ![t] = 0] /\ parked' = parked \ {t}
    /\ Discard(t)
    /\ UNCHANGED <<order, age, backoff, head, known>>

BackoffOver(t) ==
    /\ t \in backoff /\ backoff' = backoff \ {t}
    /\ UNCHANGED <<place, order, age, retries, parked, head>> /\ UNCHANGED poolVars

Tick ==
    /\ \E t \in ToSet(order) : age[t] < Threshold
    /\ age' = [t \in Tasks |-> IF t \in ToSet(order) /\ age[t] < Threshold THEN age[t] + 1
                               ELSE age[t]]
    /\ UNCHANGED <<place, order, backoff, retries, parked, head>> /\ UNCHANGED poolVars
-----------------------------------------------------------------------------

Submit == Peek \/ Dispatch \/ Pending \/ Park
End(t) == Finish(t) \/ Retry(t) \/ Cancel(t)

Next ==
    \/ Submit \/ Tick \/ Ensure \/ RemoveNode
    \/ \E t \in Tasks : Put(t) \/ Restore(t) \/ End(t) \/ BackoffOver(t)

Spec == Init /\ [][Next]_vars

\* The submit thread goes round, time passes, running tasks end and models come.
Fairness ==
    /\ WF_vars(Submit) /\ WF_vars(Tick)
    /\ \A t \in Tasks : WF_vars(Restore(t)) /\ WF_vars(End(t)) /\ WF_vars(BackoffOver(t))
-----------------------------------------------------------------------------
(* Properties. *)

\* No two tasks share a worker, and the pool's marks are those of the leases it
\* still has: a mark too few gives a worker to two tasks, one too many makes a
\* worker useless for good, also when a node left and came back meanwhile.
WorkersExact ==
    /\ \A t, u \in Tasks : t # u /\ lease[t] = lease[u] => lease[t] = NoActor
    /\ busy = Leased \cap pool
    /\ Cardinality(pool) <= Target

\* Every queued task runs in the end, whatever better scores keep arriving.
EveryTaskRuns ==
    \A t \in Tasks : place[t] = "queued" ~> place[t] = "running"
=============================================================================
