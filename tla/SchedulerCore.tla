---------------------------- MODULE SchedulerCore -----------------------------
(***************************************************************************)
(* The Scheduler process (src/maze/core/scheduler/scheduler.py) between    *)
(* the messages of the Core and the results of Ray.  Four threads share    *)
(* one lock: receive takes requests in, submit dispatches the heads of the *)
(* gpu, cpu and io queues, supervisor collects results, timeouts and       *)
(* finished recoveries, and the LLM thread wakes or fails the tasks that   *)
(* wait for a model.  Events for the Core are collected while the lock is  *)
(* held and sent after it is released; what a sent event triggers          *)
(* (on_sent) takes the lock again.                                         *)
(*                                                                         *)
(* A critical section is one action, except where another thread can see   *)
(* into it: submit and the LLM thread read the set of stopped workflows    *)
(* without the lock.  Queues follow FCFS, the default algorithm.  A task   *)
(* is a TaskRuntime object; two objects may carry the same task id.  The   *)
(* resources of the nodes are a number of slots per class: ResourceLeases  *)
(* has the detail.  task_pending events only inform and are left out.      *)
(***************************************************************************)
EXTENDS Naturals, FiniteSets, Sequences, SequencesExt

CONSTANTS
    Objs,        \* TaskRuntime objects
    TaskOf,      \* the (workflow, task) id an object carries
    Workflows, WorkflowOf,
    ClassOf,     \* the queue of an object, 1..3 for gpu, cpu, io
    Slots,       \* how many leases the nodes can hold, per class
    MaxRetries,  \* max_retries of every task
    MaxPending,  \* the bound of RecoveryCoordinator.pending
    NeedsModel,  \* the objects that need a route to a model instance
    MayTimeout, MayOom, Oversized,   \* objects with that kind of failure
    NoObj

Classes == 1..3

ASSUME ObjsAssumption ==
    /\ IsFiniteSet(Objs) /\ NoObj \notin Objs
    /\ WorkflowOf \in [Objs -> Workflows] /\ ClassOf \in [Objs -> Classes]
    /\ \A o, p \in Objs : TaskOf[o] = TaskOf[p] => WorkflowOf[o] = WorkflowOf[p]
    /\ NeedsModel \cup MayTimeout \cup MayOom \cup Oversized \subseteq Objs
ASSUME BoundsAssumption ==
    Slots \in [Classes -> Nat] /\ MaxRetries \in Nat /\ MaxPending \in Nat

VARIABLES
    status,      \* TaskRuntime.status; "none" before, "gone" once dropped
    attempt,     \* TaskRuntime.attempt
    backoff,     \* objects whose next_eligible_time lies ahead
    published,   \* objects whose start_task event was sent (dispatch_published)
    queue,       \* HeterogeneousTaskQueues
    waiting,     \* _model_waiting, for one model
    deployed,    \* a route to the model exists
    llm,         \* LLM thread: phase, the waiters it is failing
    tracked,     \* the objects of WorkflowRuntimeManager.workflows
    stopped,     \* stopped_workflow_ids
    held,        \* active leases <<object, attempt>>
    recovering,  \* RecoveryCoordinator.pending
    sub,         \* submit: next queue, head under way, parking it, outbox
    sup,         \* supervisor: phase, work list, object being retried, outbox
    sent,        \* the last event sent to the Core, per object
    closed,      \* workflows stopped, cleared or failed for good
    kept         \* leases a failed cleanup keeps reserved

vars == <<status, attempt, backoff, published, queue, waiting, deployed, llm,
          tracked, stopped, held, recovering, sub, sup, sent, closed, kept>>

Id(o)         == <<o, attempt[o]>>
InWorkflow(w) == {o \in Objs : WorkflowOf[o] = w}
Running       == {o \in tracked : status[o] = "running"}
Queued        == UNION {ToSet(queue[c]) : c \in Classes}
LockFree      == sup.phase \in {"idle", "flush"} /\ ~sub.park /\ llm.phase # "fail"
Event(kind, o, k) == [kind |-> kind, obj |-> o, attempt |-> k]
Events == [kind : {"start", "retry", "finish", "exception"}, obj : Objs, attempt : 0..MaxRetries + 1]

\* What the Core sees of an event.  known: it carries an attempt identity, or is
\* marked as a rejection before the first dispatch.
Sent(kind, k, known) == [kind |-> kind, n |-> k, known |-> known]

Without(o) ==
    LET q == queue[ClassOf[o]]
        i == CHOOSE j \in 1..Len(q) : q[j] = o
    IN  [queue EXCEPT ![ClassOf[o]] = RemoveAt(q, i)]

\* The values of the variables.
TypeOK ==
    /\ status \in [Objs -> {"none", "ready", "pending", "running", "retrying",
                            "recovering", "finished", "gone"}]
    /\ attempt \in [Objs -> 0..MaxRetries + 1]
    /\ sent \in [Objs -> [kind : {"none", "start", "retry", "finish", "exception"},
                          n : 0..MaxRetries + 1, known : BOOLEAN]]
    /\ queue \in [Classes -> Seq(Objs)]
    /\ backoff \cup published \cup waiting \cup tracked \cup recovering \subseteq Objs
    /\ stopped \cup closed \subseteq Workflows
    /\ held \cup kept \subseteq Objs \X (1..MaxRetries + 1)
    /\ deployed \in BOOLEAN
    /\ llm \in [phase : {"idle", "wake", "popped", "fail"}, todo : SUBSET Objs]
    /\ sub \in [next : 1..4, head : Objs \cup {NoObj}, park : BOOLEAN, out : Seq(Events)]
    /\ sup \in [phase : {"idle", "drain", "timeouts", "results", "flush"}, todo : SUBSET Objs,
                cur : Objs \cup {NoObj}, out : Seq(Events)]
-------------------------------------------------------------------------------
Init ==
    /\ status = [o \in Objs |-> "none"]
    /\ attempt = [o \in Objs |-> 0] /\ sent = [o \in Objs |-> Sent("none", 0, TRUE)]
    /\ queue = [c \in Classes |-> <<>>]
    /\ backoff = {} /\ published = {} /\ waiting = {} /\ tracked = {}
    /\ recovering = {} /\ stopped = {} /\ closed = {} /\ held = {} /\ kept = {}
    /\ deployed = FALSE /\ llm = [phase |-> "idle", todo |-> {}]
    /\ sub = [next |-> 1, head |-> NoObj, park |-> FALSE, out |-> <<>>]
    /\ sup = [phase |-> "idle", todo |-> {}, cur |-> NoObj, out |-> <<>>]

\* Mutant of Close: the leases of the cancelled tasks are not released.
CloseKeepingLeases(w, hold) ==
    /\ stopped' = stopped \cup {w} /\ closed' = closed \cup {w}
    /\ waiting' = waiting \ InWorkflow(w) /\ tracked' = tracked \ InWorkflow(w)
    /\ held' = hold

\* A workflow ends: its waiters go, its running tasks are cancelled and give
\* back their leases.  hold: the leases the caller has left so far.
Close(w, hold) ==
    /\ stopped' = stopped \cup {w}
    /\ closed' = closed \cup {w}
    /\ waiting' = waiting \ InWorkflow(w)
    /\ tracked' = tracked \ InWorkflow(w)
    /\ held' = hold \ {Id(o) : o \in Running \cap InWorkflow(w)}
-------------------------------------------------------------------------------
(* The receive thread. *)

\* The first condition is the check for stopped workflows.
RunTask(o) ==
    /\ status[o] = "none" /\ LockFree
    /\ IF WorkflowOf[o] \in stopped
       THEN status' = [status EXCEPT ![o] = "gone"] /\ UNCHANGED queue
       ELSE /\ status' = [status EXCEPT ![o] = "ready"]
            /\ queue' = [queue EXCEPT ![ClassOf[o]] = Append(@, o)]
    /\ UNCHANGED <<attempt, backoff, published, waiting, deployed, llm, tracked,
                   stopped, held, recovering, sub, sup, sent, closed, kept>>

\* The message does not make a TaskRuntime: the whole workflow is terminated.
RejectTask(o) ==
    /\ status[o] = "none" /\ LockFree /\ WorkflowOf[o] \notin stopped
    /\ status' = [status EXCEPT ![o] = "gone"]
    /\ Close(WorkflowOf[o], held)
    /\ sent' = [sent EXCEPT ![o] = Sent("exception", 0, TRUE)]
    /\ UNCHANGED <<attempt, backoff, published, queue, deployed, llm, recovering,
                   sub, sup, kept>>

StopWorkflow(w) ==
    /\ LockFree
    /\ Close(w, held)
    /\ UNCHANGED <<status, attempt, backoff, published, queue, deployed, llm,
                   recovering, sub, sup, sent, kept>>

\* clear_workflow neither cancels nor releases.  The Core sends it once the run
\* has succeeded: every task it submitted has finished.
ClearWorkflow(w) ==
    /\ LockFree
    /\ \A o \in InWorkflow(w) : status[o] \in {"finished", "gone"}
    /\ ~\E i \in 1..Len(sup.out) : WorkflowOf[sup.out[i].obj] = w
    /\ stopped' = stopped \cup {w} /\ closed' = closed \cup {w}
    /\ waiting' = waiting \ InWorkflow(w) /\ tracked' = tracked \ InWorkflow(w)
    /\ UNCHANGED <<status, attempt, backoff, published, queue, deployed, llm, held,
                   recovering, sub, sup, sent, kept>>
-------------------------------------------------------------------------------
(* The submit thread. *)

Drop(o) ==
    /\ queue' = Without(o)
    /\ status' = [status EXCEPT ![o] = "gone"]

\* Up to the lock: skip an empty queue or a head in its back-off, remove the
\* head of a stopped workflow, or go on with the head.
SubPeek ==
    /\ sub.next \in Classes /\ sub.head = NoObj
    /\ LET q == queue[sub.next]
           skip == sub' = [sub EXCEPT !.next = @ + 1]
       IN  IF q = <<>> THEN skip /\ UNCHANGED <<queue, status>>
           ELSE IF WorkflowOf[Head(q)] \in stopped THEN Drop(Head(q)) /\ skip
           ELSE IF Head(q) \in backoff THEN skip /\ UNCHANGED <<queue, status>>
           ELSE sub' = [sub EXCEPT !.head = Head(q)] /\ UNCHANGED <<queue, status>>
    /\ UNCHANGED <<attempt, backoff, published, waiting, deployed, llm, tracked,
                   stopped, held, recovering, sup, sent, closed, kept>>

\* The head is handled; es are the events for the Core.
Handled(es) == sub' = [sub EXCEPT !.head = NoObj, !.next = @ + 1, !.out = @ \o es]

SubDropStopped(o) ==
    /\ LockFree /\ sub.head = o /\ WorkflowOf[o] \in stopped
    /\ Drop(o) /\ Handled(<<>>)
    /\ UNCHANGED <<attempt, backoff, published, waiting, deployed, llm, tracked,
                   stopped, held, recovering, sup, sent, closed, kept>>

\* The request exceeds the capacity of every node: the workflow fails.
SubReject(o) ==
    /\ LockFree /\ sub.head = o /\ WorkflowOf[o] \notin stopped
    /\ o \in Oversized
    /\ Drop(o) /\ Close(WorkflowOf[o], held)
    /\ Handled(<<Event("exception", o, attempt[o])>>)
    /\ UNCHANGED <<attempt, backoff, published, deployed, llm, recovering, sup,
                   sent, kept>>

\* No route to the model: the lock is kept until SubPark.
SubRouteMiss(o) ==
    /\ LockFree /\ sub.head = o /\ WorkflowOf[o] \notin stopped
    /\ o \in NeedsModel \ Oversized /\ ~deployed
    /\ sub' = [sub EXCEPT !.park = TRUE]
    /\ status' = [status EXCEPT ![o] = "pending"]
    /\ UNCHANGED <<attempt, backoff, published, queue, waiting, deployed, llm,
                   tracked, stopped, held, recovering, sup, sent, closed, kept>>

\* restore keeps the old sequence number: the task may go anywhere in its queue.
Restored(q, o) == {InsertAt(q, i, o) : i \in 1..Len(q) + 1}

\* Mutants of SubPark: no second look at the route, or the task stays queued.
SubParkBlindly(o) ==
    /\ sub.head = o /\ sub.park
    /\ queue' = Without(o) /\ waiting' = waiting \cup {o}
    /\ sub' = [sub EXCEPT !.head = NoObj, !.park = FALSE, !.next = @ + 1]
    /\ UNCHANGED <<status, attempt, backoff, published, deployed, llm, tracked,
                   stopped, held, recovering, sup, sent, closed, kept>>

SubParkTwice(o) ==
    /\ sub.head = o /\ sub.park /\ ~deployed
    /\ waiting' = waiting \cup {o}
    /\ sub' = [sub EXCEPT !.head = NoObj, !.park = FALSE, !.next = @ + 1]
    /\ UNCHANGED <<status, attempt, backoff, published, queue, deployed, llm, tracked,
                   stopped, held, recovering, sup, sent, closed, kept>>

\* _wait_for_model tries the route again once the task is registered.
SubPark(o) ==
    /\ sub.head = o /\ sub.park
    /\ IF deployed
       THEN /\ \E q \in Restored(Without(o)[ClassOf[o]], o) :
                  queue' = [queue EXCEPT ![ClassOf[o]] = q]
            /\ status' = [status EXCEPT ![o] = "ready"]
            /\ UNCHANGED waiting
       ELSE /\ queue' = Without(o)
            /\ waiting' = waiting \cup {o}
            /\ UNCHANGED status
    /\ sub' = [sub EXCEPT !.head = NoObj, !.park = FALSE, !.next = @ + 1]
    /\ UNCHANGED <<attempt, backoff, published, deployed, llm, tracked, stopped,
                   held, recovering, sup, sent, closed, kept>>

Routed(o) ==
    /\ LockFree /\ sub.head = o /\ ~sub.park
    /\ WorkflowOf[o] \notin stopped /\ o \notin Oversized
    /\ o \in NeedsModel => deployed

Duplicate(o) == \E p \in tracked \ {o} : TaskOf[p] = TaskOf[o]

SubDropDuplicate(o) ==
    /\ Routed(o) /\ Duplicate(o)
    /\ Drop(o) /\ Handled(<<>>)
    /\ UNCHANGED <<attempt, backoff, published, waiting, deployed, llm, tracked,
                   stopped, held, recovering, sup, sent, closed, kept>>

HasSlot(o) ==
    Cardinality({l \in held : ClassOf[l[1]] = ClassOf[o]}) < Slots[ClassOf[o]]

SubDispatch(o) ==
    LET k == attempt[o] + 1
    IN  /\ Routed(o) /\ ~Duplicate(o) /\ HasSlot(o)
        /\ queue' = Without(o)
        /\ tracked' = tracked \cup {o}
        /\ attempt' = [attempt EXCEPT ![o] = k]
        /\ held' = held \cup {<<o, k>>}
        /\ status' = [status EXCEPT ![o] = "running"]
        /\ published' = published \ {o}
        /\ Handled(<<Event("start", o, k)>>)
        /\ UNCHANGED <<backoff, waiting, deployed, llm, stopped, recovering, sup,
                       sent, closed, kept>>

\* run_task raises: its lease is given back and the workflow fails.
SubLaunchFails(o) ==
    LET k == attempt[o] + 1
    IN  /\ Routed(o) /\ ~Duplicate(o) /\ HasSlot(o)
        /\ Drop(o)
        /\ attempt' = [attempt EXCEPT ![o] = k]
        /\ Close(WorkflowOf[o], held)
        /\ Handled(<<Event("exception", o, k)>>)
        /\ UNCHANGED <<backoff, published, deployed, llm, recovering, sup,
                       sent, kept>>

\* Mutant of SubPending: the scan does not go on to the next queue.
SubPendingBlocks(o) ==
    /\ Routed(o) /\ ~Duplicate(o) /\ ~HasSlot(o)
    /\ tracked' = tracked \cup {o}
    /\ status' = [status EXCEPT ![o] = "pending"]
    /\ sub' = [sub EXCEPT !.head = NoObj]
    /\ UNCHANGED <<attempt, backoff, published, queue, waiting, deployed, llm,
                   stopped, held, recovering, sup, sent, closed, kept>>

\* No node: the task stays the head of its queue.
SubPending(o) ==
    /\ Routed(o) /\ ~Duplicate(o) /\ ~HasSlot(o)
    /\ tracked' = tracked \cup {o}
    /\ status' = [status EXCEPT ![o] = "pending"]
    /\ Handled(<<>>)
    /\ UNCHANGED <<attempt, backoff, published, queue, waiting, deployed, llm,
                   stopped, held, recovering, sup, sent, closed, kept>>

\* Mutant of SubFlush: a dispatch is never marked published.
SubFlushUnpublished ==
    /\ sub.next = 4
    /\ sub' = IF sub.out = <<>> THEN [sub EXCEPT !.next = 1]
              ELSE [sub EXCEPT !.out = Tail(@)]
    /\ UNCHANGED <<status, attempt, backoff, published, queue, waiting, deployed, llm,
                   tracked, stopped, held, recovering, sup, sent, closed, kept>>

\* After the three queues: send the events; a start_task is then published.
SubFlush ==
    /\ sub.next = 4
    /\ IF sub.out = <<>>
       THEN sub' = [sub EXCEPT !.next = 1] /\ UNCHANGED <<published, sent>>
       ELSE LET e == Head(sub.out)
            IN  /\ LockFree
                /\ sub' = [sub EXCEPT !.out = Tail(@)]
                /\ sent' = [sent EXCEPT ![e.obj] = Sent(e.kind, e.attempt, TRUE)]
                /\ published' = IF e.kind = "start" THEN published \cup {e.obj}
                                ELSE published
    /\ UNCHANGED <<status, attempt, backoff, queue, waiting, deployed, llm, tracked,
                   stopped, held, recovering, sup, closed, kept>>
-------------------------------------------------------------------------------
(* The supervisor thread: it holds the lock from SupBegin to SupRelease. *)

SupBegin ==
    /\ sup.phase = "idle" /\ LockFree
    /\ sup' = [sup EXCEPT !.phase = "drain"]
    /\ UNCHANGED <<status, attempt, backoff, published, queue, waiting, deployed,
                   llm, tracked, stopped, held, recovering, sub, sent, closed,
                   kept>>

Said(kind, o) == sup.out \o <<Event(kind, o, attempt[o])>>

\* The cleanup of a failed attempt succeeded: its lease is free at last, and
\* the task goes on unless it was cancelled meanwhile.
SupRecovered(o) ==
    /\ sup.phase = "drain" /\ o \in recovering
    /\ recovering' = recovering \ {o}
    /\ held' = held \ {Id(o)}
    /\ IF o \in tracked /\ WorkflowOf[o] \notin stopped
       THEN /\ status' = [status EXCEPT ![o] = "retrying"]
            /\ backoff' = backoff \cup {o}
            /\ sup' = [sup EXCEPT !.out = Said("retry", o)]
       ELSE UNCHANGED <<status, backoff, sup>>
    /\ UNCHANGED <<attempt, published, queue, waiting, deployed, llm, tracked,
                   stopped, sub, sent, closed, kept>>

\* The cleanup failed: the lease of a task that may still be alive stays, the
\* one of a request to a model instance is given back.
SupCleanupFails(o, isTask) ==
    LET rest == IF isTask \/ o \notin tracked THEN held ELSE held \ {Id(o)}
    IN  /\ sup.phase = "drain" /\ o \in recovering
        /\ recovering' = recovering \ {o}
        /\ kept' = kept \cup (rest \cap {Id(o)})
        /\ IF o \in tracked
           THEN /\ Close(WorkflowOf[o], rest)
                /\ sup' = [sup EXCEPT !.out = Said("exception", o)]
           ELSE UNCHANGED <<stopped, closed, waiting, tracked, held, sup>>
        /\ UNCHANGED <<status, attempt, backoff, published, queue, deployed, llm,
                       sub, sent>>

\* _fail_timed_out_tasks walks over a list made before the first failure.
SupScan ==
    /\ sup.phase = "drain"
    /\ \E T \in SUBSET (Running \cap published \cap MayTimeout) :
          sup' = [sup EXCEPT !.phase = "timeouts", !.todo = T]
    /\ UNCHANGED <<status, attempt, backoff, published, queue, waiting, deployed,
                   llm, tracked, stopped, held, recovering, sub, sent, closed,
                   kept>>

\* A timeout is not retryable.
SupTimeout(o) ==
    /\ sup.phase = "timeouts" /\ o \in sup.todo
    /\ Close(WorkflowOf[o], held)
    /\ sup' = [sup EXCEPT !.todo = @ \ {o}, !.out = Said("exception", o)]
    /\ UNCHANGED <<status, attempt, backoff, published, queue, deployed, llm,
                   recovering, sub, sent, kept>>

\* Mutant of SupCollect: results of unpublished dispatches are taken too.
SupCollectUnpublished ==
    /\ sup.phase = "timeouts" /\ sup.todo = {}
    /\ \E F \in SUBSET Running : sup' = [sup EXCEPT !.phase = "results", !.todo = F]
    /\ UNCHANGED <<status, attempt, backoff, published, queue, waiting, deployed,
                   llm, tracked, stopped, held, recovering, sub, sent, closed,
                   kept>>

\* ray.wait on the published running tasks.
SupCollect ==
    /\ sup.phase = "timeouts" /\ sup.todo = {}
    /\ \E F \in SUBSET (Running \cap published) :
          sup' = [sup EXCEPT !.phase = "results", !.todo = F]
    /\ UNCHANGED <<status, attempt, backoff, published, queue, waiting, deployed,
                   llm, tracked, stopped, held, recovering, sub, sent, closed,
                   kept>>

Result(o) == sup.phase = "results" /\ sup.cur = NoObj /\ o \in sup.todo

\* get_task_by_ref finds no task: its workflow was cancelled in this sweep.
SupSkip(o) ==
    /\ Result(o) /\ o \notin Running
    /\ sup' = [sup EXCEPT !.todo = @ \ {o}]
    /\ UNCHANGED <<status, attempt, backoff, published, queue, waiting, deployed,
                   llm, tracked, stopped, held, recovering, sub, sent, closed,
                   kept>>

SupFinish(o) ==
    /\ Result(o) /\ o \in Running
    /\ status' = [status EXCEPT ![o] = "finished"]
    /\ held' = held \ {Id(o)}
    /\ sup' = [sup EXCEPT !.todo = @ \ {o}, !.out = Said("finish", o)]
    /\ UNCHANGED <<attempt, backoff, published, queue, waiting, deployed, llm,
                   tracked, stopped, recovering, sub, sent, closed, kept>>

\* An error that is not retryable, or whose retries are spent; the report of a
\* result that raises ends the same way.
SupFail(o) ==
    /\ Result(o) /\ o \in Running
    /\ Close(WorkflowOf[o], held)
    /\ sup' = [sup EXCEPT !.todo = @ \ {o}, !.out = Said("exception", o)]
    /\ UNCHANGED <<status, attempt, backoff, published, queue, deployed, llm,
                   recovering, sub, sent, kept>>

\* Mutant of SupMark: get_task_by_ref still finds the task of a workflow that was
\* cancelled in this sweep.
SupMarkStale(o) ==
    /\ Result(o)
    /\ attempt[o] <= MaxRetries
    /\ stopped' = stopped \cup {WorkflowOf[o]}
    /\ sup' = [sup EXCEPT !.todo = @ \ {o}, !.cur = o]
    /\ UNCHANGED <<status, attempt, backoff, published, queue, waiting, deployed,
                   llm, tracked, held, recovering, sub, sent, closed, kept>>

\* _retry_or_fail_task first marks the workflow stopped, and takes the mark
\* back (SupRetry, SupRecover) once it has decided to retry.
SupMark(o) ==
    /\ Result(o) /\ o \in Running
    /\ attempt[o] <= MaxRetries
    /\ stopped' = stopped \cup {WorkflowOf[o]}
    /\ sup' = [sup EXCEPT !.todo = @ \ {o}, !.cur = o]
    /\ UNCHANGED <<status, attempt, backoff, published, queue, waiting, deployed,
                   llm, tracked, held, recovering, sub, sent, closed, kept>>

SupRetry(o) ==
    /\ sup.cur = o
    /\ stopped' = stopped \ {WorkflowOf[o]}
    /\ held' = held \ {Id(o)}
    /\ status' = [status EXCEPT ![o] = "retrying"]
    /\ backoff' = backoff \cup {o}
    /\ sup' = [sup EXCEPT !.cur = NoObj, !.out = Said("retry", o)]
    /\ UNCHANGED <<attempt, published, queue, waiting, deployed, llm, tracked,
                   recovering, sub, sent, closed, kept>>

\* A CUDA out-of-memory error: the lease stays until the failed attempt is
\* cleaned up.
SupRecover(o) ==
    /\ sup.cur = o /\ o \in MayOom
    /\ Cardinality(recovering) < MaxPending
    /\ stopped' = stopped \ {WorkflowOf[o]}
    /\ status' = [status EXCEPT ![o] = "recovering"]
    /\ recovering' = recovering \cup {o}
    /\ sup' = [sup EXCEPT !.cur = NoObj]
    /\ UNCHANGED <<attempt, backoff, published, queue, waiting, deployed, llm,
                   tracked, held, sub, sent, closed, kept>>

\* The recovery is refused (the pool is full, the instance is another one): the
\* second call of _retry_or_fail_task has no retries left.
SupRecoveryRefused(o) ==
    /\ sup.cur = o /\ o \in MayOom
    /\ Close(WorkflowOf[o], held)
    /\ sup' = [sup EXCEPT !.cur = NoObj, !.out = Said("exception", o)]
    /\ UNCHANGED <<status, attempt, backoff, published, queue, deployed, llm,
                   recovering, sub, sent, kept>>

SupRelease ==
    /\ sup.phase = "results" /\ sup.todo = {} /\ sup.cur = NoObj
    /\ sup' = [sup EXCEPT !.phase = "flush"]
    /\ UNCHANGED <<status, attempt, backoff, published, queue, waiting, deployed,
                   llm, tracked, stopped, held, recovering, sub, sent, closed,
                   kept>>

\* A task goes back to its queue when its task_retry event is sent.
SupFlush ==
    /\ sup.phase = "flush"
    /\ IF sup.out = <<>>
       THEN sup' = [sup EXCEPT !.phase = "idle"] /\ UNCHANGED <<queue, sent>>
       ELSE LET e == Head(sup.out)
            IN  /\ LockFree
                /\ sup' = [sup EXCEPT !.out = Tail(@)]
                /\ sent' = [sent EXCEPT ![e.obj] = Sent(e.kind, e.attempt, TRUE)]
                /\ IF e.kind = "retry"
                   THEN queue' = [queue EXCEPT ![ClassOf[e.obj]] = Append(@, e.obj)]
                   ELSE UNCHANGED queue
    /\ UNCHANGED <<status, attempt, backoff, published, waiting, deployed, llm,
                   tracked, stopped, held, recovering, sub, closed, kept>>
-------------------------------------------------------------------------------
(* Time, and the LLM thread. *)

BackoffOver(o) ==
    /\ o \in backoff
    /\ backoff' = backoff \ {o}
    /\ UNCHANGED <<status, attempt, published, queue, waiting, deployed, llm,
                   tracked, stopped, held, recovering, sub, sup, sent, closed,
                   kept>>

ModelReady ==
    /\ llm.phase = "idle" /\ ~deployed
    /\ deployed' = TRUE /\ llm' = [llm EXCEPT !.phase = "wake"]
    /\ UNCHANGED <<status, attempt, backoff, published, queue, waiting, tracked,
                   stopped, held, recovering, sub, sup, sent, closed, kept>>

\* The instance leaves routing, by a stop or a scale-in claim of any thread.
ModelLost ==
    /\ deployed /\ deployed' = FALSE
    /\ UNCHANGED <<status, attempt, backoff, published, queue, waiting, llm, tracked,
                   stopped, held, recovering, sub, sup, sent, closed, kept>>

\* _wake_model_waiters: a waiter of a stopped workflow is dropped, on a look at
\* the set of stopped workflows without the lock.
Wake(o) ==
    /\ llm.phase = "wake" /\ o \in waiting
    /\ waiting' = waiting \ {o}
    /\ IF WorkflowOf[o] \in stopped
       THEN status' = [status EXCEPT ![o] = "gone"] /\ UNCHANGED queue
       ELSE /\ status' = [status EXCEPT ![o] = "ready"]
            /\ \E q \in Restored(queue[ClassOf[o]], o) :
                  queue' = [queue EXCEPT ![ClassOf[o]] = q]
    /\ UNCHANGED <<attempt, backoff, published, deployed, llm, tracked, stopped, held,
                   recovering, sub, sup, sent, closed, kept>>

WakeDone ==
    /\ llm.phase = "wake" /\ waiting = {} /\ llm' = [llm EXCEPT !.phase = "idle"]
    /\ UNCHANGED <<status, attempt, backoff, published, queue, waiting, deployed,
                   tracked, stopped, held, recovering, sub, sup, sent, closed, kept>>

\* A deployment failed, or no node has the model: _fail_model_waiters takes the
\* waiters, gets the lock and fails them; the event has the attempt number but
\* no dispatch id when the task was retried before (clear_attempt_identity).
PopWaiters ==
    /\ llm.phase = "idle" /\ ~deployed /\ waiting # {}
    /\ waiting' = {} /\ llm' = [phase |-> "popped", todo |-> waiting]
    /\ UNCHANGED <<status, attempt, backoff, published, queue, deployed, tracked,
                   stopped, held, recovering, sub, sup, sent, closed, kept>>

FailLock ==
    /\ llm.phase = "popped" /\ LockFree
    /\ llm' = [llm EXCEPT !.phase = "fail"]
    /\ UNCHANGED <<status, attempt, backoff, published, queue, waiting, deployed,
                   tracked, stopped, held, recovering, sub, sup, sent, closed, kept>>

FailWaiter(o) ==
    /\ llm.phase = "fail" /\ o \in llm.todo
    /\ llm' = [llm EXCEPT !.todo = @ \ {o}]
    /\ status' = [status EXCEPT ![o] = "gone"]
    /\ IF WorkflowOf[o] \in stopped
       THEN UNCHANGED <<stopped, closed, waiting, tracked, held, sent>>
       ELSE /\ Close(WorkflowOf[o], held)
            /\ sent' = [sent EXCEPT ![o] =
                          Sent("exception", attempt[o], attempt[o] = 0)]
    /\ UNCHANGED <<attempt, backoff, published, queue, deployed, recovering, sub, sup,
                   kept>>

FailUnlock ==
    /\ llm.phase = "fail" /\ llm.todo = {}
    /\ llm' = [llm EXCEPT !.phase = "idle"]
    /\ UNCHANGED <<status, attempt, backoff, published, queue, waiting, deployed,
                   tracked, stopped, held, recovering, sub, sup, sent, closed, kept>>

Receive    == \/ \E o \in Objs : RunTask(o) \/ RejectTask(o)
              \/ \E w \in Workflows : StopWorkflow(w) \/ ClearWorkflow(w)
Submit     == \/ SubPeek \/ SubFlush
              \/ \E o \in Objs : \/ SubDropStopped(o) \/ SubReject(o) \/ SubRouteMiss(o)
                                 \/ SubPark(o) \/ SubDropDuplicate(o) \/ SubDispatch(o)
                                 \/ SubLaunchFails(o) \/ SubPending(o)
Supervisor == \/ SupBegin \/ SupScan \/ SupCollect \/ SupRelease \/ SupFlush
              \/ \E o \in Objs : \/ SupRecovered(o) \/ SupTimeout(o) \/ SupSkip(o)
                                 \/ SupFinish(o) \/ SupFail(o) \/ SupMark(o)
                                 \/ SupRetry(o) \/ SupRecover(o) \/ SupRecoveryRefused(o)
              \/ \E o \in Objs, isTask \in BOOLEAN : SupCleanupFails(o, isTask)
LLM        == \/ ModelReady \/ ModelLost \/ WakeDone
              \/ PopWaiters \/ FailLock \/ FailUnlock
              \/ \E o \in Objs : Wake(o) \/ FailWaiter(o)

Next == Receive \/ Submit \/ Supervisor \/ LLM \/ \E o \in Objs : BackoffOver(o)

Spec == Init /\ [][Next]_vars

\* The two loops keep running and are not locked out for ever; the LLM thread
\* gives the lock back; a task that runs is seen finished at last, a cleanup
\* ends, and time passes.
Fairness ==
    /\ SF_vars(Submit) /\ SF_vars(Supervisor)
    /\ WF_vars(FailUnlock \/ \E o \in Objs : FailWaiter(o))
    /\ \A o \in Objs :
          /\ SF_vars(SupCollect /\ o \in sup'.todo)
          /\ SF_vars(SupRecovered(o) \/ \E isTask \in BOOLEAN : SupCleanupFails(o, isTask))
          /\ WF_vars(BackoffOver(o))

FairSpec == Spec /\ Fairness
-------------------------------------------------------------------------------
\* Every lease belongs to a running attempt, to one that is being cleaned up, or
\* to one whose cleanup failed; and each of these holds its lease.  No order of
\* results, timeouts, cancellations and recoveries leaks a lease or frees the
\* lease of an attempt that is still alive.
LeasesAccounted ==
    held = {Id(o) : o \in Running \cup recovering} \cup kept

\* A task is never in two places: queued twice, queued and waiting for a model,
\* queued and running, or about to be queued by two events; and of two dispatches
\* of the same task, as the Core may send, at most one runs.
OnePlace ==
    /\ \A c \in Classes : IsInjective(queue[c])
    /\ Queued \cap (waiting \cup llm.todo \cup Running \cup recovering) = {}
    /\ (waiting \cup llm.todo) \cap (Running \cup recovering) = {}
    /\ \A o \in Objs :
          LET due == {i \in 1..Len(sup.out) : sup.out[i] = Event("retry", o, attempt[o])}
          IN  /\ Cardinality(due) <= 1
              /\ due # {} => o \notin Queued \cup waiting \cup Running
    /\ \A o, p \in (Running \cup recovering) \cap tracked : o # p => TaskOf[o] # TaskOf[p]

\* The events sent about a task are the stream AttemptStream promises the Core:
\* two threads send them, in order, without a gap and never after the end.
Stream == INSTANCE AttemptStream WITH last <- sent
EventsInOrder == Stream!Spec

\* A workflow that was stopped, cleared or failed keeps its mark, although a
\* retry takes marks back, and never again starts a task.
ClosedForGood ==
    /\ closed \subseteq stopped
    /\ \A o \in tracked : WorkflowOf[o] \notin closed

\* No lost wake-up: while a route to the model exists, tasks wait for it only as
\* long as a wake-up is due.
NoLostWakeup == deployed /\ waiting # {} => llm.phase = "wake"

\* A queue whose class has slots drains, however long the head of another queue
\* has to wait: the README's independent queues.
QueuesIndependent ==
    \A o \in Objs : Slots[ClassOf[o]] > 0 => (o \in Queued ~> o \notin Queued)

\* A lease is given back in the end, whether its task finishes, fails, times out
\* or is cleaned up, unless the cleanup fails.
LeasesReturned ==
    \A o \in Objs : \A k \in 1..MaxRetries + 1 :
       <<o, k>> \in held ~> <<o, k>> \notin held \/ <<o, k>> \in kept

\* A task that waits for a model goes back to its queue, unless its workflow
\* has ended.
WaitersRequeued ==
    [][\A o \in (waiting \cup llm.todo) \ (waiting' \cup llm'.todo) :
          o \in Queued' \/ WorkflowOf[o] \in closed']_vars

\* A task that fails is failed for the Core too: the event says which attempt
\* it is about.  The Core ignores one that does not.
FailuresIdentified ==
    \A o \in Objs : sent[o].kind = "exception" => sent[o].known
===============================================================================
