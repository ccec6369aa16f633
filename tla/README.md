# Verification of Maze: TLA+ models, model checking and proofs

Maze is a distributed framework for agent workflows. Users submit graphs of
tasks over HTTP; the *Core* process keeps the runs, the *Scheduler* process
places tasks on the nodes of a Ray cluster, and *model instances* serve LLM and
speech models to tasks. This directory holds TLA+ models of the parts of
`src/maze/core` whose correctness depends on the order of events, the TLC
configurations that check them, and TLAPS proofs about them.

Check a run with `tlc -workers 2 -config SchedulerRaces.cfg MCSchedulerCore`, a
proof with `tlapm SchedulerCoreProofs.tla`, and so for every other `*Proofs.tla`.
`PROJECT.json` lists the runs, the mutants that show each property can fail, the
source lines each definition models, the hazards of the code and the theorems.

## 1. Inventory

| Component | State | Operations | Interacts with | Correct means |
|---|---|---|---|---|
| Resource leases (`scheduler/resource.py`, `dag_context.py`) | registered nodes with total and available resources, disabled marks, running counts, active leases, affinity of runs to nodes | `start_worker`, `stop_worker`, `check_dead_node`, `set_node_disabled`, `select_node`, `release_lease`, `release_dag_context` | called by every Scheduler thread under its lock | availability = capacity − leases, a device has one lease, counts and contexts match |
| Scheduler threads (`scheduler/scheduler.py`) | queues, workflows and tasks, stopped marks, model waiters, outboxes | receive, submit, supervisor, LLM control, standby, sender threads | ZeroMQ from and to the Core, Ray, resource leases | every lease accounted for, no double run, events in order, nothing waits for ever |
| Runtimes (`runtime.py`), queues (`queues.py`), order (`strategy.py`, `runtime_estimator.py`) | task status, attempt, dispatch id, back-off; heads of gpu, cpu and io queues | add, cancel, take, restore, retry | Scheduler threads | a task is in one place; queues do not block each other; no starvation |
| Recovery (`recovery.py`) | up to 16 pending cleanups on two threads | submit, completed | supervisor | a lease stays while a failed attempt may be alive |
| Standby pool (`standby_worker.py`) | pre-started actors per node, busy ids | ensure, acquire, release | supervisor, standby thread | an actor serves one task, none is lost |
| Model instances (`llm_instance.py`) | instances with state, routes, pending starts, scale-in claims | start, ready, route, stop, cancel, scale-in | LLM control thread, Ray actors | no route to a stopped instance, no actor leaked |
| Core (`path/path.py`) | runs in memory, task attempts, event subscribers, dispatches | submit, monitor events, deadline sweep, stop, recover, append | HTTP server, Scheduler, files | events of old attempts have no effect, a run ends once, what is persisted is what was told |
| Static runs (`workflow/static_run.py`) | run and task states, event log, snapshot | `mark_task_*`, append event, recover | Core | children start after parents, terminal states stay |
| Dynamic runs (`workflow/dynamic*.py`) | tasks appended while running, event log, snapshot | append, submit, finish, finalize, recover | Core | a task is submitted once, only when its parents succeeded |
| Dispatch journal (`path/path.py`) | prepared → dispatching → active, cleanup pending → terminal | start workflow, cleanup, recover | files, Scheduler | a crash leaves no run half dispatched |
| Policies (`fault_tolerance.py`, `resource_policy.py`, `resource_history.py`) | profiles of contexts, applied observations, the trace of a task | diagnose, repair, recommend, observe | Core, Scheduler, a file | a retry asks for more than what failed, nothing is learned twice |
| Artifacts and lineage (`files/`) | blobs, their owners and grants, manifests of tasks | put, upload, stage, revoke, collect | Core, server, task runner | what a run may read is there, what it may not read it never gets |
| DAG specifications (`workflow/dag_spec.py`, `workflow.py`) | draft, bound workflow id, parameters | validate, bind, run | Core, Scheduler | what is accepted can be run to its end, in order |
| HTTP server | none of its own | parse a request, call the Core | Core | only the upload of a file is modelled |
| Worker agent, CLI, clients, metrics, web workbench | little or none | thin | Core | not modelled |

What makes the system hard:

* Five threads of the Scheduler share one lock, but read the set of stopped
  workflows without it, and send events after they have released it. What a
  sent event triggers (a task marked as published, a retried task queued) takes
  the lock again.
* A task may fail, time out, run out of GPU memory or be cancelled while a
  sibling does the same in the same sweep of the supervisor.
* Leases outlive the registration of their node; nodes come back with another
  capacity or under the address of another node.
* The Core persists an event, updates memory and talks to the Scheduler in
  separate steps, with awaits in between, and any of them may fail.
* Clients append tasks to a dynamic run while the parents of these tasks finish,
  and in the sleep of a monitor that has just undone what it did.
* A model instance is started, probed, reclaimed and stopped by several threads,
  and the creation of its actor may return after everybody has given it up.
* A model server lives in a session of its own: it survives its actor, the
  Scheduler and Ray on its node.

`PROJECT.json` lists these as hazards at the line where they bite, with the
properties that cover them. Two have no property: a write that stops in the middle
of a line of `events.jsonl`, and a failed read of `run.json`, after which a pending
cleanup is forgotten.

## 2. Modules

### ResourceLeases (with MCResourceLeases, ResourceLeasesProofs)

One action per method of `ResourceManager`: they all run under the lock.
`RayJoin` and `RayDie` are the cluster's. `registered`, `total`, `avail`,
`disabled`, `taskCount`, `lease`, `prefers` and `load` are the fields `nodes`,
`total_resources`, `available_resources`, `disabled_node_ids`,
`running_task_counts`, `active_leases`, `run2ctx` and `node_load_counter`. One
scalar `cpu` stands for `cpu` and `cpu_mem`, which follow the same arithmetic; a
GPU has the count 0 or 1 and a memory. Choice among the fitting nodes follows
the default policy and the affinity.

* `AvailabilityExact`: what a node offers is its capacity minus its leases, over
  any number of re-registrations and clamps.
* `GpuExclusive`: no device has two leases.
* `CountsExact`, `ContextsExact`: the counters match what they count.
* `GrantWithinCapacity` (action property): a lease is granted on a registered node
  that is not disabled and that Ray reports alive, and leaves it within the
  capacity it has registered, counting all leases: its cpu, and the device, which
  is one the node has, is held by nobody else and has the memory. TLC finds it
  violated when any one of the five conditions of `CanRun` and `GpuOptions` is left out.

### SchedulerCore (with MCSchedulerCore, SchedulerCoreProofs), AttemptStream

The receive, submit and supervisor threads, and the parts of the LLM thread that
wake the tasks waiting for a model or fail them (`PopWaiters`, `FailLock`,
`FailWaiter`, `FailUnlock`; the LLM thread's place is `llm`). `ModelLost` stands for
whatever takes the instance out of routing, and comes at any time. A critical section is one action unless another thread sees
into it. `sub` and `sup` are the program counters and outboxes of the two loops.
`SupMark` and `SupRetry`/`SupRecover`/`SupRecoveryRefused` split
`_retry_or_fail_task`, because the transient stopped mark is visible to the
lock-free reads in `SubPeek` and `Wake`. `SubRouteMiss` and `SubPark` split the
search for a model route and `_wait_for_model`. `SubFlush` and `SupFlush` send
one event and run its `on_sent`.

`AttemptStream` is the abstract specification of what the Core gets to see: one
stream per dispatched task, in which attempts start with increasing numbers and
an attempt is reported to be retried, finished or failed at most once, in this
order. `SchedulerCore` implements it (`EventsInOrder`, the refinement mapping is
`sent`, the last event given to the socket), `RunMonitor` assumes it.

A task is a `TaskRuntime` object; objects may share a task id (a second dispatch
of the same task). Nodes are numbers of slots. `task_pending` events, arguments
and results are left out.
`TypeOK` states the values of the variables. Here and in `DispatchJournal`,
`DynamicRun` and `ModelInstances` it is a theorem, and no run spends its time on it.

* `LeasesAccounted`: the active leases are exactly those of running attempts, of
  attempts under cleanup and of attempts whose cleanup failed.
* `OnePlace`: a task is in one place; two dispatches of one task never run together.
* `ClosedForGood`: a retry never takes back the mark of a workflow that has ended.
* `NoLostWakeup`: tasks wait for a model only while no route exists, or while a
  wake-up is due.
* `EventsInOrder` (refinement): the events of every task are a stream that
  `AttemptStream` allows, over retries, recoveries, launch failures and waiters.
* `FailuresIdentified`: the Core can tell which attempt a failure is about.
* `QueuesIndependent`, `LeasesReturned` (liveness): the head of one queue does not
  block the others; leases come back.

### RunMonitor (with MCRunMonitor, RunMonitorProofs), RunLifecycle

The Core's side of one static run, from its activation on. `mem` is the
`StaticRun` in memory (`status`, the task states, `event_log`, and
`finish_continuations` as a stage and the children left to send), `acc` is
`task_attempts` with `pre_dispatch_rejections`, `disk` is `events.jsonl` and
`run.json`, `open` says that `async_que` holds a queue for the run, `told` is
what was put into it, `dispatched` the tasks sent to the Scheduler, in their order,
and `orders` the other messages to it, `last` the state of the Scheduler's streams
(`AttemptStream`), from which `Arrive` takes the next message into `busy`; `NoMsg`,
which `MessageAssumption` keeps apart from every message, is no message.

* `Handle` is the transaction of `monitor_coroutine`: accept the event, mark the
  run, append the event, save the snapshot, commit; on an `OSError` undo all of it
  in memory and come back with the same message, on any other error undo it and
  drop the message. `Drop` covers the events that change nothing.
* `Notify`, `Advance`, `Dispatch`, `DispatchDone`, `WriteEnd`, `TellEnd`, `Clear`,
  `Complete` are the stages of `_continue_static_finish`, each up to and including
  its save. The monitor holds the Core's lock over all of them and gives it up only
  in the sleep before a retry. So `Sweep` and `StopWorkflow` are enabled while
  `monitor` is `"idle"` or `"sleeping"`, while `Crash` comes anywhere.
* A write has one of four outcomes: done, nothing written, the event written but
  not the snapshot, both written and yet reported as failed; and it may be refused
  because the sequence number is taken (`Conflict`).
* `RecoverLog`, `RecoverSave`, `Recovered` are `recover_interrupted_runs`, which may
  itself be cut by a crash: nothing it does is kept in memory.

`RunLifecycle` is the abstract specification: a run starts a task only after its
parents, ends at most once in what it says, and keeps its end. `RunMonitor`
implements it (`LifecycleKept`, with the snapshot's status, the finish events on
disk, the announced end and the dispatches as refinement mapping).

Left out: `task_pending`, artifacts and metrics (a rejected manifest turns a finish
into a failure, which `Ends` covers), the handler for a dead Scheduler, the
dispatch journal. An event on disk is whole or absent.

* `DispatchExact`: no task is sent twice, none is forgotten, none is early; a run that
  succeeded tells its subscribers and clears the Scheduler.
* `ToldIsDurable`, `ToldAgrees`: subscribers are told only what the files say.
* `LogLoads`: the log can be loaded by the next process.
* `CaughtUp`: the run shows the last event of every task; no event is lost in a
  rolled-back transaction.
* `MessageDone` (liveness): the monitor gets done with every message.
* `OutcomeRetained`: the end a client could read survives a restart.

### DispatchJournal (with MCDispatchJournal, DispatchJournalProofs), Submission

The submission of a static run, from `_start_workflow` until it is active or
cleaned up. `disk` is the journal in `run.json` (`prepared`, `dispatching`,
`active`, `cleanup_pending`, `terminal`) with the status of the run, `mem` the same
in memory, `log` the events, `caps` the capabilities of the run in the artifact
store, `cleanup` its entry in `workflow_cleanup_retries`, `exit` that in
`_scheduler_exit_progress`; `inbox`, `outbox`, `held` and `leased` are the
messages, tasks and resources of the Scheduler.

`Submit` to `Activate` are the steps of a submission, each of which may fail at its
write; `Reply` and `TaskEvent` are what the monitor does with messages, `Retry` is
the maintenance loop, which gives up after some attempts and asks the Scheduler to
shut down; `ExitAsk`, `ExitRay`, `ExitConfirm` and `ExitInterrupt` are
`_handle_scheduler_exit`. `TakeTask`, `TakeStop`, `Start` and `Finish` are the
Scheduler, with the four stages of a stop request, each of which may fail; `Fail`,
`Die` and `Kill` are its end. `Crash` comes between any two steps, `Recover` is
`recover_interrupted_runs` with `_recover_incomplete_workflow_dispatches`.

A crash of the Core is assumed to end its Scheduler and the work on Ray: the
process is a child, and Ray was started by it. This is outside the modelled code.

* `NothingLeft`: a submission that failed leaves no task and no capability, and its
  failure is the last word of its log, unless three writes failed (section 4).
* `SubmissionKept` (refinement of `Submission`): no root is sent twice or after the
  failure, and an answer given to the client stands, over replays and restarts.
* `CleanupEnds`, `InterruptionSaved` (liveness): a cleanup ends, and the runs of a
  dead Scheduler are interrupted in their files too.

### DynamicRun (with MCDynamicRun, DynamicRunProofs), GrowingRun

A dynamic run with its requests (append, finalize, cancel, annotate), its
deadline, the monitor, and recovery. `mem` is the `DynamicRun` with the
continuations of the monitor (`pending` and the children that one has left to send
are sets), `dispatched` and `orders` are the messages to the Scheduler, `disk` its two files, `answered` what clients were
told. Requests and the sweep change memory first and keep the change when the
write fails; the monitor rolls back and repeats after a sleep. Both are modelled
with the four outcomes of a write that `RunMonitor` has.

* `DispatchSound`: a task is sent once, after the finishes of its parents are logged.
* `NoneForgotten`: a task whose append was answered is sent as soon as its parents
  have completed, whenever it joined, if no event of the run was lost (`Intact`).
* `EndRecovered`: an end that clients read survives a crash, once it is logged.
* `PromiseKept`: `GrowingRun` is implemented (an end is never replaced, a finalized
  run has nothing left to do), and the monitor gets done with every message.

### ModelInstances (with MCModelInstances, ModelInstancesProofs)

The registry of `llm_instance.py` with the threads that use it: the supervisor
(routing, scale-out and scale-in, upkeep), the LLM thread (`Queue`: requests to
start, cancel and stop), the start and stop executors, the health probe and the
threads that create actors. An id stands for an instance and, in its first and
second attempt, for its lease. `gen` is `_PendingActorStart`, whose generations
and slots decide who has to kill an actor that is created late; `start` and
`stop` are the places of the threads; `proc` is what runs on the node.

One assumption about time is in the guards: loading a model takes longer than it
takes the LLM thread to collect and answer jobs that are done. So when the second
attempt of a start becomes ready, a job that stopped the first, or waited for its
end, is over (`Verify`; section 4 says what would happen otherwise).

* `ServerLeased`: a lease goes back only after the cleanup of its server.
* `InUseKept`: an instance that is reclaimed as idle serves no task.
* `NoneAbandoned`: an instance that is out of routing is in somebody's hands.
* `LateActorsDie`: an unregistered actor holds a cleanup slot, and slots come back.
* `DemandServed` (liveness): waiting tasks are routed or failed, every request to
  stop is answered.

### DispatchOrder, ArtifactFiles, DagSubmission, MemoryRepair, OwnerCleanup (with Support, MCSupport, SupportProofs, OwnerCleanupProofs)

Five components that never act on each other's state. `Support` has one of each;
`part` chooses the one that a behaviour belongs to, and the others keep their initial
values, so that one run checks the sum of five state spaces and not their product.
`Parameters` in each module says which values a program can have, and `Support`
assumes it (`ParametersAssumption`); `MCSupport` names the small instance that TLC
checks, and the theorems of `SupportProofs` and `OwnerCleanupProofs` are about
`Support` itself.

`DispatchOrder`: one queue under HACS (FCFS is its `Threshold = 0`) and the standby
workers of a node. The scores below the starvation threshold are arbitrary, as
their inputs are estimates.

* `WorkersExact`: no two tasks share a worker, and the marks of busy workers are
  those of the leases, although they are ids of Python objects that are used again.
* `EveryTaskRuns` (liveness): starvation ends.

`ArtifactFiles`: the store with private, granted and public blobs, and the files
that the tasks of a run hand on. `ArtifactsSafe` has four parts. `Kept`: what a run
uploaded, or will find in a manifest of a parent, is there until the run is
revoked. `OpenKept`: so is what was stored in the open. `Denied`: bytes that were only
uploaded privately stay closed to everybody without a grant. `Reaped`: no private
bytes without a reader are left when no revocation is under way or owed.

`DagSubmission`: a specification, its validation and normal form, the binding of
a workflow id, the run inputs and the dispatch by edges. `DagSound`: an accepted run
finds every input it refers to and can be run to its end (`Executable`); the same
specification can be submitted again, another one is refused (`Rebindable`); the
levels HACS uses follow the edges (`Levelled`).

`MemoryRepair`: what a failed attempt leads to, and what is learned.
`RepairsSound`: a retry asks for more than every attempt that ran out of memory, and
not for more than the limit (`Grows`); a node on which the task was lost is not tried
again, whatever else was repaired since (`Moves`); the trace of a task that has ended
tells how, with nothing left open (`Traced`); a retry that asked for more raises what
the next run of this kind starts with, and a success counts once (`Learned`).

`OwnerCleanup`: `launch_server` with its owner file and launch lock, the producers
and the `_cleanup` of a Scheduler, the owner cleanup on every node, and
`MaPath.cleanup` with what it does when the Scheduler is dead. `OwnerStopped`: once
the cleanup is reported as complete, no server of the owner is left or appears, and
Ray, without which nodes could not be cleaned, is stopped only then.

## 3. Runs

| Run | Instance | Shows |
|---|---|---|
| `resource_leases` | 3 nodes on 2 hosts, 1 device, 3 capacities that differ in cpu, device and memory, 2 leases, 2 workflows, symmetric leases and workflows | the five invariants and the grant property; 412 000 states |
| `scheduler_races` | one workflow with 3 cpu objects, two of them the same task, one too large to be placed, and a GPU task that needs a model; 1 retry, timeouts, OOM | the safety of leases, places, wake-ups and closed workflows under all interleavings, and that the events implement `AttemptStream`; 1 823 000 states |
| `scheduler_liveness` | a cpu task with 2 retries, timeouts and OOM, and a GPU task that no node has a slot for | queues are independent, leases come back |
| `scheduler_waiters` | a cpu task and a task that waits for a model, one workflow | **violated**, finding 1 |
| `scheduler_failures` | a task that is retried and then waits for a model | **violated**, finding 2 |
| `run_join` | 2 roots and their child, 1 retry, 2 failed writes, a deadline, 1 stop | exact dispatch, refinement of `RunLifecycle`; 2 000 641 states |
| `run_faults` | a chain of 2 tasks, 1 retry, 2 failed writes, a deadline, 2 stops | agreement of subscribers, memory and files, progress of the monitor; 45 000 states |
| `run_restart` | a chain of 2 tasks, a failed write, a deadline, a crash | **violated**, finding 3 |
| `dispatch` | 2 roots, 2 attempts of a cleanup, 3 failed writes, 1 refused stop, 1 crash | submission and cleanup, refinement of `Submission`; 226 000 states |
| `dynamic` | 2 tasks, of which one is retried and one times out, 1 failed write, 1 annotation, a deadline, a crash | dispatch, recovery, refinement of `GrowingRun`; 1 450 000 states |
| `models` | 2 ids, 2 tasks for one or two models, 1 GPU, 1 fault and 1 call of the user, both about the first id | leases and hands of instances, liveness of tasks, stops and late actors; 161 000 states |
| `support` | see `MCSupport` | the order of a queue (176 000 states), files (191 000), DAGs (94 000), repairs (247 000), the owner cleanup (117 000) |

Bounds. `MaxRetries = 1` gives two attempts, the smallest number in which an old
and a new lease, event or result of a task coexist. `MaxPending` is 16 in the
code and 1 here, so that the full pool is reached. Two slots and three objects
let two attempts run while a third is queued. Two leases on one device are the
smallest conflict; a third node takes the address of another. `MaxFaults` bounds
the failed writes and `MaxStops` the stop requests; two of each cover a failure
while the effects of an earlier one are being undone, and a request for a run that
was stopped already. A join is the smallest graph in which a child can be sent
twice or too early, a chain of two the smallest with a child and an end. In
`dispatch`, two failed writes let a cleanup fail whose submission failed, the third
the save of the failure itself, and two attempts let it give up, so that the
Scheduler is shut down. In `dynamic`, two tasks are
independent or parent and child, as the client likes; the one fault falls into a
request or into the monitor. In `models`, tasks are workflows of one task each and
an instance's idle time is longer than it takes to wake a task; two tasks of one
model share an instance, those of two models compete for the GPU, and `Watched`
keeps faults and requests of users to one id, the other being the bystander. In
`support`, one task takes the two slots that two smaller ones keep taking from it;
two parents write the same file; three nodes and up to three edges give chains,
forks, joins and cycles; the second run learns from the first and is pinned to a
node that is too small; one server and two nodes, one of which Ray loses. Queues,
outboxes and attempts are bounded by the number of objects and retries: no state
constraint is used. Deadlock is not checked where runs end and nothing is
left to do.

Fairness. `SchedulerCore`'s `FairSpec` assumes strong fairness of the submit loop
and of the supervisor loop: both are `while True` loops with a short sleep whose
only blocking point is the shared lock, and every other holder releases it after
finitely many steps. Strong rather than weak, as the lock is free again and again
and not continuously. Each running task is in some `ray.wait` result in the end
(it finishes or fails; a task that hangs for ever without a timeout is outside
the property), each cleanup ends (they carry deadlines) and back-off times pass.
The LLM thread that fails waiters gives the lock back (weak fairness of
`FailWaiter` and `FailUnlock`). The deployment of models and failures get no
fairness. `RunMonitor` and `DynamicRun` assume weak fairness of the monitor: a
`while True` loop of the event loop that comes back after each message and each
sleep. Nothing is assumed there of sweeps, stops, crashes, clients, the Scheduler or
the disk; failed writes end because they are bounded, which stands for a disk that
works again at some time. `DispatchJournal` assumes weak fairness of the submission,
which is one coroutine, of the monitor, of the maintenance loop and the parts of
the exit handler it runs (a `while True` loop again), of the kill, and not of the
Scheduler. `ModelInstances` assumes weak fairness of every thread and job it runs,
as none waits for another without a deadline, and of the end of routed tasks and
recoveries, which is `LeasesReturned` of `SchedulerCore`; a call to an actor that
never returns is given up at its timeout. `DispatchOrder` assumes weak fairness of
the submit thread, of time, of the end of tasks and back-offs and of the models they
wait for; arrivals and node losses get none.

## 4. Findings

1. `_retry_or_fail_task` adds the workflow to `stopped_workflow_ids`
(`scheduler.py:2185`) before it knows whether the task is retried, and removes it
again (`:2207`). In between, `_wake_model_waiters` (`:464`) drops waiting tasks of
that workflow, and the submit thread (`:2786`) removes the head of a queue, both
on a look without the lock. Nobody is told: the run never ends. `WaitersRequeued`
states what `docs/api_en.md:626` promises, that a waiting task is requeued when
the deployment succeeds, and TLC finds the trace.

2. A task that was retried names no attempt while it waits for its model:
`clear_attempt_identity` has reset its `dispatch_id`, and its attempt is not 0. When
the deployment fails, `_fail_model_waiters` (`scheduler.py:496`) sends a
`task_exception` that the Core cannot identify and drops (`path.py:925`). The
Scheduler has ended the workflow, the run stays `running`. `FailuresIdentified`
states that a failure names its attempt; `docs/api_en.md:625` calls it terminal.

3. `_sweep_run_deadlines` marks a run timed out in memory (`path.py:2260`) before it
writes the event. When that write fails, nothing is undone or repeated: clients read
`timed_out`, the Scheduler is not stopped, no subscriber is told, and after a restart
the run is `interrupted`. `stop_workflow` has the same gap for `cancelled`.
`OutcomeRetained` states what `README.md:20` promises.

Other observations, without a run, from reading the code for the models:

* Dynamic runs. A task whose `error_type` is a timeout logs a `task_exception` with
  the run status `timed_out`; when the snapshot is then lost, recovery raises a
  `ValueError` and the Core does not start (`Refuse` in `DynamicRun`). An append
  whose write fails leaves the task joined: the same `request_id` is then answered
  as a success, but the task is never sent (`docs/api_zh.md:202`). A `task_ready`
  event whose write failed, and whose number was taken by a request in the
  monitor's sleep, is refused; the message is dropped and the child not sent,
  therefore `Intact` in `NoneForgotten`. Cancelling and timing out count completed
  tasks as failed, and a second cancel after one that failed does nothing. An
  interruption while the Core lives fails the open tasks, recovery without a
  terminal event leaves them open.
* Static runs. With two failed writes a child may be sent after the end of the run
  was recorded.
* Dispatch. When the write that makes a dispatch active is reported as failed after
  its effect, and those of the cleanup and of the failure are not done, the next Core
  finds an active run, and appends `interrupt_workflow` after
  `workflow_submission_failed` (`NothingLeft`).
* Model instances. When a user stops an instance after `_execute_llm_start` has
  looked for the cancellation (`scheduler.py:1131`) and before it clears it
  (`:1146`), the stop is answered as a success, but a retry of the load after OOM
  starts the instance again. With 16 cleanups pending (`recovery.py:118`)
  `prepare_memory_recovery` has already set `draining` and nobody stops the
  instance (`docs/resource_adaptation.md:75`); the model assumes room in this pool.
  `_submit_runtime_llm_cleanup` may attach to a stop that is done but not yet
  collected, so that nobody stops the instance; the model excludes it by the
  assumption in `Verify`. `stop_llm_instance_processes` finds
  processes by their environment and can miss one that was forked but not yet
  executed, so that a lease could go back early; `ModelInstances` assumes it does not,
  and the owner cleanup waits for the launch lock, which `OwnerCleanup` models.
* Artifacts. A child receives only the files that its direct parents changed, and
  `deleted_files` is ignored. Capabilities of runs that end are not revoked. A
  result summary whose bytes equal a private blob is refused. A private upload of
  public bytes hides them until the run is revoked.
* DAG specifications. A `from` reference without an edge is accepted; its short
  form fails at dispatch and its long form is dispatched too early. The order of
  edges makes another DAG for the same workflow id. An edge over an input from the run
  drops the reference, and the contract no longer fits at the start.
* Memory. A learned bound above the capacity of every node makes each later run of
  that code and size fail at once; no bound is learned from an OOM whose repair
  exceeds the limit.

## 5. Proofs

All theorems hold for every value of the constants that meets the named
assumptions, so for any number of tasks, nodes, retries, failed writes, crashes and
requests where the runs have two or three. A theorem `Spec => []P` rests on an
inductive invariant: none of the properties is inductive as it stands. For each
module TLC has first checked every conjunct of the invariant on the instance of a
run. Each action has a lemma of its own, or shares one with the actions that change
the same variables.

`ResourceLeasesProofs`: `TypeCorrect`, `AvailabilityIsExact`, `GpusAreExclusive`,
`CountsAreExact`, `ContextsAreExact`, and `GrantsStayWithinCapacity` as
`Spec => [][...]_vars`. `IInv` is the conjunction of the five invariants:
`GpuExclusive` needs `AvailabilityExact` (a device is offered only when no lease
holds it), whose preservation needs the types; counters and contexts need the
finiteness of the sets they count. Sums over leases are cardinalities of sets of
units, so `FiniteSetTheorems` suffices and no induction over data is needed.

`SchedulerCoreProofs`: `TypeCorrect`, `LeasesAlwaysAccounted`, `ClosedStaysClosed`,
`AlwaysOnePlace`, `WakeupNeverLost`, and the refinement `StreamKept`
(`Spec => EventsInOrder`). `IInv` says

* `OneHolder`, `Threads`: who holds the lock, and what the holder has in hand: the
  head that the submit thread has taken is still queued, the task whose failure the
  supervisor works on still runs, although the lock is not looked at in between.
* `QueuesApart`, `Places`, `NoTwins`: a task's status decides where it is; no two
  tracked objects have one task id.
* `Leases`: its place decides its lease.
* `Outboxes`: for each task there is at most one event due from each thread, and it is
  the next of its stream. A start that is due has not been published, so the
  supervisor, which only looks at published tasks, has nothing to report about it:
  the two threads never have an event of the same attempt.

`StreamKept` then maps every `SubFlush` and `SupFlush` to a step of `AttemptStream`
and all else to a stutter; `NoLostWakeup` is proved relative to `IInv`.

`RunMonitorProofs`: `TypeCorrect`, `ToldStaysDurable` and `LogAlwaysLoads`. `IInv`
says

* `InHand`, `Accounted`: a continuation is worked on only while its message is in
  hand, and only for a task whose finish was accepted and logged. So no other message
  is handled, and no other task can end the run, while one is under way.
* `FinishSaved`, `EndSaved`: finish and end events that a later stage tells are on
  disk by then, although other events of failed writes were undone or are only there.
* `EndOnce`, `EndLate`, `EndThere`: the run's end is logged once, after the success.
* `SuccessSaved`, `EndKnown`: success in memory is success in `run.json`, and an end in
  `events.jsonl` is known in memory. So recovery, which only touches runs that are
  active in `run.json`, never interrupts a run whose end is logged (`Interrupts`).

On top of it: `ToldStaysTrue`, `EventsCaughtUp`, `DispatchesExact` and the refinement `RunImplementsLifecycle`. `JInv` relates the run in memory

* to what has been received (`InTurn`, `Caught`): every task is as the last event of
  its stream says, but for the one in hand, which will be accepted;
* to the files (`Level`, `Succeeded`, `AllDone`, `ToldKnown`, `EndKept`): memory and
  disk say the same, or the disk is ahead by the one event whose write was reported
  as failed and which the sleeping monitor will write again under the same number;
* to what is sent (`Once`, `InTime`, `Closing`, `EndShape`): a child whose parents have
  completed was sent or is held by exactly one continuation, and the end of a run that
  succeeded is told, or still in the stages before.

`DispatchJournalProofs`: `JournalTypes`, `FailureLeavesNothing` and the refinement
`JournalImplementsSubmission`. `JInv` says, for every step of a submission
(`Submitting`) and after it (`Settling`), how far memory may be ahead of `run.json`:
each difference is one failed write, so their number is part of the invariant.
`InOrder` is what the cleanup relies on: a stop follows the tasks that it stops, and
an `ok` of the Scheduler means that nothing of the run is left. The proof showed that
`NothingLeft` needs its exception for three failed writes (section 4): `dispatch` had
checked it with two.

`DynamicRunProofs`: `DynamicTypes`, `SentOnceAfterParents`, `AnsweredIsSent`,
`RecoveryKeepsEnd`, and `DynamicRunKeepsPromise`, the safety half of `PromiseKept`
(`Spec => Promise!Spec`). `DInv` says where each task is (`Placing`: pending, about to
be sent by one continuation, or sent, in which case its parents' finishes are logged),
what a run that goes on may still lack (`Going`, `InHand`), how the numbers in memory
and in the log agree when a request has taken the number of a lost event (`Logging`,
`Lost`), and which ends memory and files have (`MemEnds`, `Ending`).

`OwnerCleanupProofs`: `OwnerStaysStopped`. `Progress`: once a node is closed, nobody
holds the lock of its owner file, so no launch is under way on it and none begins;
`Ending`: the producers end before the tasks of the cleanup are counted, so every node
with a server has one.

`SupportProofs` is about the other four modules of `Support`, each with an invariant of
its own. Like those of `OwnerCleanupProofs`, its theorems need `ParametersAssumption`
and nothing else.

* `FilesStaySafe` (`ArtifactFiles`). `Marked`: the row of a blob agrees with where its
  bytes are, and bytes stored in the open are not the reaper's. `Owed`: private bytes
  without a reader are left by a revocation that failed and will be tried again.
  `Lasting`, `Ours`: an upload lasts as long as its run, and all that a run or its tasks
  refer to is such an upload; this makes `Kept` hold over all retries.
* `WorkersStayExact` (`DispatchOrder`). `OrderPlaces`, `Apart`: only running tasks have
  workers, no two of them the same, and a worker that is started anew has an id that no
  lease has, so the marks are those of the leases. It needs nothing of the order.
* `DagStaysSound` (`DagSubmission`). For `Executable` and `Rebindable`, `BoundTo`: the definition is
  the normal form of the first specification, and two specifications with the same
  normal form are the same. `Referenced`, `SentWhenReady`: a task is sent when all it
  waits for has finished, and a reference with an edge is to one of these. As the graph
  has no cycle, the nodes that have not finished have a first one, which was sent. For
  `Levelled`, `LevelsExist` and `LevelsAre` show what the recursive functions
  `Ancestors` and `Descendants` are in a graph without a cycle. The induction is over
  sets: a largest set of nodes that has levels (`LargestSet`), a first node that has
  none. `ChainBelow` finds as many nodes below a node as its level says, and
  `TwoLevels` the same above it; they are different nodes.
* `RepairsStaySound` (`MemoryRepair`). `Attempts`, `Entries`: the numbers of attempts and
  of entries of the trace determine each other, all entries but the last have failed, and
  the request of an active task is above all of them. `Reports`, `Reported`, `Raised`: an
  event of an attempt comes after its entry, may come twice, and stays in the channel
  until it is counted; the first one of a retry that asked for more says so. `Counts`
  then adds each success once.

`ModelInstancesProofs`: `TypeCorrect`, `ServerStaysLeased`, `InUseStaysKept`,
`NeverAbandoned`, and `LateActorsHeld`, the safety half of `LateActorsDie`. `IInv` has
a part for every id (`Own`), which says how the place of its start, those of its stops,
its entry in the registry and its leases agree:

* `Leased`: what runs is registered, and what is registered or about to be holds the
  lease of its attempt.
* `Handed`: one thread stops an instance; one that still has to give back the lease of
  a stopped attempt never has that of the attempt that lives, although both have the
  same id. `Dated`: nobody has an attempt that the start has not come to.
* `Used`, `Joined`: an instance that can be used is past its start, so the start cannot
  be tried again; a job that joins another one joins one that has yet to look.
* `Tended`: `NoneAbandoned` for one id.

`Room`, `Counted`, `Sited` and `Mail` count leases, slots and routes, and say that a
start is announced by one message. `Late` says of the actor that is being created: it
is neither registered nor left from an earlier attempt; it has its slot from before it
can exist until it is killed; the generation that is current has a start that will take
the actor, and nobody who kills it. TLC has checked this invariant with two faults too,
on smaller instances than that of `models` (one id; one id with two requests; two GPUs
with one request; up to 9 million states).

Only model-checked:

* Liveness, as the prover has no support for fairness and ENABLED: `QueuesIndependent`,
  `LeasesReturned`, `MessageDone`, `CleanupEnds`, `InterruptionSaved`, `EveryTaskRuns`,
  `DemandServed`, that slots come back in `LateActorsDie`, the last part of
  `PromiseKept`.
* `FailuresIdentified`, `WaitersRequeued` and `OutcomeRetained` do not hold.

## 6. Plan

The modules are written, and all safety properties that hold are proved. What is left,
in this order:

1. `DispatchOrder`: a bound on how many tasks can overtake a starved one, as a safety
   property, which is what a proof can say of `EveryTaskRuns`.
2. `ModelInstances`: the part of `DemandServed` that is safety, that a request to stop is
   answered once.
3. The lines of `events.jsonl` as sequences of bytes, to model a torn write.

## 7. Not modelled

* Lines of `events.jsonl` that are torn by a crash: a write is whole or absent.
* Reads that fail. `_cleanup_is_pending` (`path.py:1873`) takes a `run.json` that it
  cannot read for one with nothing pending and forgets the cleanup; `CleanupEnds` is
  about files that can be read.
* Revocations that raise while the failure of a submission is recorded
  (`path.py:1663`, `path.py:1680`): they come before anything is marked.
* The limits of the resource history: it keeps 8192 observation ids and 1024 profiles
  (`resource_history.py:23`), and `MemoryRepair` never has so many. That a success
  counts once holds within them.
* A scale-in claim that is taken back (`llm_instance.py:2365`): the instance is ready
  again and nobody is woken. It follows a cleanup that could not be submitted, and is
  not in `SchedulerCore`; `NoLostWakeup` is about the other ways to become ready.
* Wake-ups by the threads that give a route back (`_release_model_route`). With a route
  to the model nobody waits (`NoLostWakeup`); without one, the task goes back to its
  queue, finds no route and waits again.
* The migration of stores written by earlier versions (`artifact_store.py:102`).
* Of dynamic runs: their deletion, the copy in the workspace, pending reasons. Of
  static runs: `task_pending` events, metrics, results.
* Of model instances: which of several idle instances is reclaimed (the least recently
  used on a node that lacks room; the model has one node and takes any), an idle
  scale-in while somebody waits for the model (the idle time is assumed longer than
  routing takes), admission limits of warm instances, anchors,
  measurements, placement on more than one node, which is `ResourceLeases`.
* Of standby workers: several nodes, and the shutdown of the pool.
* A Scheduler that survives its kill, and stages of its own shutdown other than
  those of `OwnerCleanup`.
* The worker agent (joins Ray, registers again), the command line and the clients
  (wrappers over HTTP), metrics, logging and configuration, the web workbench and the
  catalogs: they keep no state that the order of events could spoil.
