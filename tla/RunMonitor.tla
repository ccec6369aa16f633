------------------------------ MODULE RunMonitor ------------------------------
(***************************************************************************)
(* The Core's side of one static run, from its activation to its end       *)
(* (path/path.py, workflow/static_run.py).  The monitor takes the          *)
(* Scheduler's task events one at a time, marks the run in memory, appends *)
(* the event to events.jsonl, saves run.json and tells the subscribers;    *)
(* when a task finishes, a continuation then dispatches its children and,  *)
(* with the last task, ends the run.  A write may fail, with or without    *)
(* effect: the monitor undoes what it did in memory and handles the same   *)
(* message again after a sleep.  While it sleeps, the deadline sweep or a  *)
(* stop request may end the run.  The process may crash at any time; the   *)
(* next one recovers the run from its files.                               *)
(*                                                                         *)
(* Events come as AttemptStream promises.  An event on disk is whole or    *)
(* absent.  task_pending, artifacts and metrics are left out, as is the    *)
(* dispatch journal, which is active from Init on.                         *)
(***************************************************************************)
EXTENDS Naturals, FiniteSets, Sequences, SequencesExt

CONSTANTS
    Tasks, Parents,    \* the graph of the workflow
    MaxRetries,
    MaxFaults,         \* bound: failed writes
    MaxStops,          \* bound: stop requests
    HasDeadline,       \* the run has a timeout_seconds
    NoTask, NoMsg

ASSUME GraphAssumption ==
    /\ IsFiniteSet(Tasks) /\ NoTask \notin Tasks
    /\ Parents \in [Tasks -> SUBSET Tasks] /\ \E t \in Tasks : Parents[t] = {}
ASSUME BoundsAssumption == /\ {MaxRetries, MaxFaults, MaxStops} \subseteq Nat
                           /\ HasDeadline \in BOOLEAN

VARIABLES
    core,      \* "up", "down" after a crash, "recovered" by the next process
    mem,       \* the StaticRun in memory: status, task states, event_log, finish_continuations
    acc,       \* task_attempts and pre_dispatch_rejections
    monitor,   \* the monitor coroutine: "idle", "handling", "sleeping" before a retry
    busy,      \* the message it has in hand
    disk,      \* events.jsonl and run.json
    open,      \* async_que has a queue for the run
    told,      \* the events put into that queue
    dispatched, \* the tasks sent to the Scheduler (run_task), in order
    orders,    \* the other messages sent to it
    last,      \* the Scheduler's events, see AttemptStream
    faults, stops

vars == <<core, mem, acc, monitor, busy, disk, open, told, dispatched, orders, last, faults, stops>>

Stream == INSTANCE AttemptStream WITH Objs <- Tasks

\* A message in hand: an event, its task and the end it brings.
Messages == [event : [kind : Stream!Kinds, n : Nat, known : BOOLEAN], task : Tasks,
             end : {"succeeded", "failed", "timed_out"}]
ASSUME MessageAssumption == NoMsg \notin Messages

Roots    == {t \in Tasks : Parents[t] = {}}
Children(t) == {c \in Tasks : t \in Parents[c]}
Active   == {"created", "running"}
Endings  == {"succeeded", "failed", "timed_out", "cancelled", "interrupted"}
Pending  == {"pending", "queued", "running"}
Types    == {"start_workflow", "start_task", "task_retry", "finish_task", "task_exception",
             "finish_workflow", "timeout_workflow", "cancel_workflow", "interrupt_workflow"}
Stages   == {"none", "notify", "advance", "dispatch", "event", "tell", "clear", "completed"}
Event(type, t, k) == [type |-> type, task |-> t, attempt |-> k]
RunEvent(type)    == Event(type, NoTask, 0)
Logged(k, ev)     == [seq |-> k, event |-> ev]

\* What run.json has of the run.  The continuations are saved too, but recovery
\* does not read them.
Snap(m) == [status |-> m.status, task |-> m.task]

LogEvents == [type : Types, task : Tasks \cup {NoTask}, attempt : Nat]
Statuses  == Active \cup Endings
TaskStates == [Tasks -> Pending \cup Endings]

TypeOK ==
    /\ core \in {"up", "down", "recovered"} /\ monitor \in {"idle", "handling", "sleeping"}
    /\ mem \in [status : Statuses, task : TaskStates, log : Seq(LogEvents),
                cont : [Tasks -> [stage : Stages, todo : SUBSET Tasks]]]
    /\ acc \in [Tasks -> [n : Nat, state : {"none", "running", "retrying", "terminal",
                                            "rejected"}]]
    /\ disk \in [log : Seq([seq : Nat, event : LogEvents]),
                 snap : [status : Statuses, task : TaskStates]]
    /\ told \in Seq([seq : Nat, event : LogEvents])
    /\ dispatched \in Seq(Tasks) /\ orders \subseteq {"clear_workflow", "stop_workflow"}
    /\ open \in BOOLEAN /\ faults \in 0..MaxFaults /\ stops \in 0..MaxStops

Init ==
    LET first == RunEvent("start_workflow")
        run   == [status |-> "created", log |-> <<first>>,
                  task |-> [t \in Tasks |-> IF t \in Roots THEN "queued" ELSE "pending"],
                  cont |-> [t \in Tasks |-> [stage |-> "none", todo |-> {}]]]
    IN  /\ core = "up" /\ mem = run /\ monitor = "idle" /\ busy = NoMsg
        /\ acc = [t \in Tasks |-> [n |-> 0, state |-> "none"]]
        /\ disk = [log |-> <<Logged(1, first)>>, snap |-> Snap(run)]
        /\ open = TRUE /\ told = <<>>
        /\ dispatched = SetToSeq(Roots) /\ orders = {}
        /\ Stream!Init /\ faults = 0 /\ stops = 0
-------------------------------------------------------------------------------
(* Writing to disk. *)

LastSeq == IF disk.log = <<>> THEN 0 ELSE disk.log[Len(disk.log)].seq
OnDisk(k, ev) == \E i \in 1..Len(disk.log) : disk.log[i] = Logged(k, ev)

\* Mutant of Conflict: an old sequence number may be written again.
ConflictIgnored(k, ev) == FALSE

\* append_event_once raises for a sequence number that is taken by another
\* event, or lies below the last one.
Conflict(k, ev) == ~OnDisk(k, ev) /\ k <= LastSeq

Failures == {"nothing", "event", "all"}     \* what a failed write left on disk

\* The ways a write of event k and of the snapshot may go.
Outcome(w, k, ev) ==
    IF Conflict(k, ev) THEN w = "conflict"
    ELSE w = "done" \/ (w \in Failures /\ faults < MaxFaults)

\* append_event_once followed by save_run.
Record(w, m, k, ev) ==
    /\ disk' = [log  |-> IF w \in {"done", "event", "all"} /\ ~OnDisk(k, ev)
                         THEN Append(disk.log, Logged(k, ev)) ELSE disk.log,
                snap |-> IF w \in {"done", "all"} THEN Snap(m) ELSE disk.snap]
    /\ faults' = IF w \in Failures THEN faults + 1 ELSE faults

SaveOutcome(w) == w = "done" \/ (w \in {"nothing", "all"} /\ faults < MaxFaults)

Save(w, m) ==
    /\ disk' = [disk EXCEPT !.snap = IF w = "nothing" THEN @ ELSE Snap(m)]
    /\ faults' = IF w = "done" THEN faults ELSE faults + 1

Tell(k, ev) == told' = IF open THEN Append(told, Logged(k, ev)) ELSE told

-------------------------------------------------------------------------------
(* The monitor: acceptance of an event. *)

\* The ends a message may bring for its task: an exception is a failure or a
\* timeout; the last task fails when the outputs of the run do not resolve with
\* its result (final_output_refs).
Ends(t, kind) ==
    CASE kind = "exception" -> {"failed", "timed_out"}
      [] kind = "finish" /\ \A c \in Tasks \ {t} : mem.task[c] = "succeeded" ->
           {"succeeded", "failed"}
      [] OTHER -> {"succeeded"}

\* The next message comes in.
Arrive(t) ==
    /\ core = "up" /\ monitor = "idle" /\ t \in ToSet(dispatched)
    /\ \/ Stream!Start(t) \/ Stream!Finish(t) \/ Stream!Retry(t)
       \/ Stream!Fail(t) \/ Stream!FailWaiting(t)
    /\ \E end \in Ends(t, last'[t].kind) :
          busy' = [event |-> last'[t], task |-> t, end |-> end]
    /\ monitor' = "handling"
    /\ UNCHANGED <<core, mem, acc, disk, open, told, dispatched, orders, faults, stops>>

PreDispatch(e) == e.kind = "exception" /\ e.n = 0

\* Mutant of Accepted: a task between two attempts cannot fail.
AcceptedRunning(t, e) ==
    IF PreDispatch(e) THEN acc[t].state = "none"
    ELSE /\ e.known /\ acc[t].state \notin {"rejected", "terminal"}
         /\ acc[t].state # "none" =>
              e.n > acc[t].n \/ (e.n = acc[t].n /\ acc[t].state = "running" /\ e.kind # "start")

\* _accept_task_attempt_event: a new attempt, or the next event of the current one;
\* between two attempts only the rejection of the task for its size.
Accepted(t, e) ==
    IF PreDispatch(e) THEN acc[t].state = "none"
    ELSE /\ e.known /\ acc[t].state \notin {"rejected", "terminal"}
         /\ acc[t].state # "none" =>
              \/ e.n > acc[t].n
              \/ /\ e.n = acc[t].n
                 /\ \/ acc[t].state = "running" /\ e.kind # "start"
                    \/ acc[t].state = "retrying" /\ e.kind = "exception"

NewState(e) == IF PreDispatch(e) THEN "rejected"
               ELSE CASE e.kind = "start" -> "running" [] e.kind = "retry" -> "retrying"
                      [] OTHER -> "terminal"

Ended(m) == m.status \in Endings

\* Mutant of Drop: the message for a run that has ended meanwhile is kept.
DropStale ==
    /\ core = "up" /\ busy # NoMsg /\ mem.cont[busy.task].stage = "none"
    /\ ~Accepted(busy.task, busy.event)
    /\ busy' = NoMsg /\ monitor' = "idle"
    /\ UNCHANGED <<core, mem, acc, disk, open, told, dispatched, orders, last, faults, stops>>

\* Nothing comes of the message: another attempt's, or the run has ended.
Drop ==
    LET t == busy.task
        e == busy.event
    IN  /\ core = "up" /\ busy # NoMsg /\ mem.cont[t].stage = "none"
        /\ ~Accepted(t, e) \/ Ended(mem) \/ ~open
        /\ busy' = NoMsg /\ monitor' = "idle"
        /\ UNCHANGED <<core, mem, acc, disk, open, told, dispatched, orders, last, faults, stops>>
-------------------------------------------------------------------------------
(* The monitor: marks in memory (static_run.py). *)

Log(m, ev) == [m EXCEPT !.log = Append(@, ev)]

MarkStarted(m, t) ==
    [m EXCEPT !.task[t] = "running", !.status = IF @ = "created" THEN "running" ELSE @]

\* Mutant of MarkRetry: the task gets the status it has in the Scheduler.
MarkRetrying(m, t) == [m EXCEPT !.task[t] = "retrying"]

MarkRetry(m, t) == [m EXCEPT !.task[t] = "queued"]

MarkFailed(m, t, end) == [m EXCEPT !.task[t] = end, !.status = end]

MarkFinished(m, t) ==
    LET done == [m.task EXCEPT ![t] = "succeeded"]
        ready(c) == c \in Children(t) /\ done[c] = "pending"
                    /\ \A p \in Parents[c] : done[p] = "succeeded"
    IN  [m EXCEPT !.task = [c \in Tasks |-> IF ready(c) THEN "queued" ELSE done[c]],
                  !.status = IF \A c \in Tasks : done[c] = "succeeded" THEN "succeeded"
                             ELSE @]

Marked(t, e) ==
    CASE e.kind = "start" -> Log(MarkStarted(mem, t), Event("start_task", t, e.n))
      [] e.kind = "retry" -> Log(MarkRetry(mem, t), Event("task_retry", t, e.n))
      [] busy.end # "succeeded" ->
           Log(MarkFailed(mem, t, busy.end), Event("task_exception", t, e.n))
      [] OTHER -> Log([MarkFinished(mem, t) EXCEPT !.cont[t].stage = "notify"],
                      Event("finish_task", t, e.n))

\* Mutant of Handle: the subscribers are told although the write failed.
HandleTellingFirst ==
    LET t  == busy.task
        m  == Marked(t, busy.event)
        k  == Len(m.log)
        ev == m.log[k]
    IN  /\ core = "up" /\ busy # NoMsg /\ Accepted(t, busy.event) /\ ~Ended(mem) /\ open
        /\ \E w \in Failures \cup {"done"} :
              /\ Outcome(w, k, ev) /\ Record(w, m, k, ev) /\ Tell(k, ev)
              /\ IF w = "done"
                 THEN /\ mem' = m /\ busy' = NoMsg /\ monitor' = "idle"
                      /\ acc' = [acc EXCEPT ![t] = [n |-> busy.event.n,
                                                    state |-> NewState(busy.event)]]
                 ELSE monitor' = "sleeping" /\ UNCHANGED <<mem, acc, busy>>
        /\ UNCHANGED <<core, open, dispatched, orders, last, stops>>

\* The transaction: it commits when both writes succeed, and is undone when one
\* fails (the message is handled again) or the event's number is taken (the
\* message is dropped).
Handle ==
    LET t  == busy.task
        e  == busy.event
        m  == Marked(t, e)
        k  == Len(m.log)
        ev == m.log[k]
    IN  /\ core = "up" /\ busy # NoMsg /\ Accepted(t, e) /\ ~Ended(mem) /\ open
        /\ \E w \in Failures \cup {"done", "conflict"} :
              /\ Outcome(w, k, ev) /\ Record(w, m, k, ev)
              /\ IF w = "done"
                 THEN /\ mem' = m
                      /\ acc' = [acc EXCEPT ![t] = [n |-> e.n, state |-> NewState(e)]]
                      /\ IF ev.type = "finish_task"
                         THEN monitor' = "handling" /\ UNCHANGED <<busy, told, orders>>
                         ELSE /\ monitor' = "idle" /\ busy' = NoMsg /\ Tell(k, ev)
                              /\ orders' = IF e.kind = "finish"
                                           THEN orders \cup {"clear_workflow"} ELSE orders
                 ELSE /\ UNCHANGED <<mem, acc, told, orders>>
                      /\ IF w = "conflict" THEN monitor' = "idle" /\ busy' = NoMsg
                         ELSE monitor' = "sleeping" /\ UNCHANGED busy
        /\ UNCHANGED <<core, open, dispatched, last, stops>>
-------------------------------------------------------------------------------
(* The monitor: the continuation of a finished task.  Every stage ends with a *)
(* save; when it fails, the message is handled again and the continuation     *)
(* resumes where it was in memory.                                            *)

At(t, stage) == core = "up" /\ busy # NoMsg /\ t = busy.task /\ mem.cont[t].stage = stage

Stage(m, t, stage) == [m EXCEPT !.cont[t].stage = stage]

Saved(w, m) ==
    /\ SaveOutcome(w) /\ Save(w, m)
    /\ mem' = m
    /\ monitor' = IF w = "done" THEN "handling" ELSE "sleeping"

SaveStage(m) == \E w \in {"done", "nothing", "all"} : Saved(w, m)

Seq1(type, t) == CHOOSE k \in 1..Len(mem.log) : mem.log[k].type = type /\ mem.log[k].task = t

Notify(t) ==
    /\ At(t, "notify")
    /\ LET k == Seq1("finish_task", t) IN Tell(k, mem.log[k])
    /\ SaveStage(Stage(mem, t, "advance"))
    /\ UNCHANGED <<core, acc, busy, open, dispatched, orders, last, stops>>

Completed(t) == mem.cont[t].stage \notin {"none", "notify", "advance"}

\* Mutant of Ready: the children of every finished parent are ready.
ReadyEarly(t) == Children(t)

\* Workflow.finish_task: the children whose parents are all completed.
Ready(t) == {c \in Children(t) : \A p \in Parents[c] : p = t \/ Completed(p)}

Advance(t) ==
    /\ At(t, "advance")
    /\ SaveStage([mem EXCEPT !.cont[t] = [stage |-> "dispatch", todo |-> Ready(t)]])
    /\ UNCHANGED <<core, acc, busy, open, told, dispatched, orders, last, stops>>

\* The child is marked queued and saved, sent, marked sent and saved; the second
\* save finds on disk what it writes, as far as recovery reads it.
Dispatch(t, c) ==
    LET queued == [mem EXCEPT !.task[c] = IF @ = "pending" THEN "queued" ELSE @]
    IN  /\ At(t, "dispatch") /\ c \in mem.cont[t].todo
        /\ \/ /\ \E w \in {"nothing", "all"} : SaveOutcome(w) /\ Save(w, queued)
              /\ mem' = queued /\ monitor' = "sleeping" /\ UNCHANGED dispatched
           \/ /\ dispatched' = Append(dispatched, c)
              /\ \E w \in {"done", "all"} : Saved(w, [queued EXCEPT !.cont[t].todo = @ \ {c}])
        /\ UNCHANGED <<core, acc, busy, open, told, orders, last, stops>>

\* Mutant of DispatchDone: the run's end is not announced.
DispatchDoneSilently(t) ==
    /\ At(t, "dispatch") /\ mem.cont[t].todo = {}
    /\ mem' = Stage(mem, t, "completed") /\ monitor' = "handling"
    /\ UNCHANGED <<core, acc, busy, disk, open, told, dispatched, orders, last, faults, stops>>

\* All children are sent: the continuation is over, or the run has succeeded and
\* the event finish_workflow is made.
DispatchDone(t) ==
    /\ At(t, "dispatch") /\ mem.cont[t].todo = {}
    /\ mem' = IF mem.status = "succeeded"
              THEN Log(Stage(mem, t, "event"), RunEvent("finish_workflow"))
              ELSE Stage(mem, t, "completed")
    /\ monitor' = "handling"
    /\ UNCHANGED <<core, acc, busy, disk, open, told, dispatched, orders, last, faults, stops>>

\* The number of finish_workflow lies below that of a stop request that was
\* logged first: the message is dropped.
WriteEnd(t) ==
    LET k == Seq1("finish_workflow", NoTask)
        m == Stage(mem, t, "tell")
    IN  /\ At(t, "event")
        /\ \E w \in Failures \cup {"done", "conflict"} :
              /\ Outcome(w, k, mem.log[k]) /\ Record(w, mem, k, mem.log[k])
              /\ CASE w = "done"     -> mem' = m /\ monitor' = "handling" /\ UNCHANGED busy
                   [] w = "conflict" -> monitor' = "idle" /\ busy' = NoMsg /\ UNCHANGED mem
                   [] OTHER          -> monitor' = "sleeping" /\ UNCHANGED <<mem, busy>>
        /\ UNCHANGED <<core, acc, open, told, dispatched, orders, last, stops>>

TellEnd(t) ==
    /\ At(t, "tell")
    /\ LET k == Seq1("finish_workflow", NoTask) IN Tell(k, mem.log[k])
    /\ SaveStage(Stage(mem, t, "clear"))
    /\ UNCHANGED <<core, acc, busy, open, dispatched, orders, last, stops>>

Clear(t) ==
    /\ At(t, "clear")
    /\ orders' = orders \cup {"clear_workflow"}
    /\ SaveStage(Stage(mem, t, "completed"))
    /\ UNCHANGED <<core, acc, busy, open, told, dispatched, last, stops>>

Complete(t) ==
    /\ At(t, "completed")
    /\ \E w \in {"done", "nothing", "all"} :
          /\ SaveOutcome(w) /\ Save(w, mem)
          /\ IF w = "done" THEN monitor' = "idle" /\ busy' = NoMsg
             ELSE monitor' = "sleeping" /\ UNCHANGED busy
    /\ UNCHANGED <<core, mem, acc, open, told, dispatched, orders, last, stops>>
-------------------------------------------------------------------------------
(* Deadlines, stop requests, crash and recovery. *)

EndPending(m, end) ==
    [m EXCEPT !.status = end,
              !.task = [t \in Tasks |-> IF @[t] \in Pending THEN end ELSE @[t]]]

\* Mutant of Sweep: a run that has ended is swept too.
SweepEnded ==
    LET m  == Log(EndPending(mem, "timed_out"), RunEvent("timeout_workflow"))
        k  == Len(m.log)
    IN  /\ core = "up" /\ monitor # "handling" /\ HasDeadline /\ mem.status # "timed_out"
        /\ mem' = m
        /\ Outcome("done", k, m.log[k]) /\ Record("done", m, k, m.log[k])
        /\ Tell(k, m.log[k]) /\ orders' = orders \cup {"stop_workflow"}
        /\ UNCHANGED <<core, acc, monitor, busy, open, dispatched, last, stops>>

\* _sweep_run_deadlines: nothing is undone, and nothing tried again, when the
\* write fails.
Sweep ==
    LET m  == Log(EndPending(mem, "timed_out"), RunEvent("timeout_workflow"))
        k  == Len(m.log)
    IN  /\ core = "up" /\ monitor # "handling" /\ HasDeadline /\ ~Ended(mem)
        /\ mem' = m
        /\ \E w \in Failures \cup {"done", "conflict"} :
              /\ Outcome(w, k, m.log[k]) /\ Record(w, m, k, m.log[k])
              /\ IF w = "done"
                 THEN Tell(k, m.log[k]) /\ orders' = orders \cup {"stop_workflow"}
                 ELSE UNCHANGED <<told, orders>>
        /\ UNCHANGED <<core, acc, monitor, busy, open, dispatched, last, stops>>

\* A stop request is logged even for a run that has ended.
StopWorkflow ==
    LET run == IF Ended(mem) THEN mem ELSE EndPending(mem, "cancelled")
        m   == Log(run, RunEvent("cancel_workflow"))
        k   == Len(m.log)
    IN  /\ core = "up" /\ monitor # "handling" /\ stops < MaxStops
        /\ stops' = stops + 1
        /\ open' = FALSE /\ mem' = m
        /\ \E w \in Failures \cup {"done", "conflict"} :
              /\ Outcome(w, k, m.log[k]) /\ Record(w, m, k, m.log[k])
              /\ orders' = IF w = "done" THEN orders \cup {"stop_workflow"} ELSE orders
        /\ UNCHANGED <<core, acc, monitor, busy, told, dispatched, last>>

\* mem keeps what the clients read last.
Crash ==
    /\ core = "up" /\ core' = "down"
    /\ monitor' = "idle" /\ busy' = NoMsg /\ open' = FALSE
    /\ UNCHANGED <<mem, acc, disk, told, dispatched, orders, last, faults, stops>>

Interrupt == RunEvent("interrupt_workflow")
Interrupted == \E i \in 1..Len(disk.log) : disk.log[i].event = Interrupt

\* recover_interrupted_runs: the event, then the snapshot; the process may crash
\* in between and recovery starts again.
RecoverLog ==
    /\ core = "down" /\ disk.snap.status \in Active /\ ~Interrupted
    /\ disk' = [disk EXCEPT !.log = Append(@, Logged(LastSeq + 1, Interrupt))]
    /\ UNCHANGED <<core, mem, acc, monitor, busy, open, told, dispatched, orders, last, faults, stops>>

RecoverSave ==
    /\ core = "down" /\ disk.snap.status \in Active /\ Interrupted
    /\ disk' = [disk EXCEPT !.snap.status = "interrupted",
                            !.snap.task = [t \in Tasks |-> IF @[t] \in Pending THEN "cancelled"
                                                           ELSE @[t]]]
    /\ UNCHANGED <<core, mem, acc, monitor, busy, open, told, dispatched, orders, last, faults, stops>>

Recovered ==
    /\ core = "down" /\ disk.snap.status \notin Active
    /\ core' = "recovered"
    /\ UNCHANGED <<mem, acc, monitor, busy, disk, open, told, dispatched, orders, last, faults, stops>>

Monitor == \/ Drop \/ Handle
           \/ \E t \in Tasks : \/ Notify(t) \/ Advance(t) \/ DispatchDone(t) \/ WriteEnd(t)
                               \/ TellEnd(t) \/ Clear(t) \/ Complete(t)
                               \/ \E c \in Tasks : Dispatch(t, c)

Next == \/ Monitor \/ Sweep \/ StopWorkflow \/ Crash
        \/ RecoverLog \/ RecoverSave \/ Recovered
        \/ \E t \in Tasks : Arrive(t)

Spec == Init /\ [][Next]_vars

\* The monitor is a loop that comes back after every message and every sleep.
FairSpec == Spec /\ WF_vars(Monitor)
-------------------------------------------------------------------------------
\* Nothing is told that the files do not have: whatever a subscriber has seen,
\* the next process can show again under the same number.
ToldIsDurable == \A i \in 1..Len(told) : told[i] \in ToSet(disk.log)

\* Whatever the subscribers were told of a finished task or of the end, run.json
\* says too, now and after any later failure, stop, crash and recovery.
ToldAgrees ==
    \A i \in 1..Len(told) :
       LET ev == told[i].event
       IN  CASE ev.type = "finish_task"      -> disk.snap.task[ev.task] = "succeeded"
             [] ev.type = "task_exception"   -> disk.snap.status \in {"failed", "timed_out"}
             [] ev.type = "finish_workflow"  -> disk.snap.status = "succeeded"
             [] ev.type = "timeout_workflow" -> disk.snap.status = "timed_out"
             [] OTHER -> TRUE

\* The next process can read the log: load_events raises unless the numbers
\* grow, and recovery refuses a second interruption.  A run that announced its
\* success is not interrupted.
LogLoads ==
    LET log == disk.log
    IN  /\ \A i, j \in 1..Len(log) : i < j => log[i].seq < log[j].seq
        /\ \A i, j \in 1..Len(log) :
              log[i].event = Interrupt =>
                 i = j \/ log[j].event \notin {Interrupt, RunEvent("finish_workflow")}

\* The files and the dispatches follow RunLifecycle: over failed writes, retries,
\* sweeps, stops, crashes and recoveries, the record of the run is the one promised.
FinishedOnDisk ==
    {t \in Tasks : \E i \in 1..Len(disk.log) :
                     disk.log[i].event.type = "finish_task" /\ disk.log[i].event.task = t}
EndTold == \E i \in 1..Len(told) : told[i].event.type \in
              {"task_exception", "finish_workflow", "timeout_workflow"}
Promise == INSTANCE RunLifecycle WITH
              status <- disk.snap.status, announced <- EndTold, finished <- FinishedOnDisk
LifecycleKept == Promise!Spec

\* No task is forgotten and none is sent twice: between two messages, a run that
\* goes on has dispatched exactly the tasks whose parents have succeeded, and one
\* that has succeeded has told so and cleared the Scheduler, unless a stop request
\* closed its queue.
DispatchExact ==
    /\ IsInjective(dispatched)
    /\ core = "up" /\ monitor = "idle" /\ ~Ended(mem) =>
          \A t \in Tasks : t \in ToSet(dispatched)
                           <=> \A p \in Parents[t] : mem.task[p] = "succeeded"
    /\ core = "up" /\ monitor = "idle" /\ mem.status = "succeeded" =>
          \/ ~open
          \/ "clear_workflow" \in orders /\ \E i \in 1..Len(told) :
                                          told[i].event = RunEvent("finish_workflow")

\* The run keeps up with the Scheduler: between two messages, a run that goes on
\* shows every task in the state of its last event, and no failure that names its
\* attempt was missed, whatever was undone and handled again.
CaughtUp ==
    core = "up" /\ monitor = "idle" /\ ~Ended(mem) =>
       \A t \in Tasks :
          CASE last[t].kind = "none"      -> mem.task[t] \in {"pending", "queued"}
            [] last[t].kind = "start"     -> mem.task[t] = "running"
            [] last[t].kind = "retry"     -> mem.task[t] = "queued"
            [] last[t].kind = "finish"    -> mem.task[t] = "succeeded"
            [] last[t].kind = "exception" -> ~last[t].known

\* A run that ended keeps its end across a restart, as the clients could read it.
OutcomeRetained ==
    core = "recovered" /\ Ended(mem) => disk.snap.status = mem.status

\* The monitor gets done with every message.
MessageDone == monitor # "idle" ~> monitor = "idle"
===============================================================================
