------------------------------ MODULE DynamicRun ------------------------------
(***************************************************************************)
(* A dynamic run (path/path.py, workflow/dynamic.py, dynamic_store.py):    *)
(* a client appends tasks while the run goes on, the Core sends a task to  *)
(* the Scheduler when its parents have completed, and the client finalizes *)
(* the run.  Requests and deadlines change the run in memory first and     *)
(* write the event and the snapshot afterwards; what a failed write leaves *)
(* behind stays.  The monitor undoes a failed transaction and handles the  *)
(* same message again after a sleep, in which requests come in between.    *)
(* The process may crash; the next one recovers the run from its files.    *)
(*                                                                         *)
(* The id of a task stands for the request_id it was appended with.  The   *)
(* events of a task come as AttemptStream promises (their acceptance is    *)
(* RunMonitor's).  An event on disk is whole or absent; the mirror in the  *)
(* workspace, metrics and manifests are left out, and so are the exit of   *)
(* the Scheduler, which DispatchJournal has, and the deletion of runs.     *)
(***************************************************************************)
EXTENDS Naturals, FiniteSets, Sequences, SequencesExt

CONSTANTS
    Ids,           \* the tasks a client may append; max_tasks is not below
    MaxRetries,
    MayRetry,      \* the tasks that have a retry_policy
    MayTimeout,    \* the tasks whose failure may be a timeout
    HasDeadline,   \* the run has a timeout_seconds
    MaxFaults,     \* bound: failed writes
    MaxCalls,      \* bound: requests that can be repeated for ever
    NoTask, NoMsg

ASSUME DynamicAssumption ==
    /\ IsFiniteSet(Ids) /\ NoTask \notin Ids /\ MayRetry \cup MayTimeout \subseteq Ids
    /\ HasDeadline \in BOOLEAN /\ {MaxRetries, MaxFaults, MaxCalls} \subseteq Nat

VARIABLES
    core,      \* "up", "down", "recovered" by the next process, "refused" to start
    mem,       \* the DynamicRun in memory
    monitor,   \* the monitor coroutine: "idle", "handling", "sleeping" before a retry
    busy,      \* the message it has in hand
    disk,      \* events.jsonl and run.json
    dispatched, \* the tasks sent to the Scheduler (run_task), in order
    orders,    \* the other messages sent to it
    last,      \* the Scheduler's events, see AttemptStream
    answered,  \* the tasks whose append was answered when it was carried out
    faults, calls

vars == <<core, mem, monitor, busy, disk, dispatched, orders, last, answered, faults, calls>>

Stream == INSTANCE AttemptStream WITH Objs <- Ids

\* A message of the Scheduler, and how the run ends if it is a failure.
Messages == [kind : Stream!Kinds, task : Ids, end : {"failed", "timed_out"}]

ASSUME MessageAssumption == NoMsg \notin Messages

Active   == {"created", "running"}
Endings  == {"finalized", "failed", "canceled", "timed_out", "interrupted"}
Statuses == Active \cup Endings
Terminal == {"finish_workflow", "task_exception", "cancel_dynamic_run", "timeout_dynamic_run",
             "interrupt_dynamic_run"}
Types    == Terminal \cup {"start_dynamic_run", "append_task", "task_ready", "start_task",
             "finish_task", "task_retry", "domain"}
LogEvents == {e \in [type : Types, task : Ids \cup {NoTask}, status : Statuses] :
                e.type = "task_exception" => e.task # NoTask}
Logged(k, ev)    == [seq |-> k, event |-> ev]

Ended(m) == m.status \in Endings
Open(m)  == m.pending \cup m.submitted \cup m.running
\* What run.json has of the run, as far as recovery reads or writes it.
Snap(m)  == [status |-> m.status, open |-> Open(m), completed |-> m.completed, failed |-> m.failed]

\* The values of the variables.
TypeOK ==
    /\ core \in {"up", "down", "recovered", "refused"}
    /\ monitor \in {"idle", "handling", "sleeping"}
    /\ mem \in [status : Statuses, tasks : SUBSET Ids, parents : [Ids -> SUBSET Ids],
                pending : SUBSET Ids, submitted : SUBSET Ids, running : SUBSET Ids,
                completed : SUBSET Ids, failed : SUBSET Ids, log : Seq(LogEvents),
                cont : [Ids -> [stage : {"none", "notify", "ready", "completed"}, todo : SUBSET Ids]],
                ready : [Ids -> [seq : Nat, sent : BOOLEAN]]]
    /\ dispatched \in Seq(Ids) /\ orders \subseteq {"clear_workflow", "stop_workflow"}
    /\ disk \in [log : Seq([seq : Nat, event : LogEvents]),
                 snap : [status : Statuses, open : SUBSET Ids, completed : SUBSET Ids,
                         failed : SUBSET Ids]]
    /\ answered \subseteq Ids /\ faults \in 0..MaxFaults /\ calls \in 0..MaxCalls
    \* a task waits, or was submitted, or the run has ended
    /\ mem.pending \cap mem.submitted = {}
    /\ ~Ended(mem) => mem.tasks = mem.pending \cup mem.submitted

First == [type |-> "start_dynamic_run", task |-> NoTask, status |-> "created"]

Init ==
    LET run == [status |-> "created", tasks |-> {}, parents |-> [t \in Ids |-> {}], pending |-> {},
                submitted |-> {}, running |-> {}, completed |-> {}, failed |-> {}, log |-> <<First>>,
                cont |-> [t \in Ids |-> [stage |-> "none", todo |-> {}]],
                ready |-> [t \in Ids |-> [seq |-> 0, sent |-> FALSE]]]
    IN  /\ core = "up" /\ mem = run /\ monitor = "idle" /\ busy = NoMsg
        /\ disk = [log |-> <<Logged(1, First)>>, snap |-> Snap(run)]
        /\ dispatched = <<>> /\ orders = {} /\ Stream!Init /\ answered = {} /\ faults = 0 /\ calls = 0
-------------------------------------------------------------------------------
(* Writing to disk (dynamic_store.py). *)

LastSeq == IF disk.log = <<>> THEN 0 ELSE disk.log[Len(disk.log)].seq
OnDisk(k, ev) == \E i \in 1..Len(disk.log) : disk.log[i] = Logged(k, ev)

\* Mutant of Conflict: an old sequence number may be written again.
ConflictIgnored(k, ev) == FALSE

\* append_event_once raises for a sequence number that is taken by another
\* event, or lies below the last one.
Conflict(k, ev) == ~OnDisk(k, ev) /\ k <= LastSeq

\* What a failed write left on disk: nothing, the event, both files.
Failures == {"nothing", "event", "all"}

Outcome(w, k, ev) ==
    IF Conflict(k, ev) THEN w = "conflict"
    ELSE w = "done" \/ (w \in Failures /\ faults < MaxFaults)

\* append_event_once followed by save_run.
Record(w, m, k, ev) ==
    /\ disk' = [log  |-> IF w \in {"done", "event", "all"} /\ ~OnDisk(k, ev)
                         THEN Append(disk.log, Logged(k, ev)) ELSE disk.log,
                snap |-> IF w \in {"done", "all"} THEN Snap(m) ELSE disk.snap]
    /\ faults' = IF w \in Failures THEN faults + 1 ELSE faults

\* save_run alone.
Save(w, m) ==
    /\ w = "done" \/ (w \in {"nothing", "all"} /\ faults < MaxFaults)
    /\ disk' = [disk EXCEPT !.snap = IF w = "nothing" THEN @ ELSE Snap(m)]
    /\ faults' = IF w = "done" THEN faults ELSE faults + 1
-------------------------------------------------------------------------------
(* Requests and the deadline.  They run to their end without giving up the     *)
(* event loop, but not while the monitor does.                                 *)

Log(m, type, t) ==
    [m EXCEPT !.log = Append(@, [type |-> type, task |-> t, status |-> m.status])]

\* _emit_dynamic_event for the newest event of m.
Emit(w, m) ==
    LET k == Len(m.log)
    IN  Outcome(w, k, m.log[k]) /\ Record(w, m, k, m.log[k])

Writes == Failures \cup {"done", "conflict"}
Free   == core = "up" /\ monitor # "handling"
Submit(t) == dispatched' = Append(dispatched, t) /\ UNCHANGED orders
Order(type) == orders' = orders \cup {type} /\ UNCHANGED dispatched
Quiet == UNCHANGED <<dispatched, orders>>

\* Mutant of Joined: a task is submitted when its parents are.
JoinedEarly(m, t, ps) ==
    LET known == [m EXCEPT !.tasks = @ \cup {t}, !.parents[t] = ps, !.status = "running"]
    IN  IF ps \subseteq m.submitted THEN [known EXCEPT !.submitted = @ \cup {t}]
        ELSE [known EXCEPT !.pending = @ \cup {t}]

\* DynamicRun.append_task
Joined(m, t, ps) ==
    LET known == [m EXCEPT !.tasks = @ \cup {t}, !.parents[t] = ps, !.status = "running"]
    IN  IF ps \subseteq m.completed THEN [known EXCEPT !.submitted = @ \cup {t}]
        ELSE [known EXCEPT !.pending = @ \cup {t}]

\* A failed write is reported to the client, but the task has joined.  A request
\* that repeats the id is answered with the task it finds and changes nothing.
AppendTask(t, ps) ==
    LET m == Log(Joined(mem, t, ps), "append_task", t)
    IN  /\ Free /\ ~Ended(mem) /\ t \notin mem.tasks /\ ps \subseteq mem.tasks
        /\ mem' = m
        /\ \E w \in Writes :
              /\ Emit(w, m)
              /\ answered' = IF w = "done" THEN answered \cup {t} ELSE answered
              /\ IF w = "done" /\ t \in m.submitted THEN Submit(t) ELSE Quiet
        /\ UNCHANGED <<core, monitor, busy, last, calls>>

\* Mutant of CanFinalize: a task that was submitted is not waited for.
CanFinalizeSubmitted(m) == m.pending = {} /\ m.running = {}

CanFinalize(m) == m.tasks \subseteq m.completed \cup m.failed /\ m.pending = {} /\ m.running = {}

\* A run that is finalized already is logged as finished once more.
Finalize ==
    LET m == Log([mem EXCEPT !.status = "finalized"], "finish_workflow", NoTask)
    IN  /\ Free
        /\ mem.status = "finalized" \/ (~Ended(mem) /\ CanFinalize(mem))
        /\ calls < MaxCalls /\ calls' = calls + 1
        /\ mem' = m
        /\ \E w \in Writes :
              /\ Emit(w, m)
              /\ IF w = "done" THEN Order("clear_workflow") ELSE Quiet
        /\ UNCHANGED <<core, monitor, busy, last, answered>>

\* cancel, mark_timed_out_if_needed: what was ever submitted counts as failed.
Aborted(m, end) ==
    [m EXCEPT !.status = end, !.failed = @ \cup Open(m),
              !.pending = {}, !.submitted = {}, !.running = {}]

\* The second request of a client finds the run canceled and does nothing,
\* even if the first could not be written.
Cancel ==
    LET m == Log(Aborted(mem, "canceled"), "cancel_dynamic_run", NoTask)
    IN  /\ Free /\ ~Ended(mem) /\ mem' = m
        /\ \E w \in Writes :
              /\ Emit(w, m)
              /\ IF w = "done" THEN Order("stop_workflow") ELSE Quiet
        /\ UNCHANGED <<core, monitor, busy, last, answered, calls>>

\* _sweep_run_deadlines, or the first request after the deadline.
Timeout ==
    LET m == Log(Aborted(mem, "timed_out"), "timeout_dynamic_run", NoTask)
    IN  /\ Free /\ HasDeadline /\ ~Ended(mem) /\ mem' = m
        /\ \E w \in Writes :
              /\ Emit(w, m)
              /\ IF w = "done" THEN Order("stop_workflow") ELSE Quiet
        /\ UNCHANGED <<core, monitor, busy, last, answered, calls>>

\* emit_dynamic_run_event, and register_dynamic_task_spec, which logs an event too.
EmitEvent ==
    LET m == Log(mem, "domain", NoTask)
    IN  /\ Free /\ ~Ended(mem) /\ mem' = m
        /\ calls < MaxCalls /\ calls' = calls + 1
        /\ \E w \in Writes : Emit(w, m)
        /\ UNCHANGED <<core, monitor, busy, dispatched, orders, last, answered>>

\* update_dynamic_run_metadata: the snapshot alone, of a run that may have ended.
UpdateMetadata ==
    /\ Free /\ calls < MaxCalls /\ calls' = calls + 1
    /\ \E w \in Failures \cup {"done"} : Save(w, mem)
    /\ UNCHANGED <<core, mem, monitor, busy, dispatched, orders, last, answered>>
-------------------------------------------------------------------------------
(* The monitor. *)

Arrive(t) ==
    /\ core = "up" /\ monitor = "idle" /\ t \in ToSet(dispatched)
    /\ \/ Stream!Start(t) \/ Stream!Finish(t) \/ (t \in MayRetry /\ Stream!Retry(t))
       \/ Stream!Fail(t) \/ Stream!FailWaiting(t)
    /\ last'[t].known
    /\ \E end \in {"failed"} \cup (IF t \in MayTimeout THEN {"timed_out"} ELSE {}) :
          busy' = [kind |-> last'[t].kind, task |-> t, end |-> end]
    /\ monitor' = "handling"
    /\ UNCHANGED <<core, mem, disk, dispatched, orders, answered, faults, calls>>

\* Mutant of Finished: the children are looked for before the task has completed.
FinishedStale(m, t) ==
    LET ready == {c \in m.pending : m.parents[c] \subseteq m.completed}
    IN  [m EXCEPT !.running = @ \ {t}, !.completed = @ \cup {t},
                  !.submitted = @ \cup ready, !.pending = @ \ ready,
                  !.cont[t] = [stage |-> "notify", todo |-> ready]]

\* DynamicRun.mark_finished
Finished(m, t) ==
    LET done  == m.completed \cup {t}
        ready == {c \in m.pending : m.parents[c] \subseteq done}
    IN  [m EXCEPT !.running = @ \ {t}, !.completed = done,
                  !.submitted = @ \cup ready, !.pending = @ \ ready,
                  !.cont[t] = [stage |-> "notify", todo |-> ready]]

\* mark_started, mark_retrying, mark_failed, mark_finished
Marked(m, msg) ==
    LET t == msg.task
    IN  CASE msg.kind = "start"  -> Log([m EXCEPT !.running = @ \cup {t}], "start_task", t)
          [] msg.kind = "retry"  -> Log([m EXCEPT !.running = @ \ {t}], "task_retry", t)
          [] msg.kind = "finish" -> Log(Finished(m, t), "finish_task", t)
          [] OTHER -> Log([m EXCEPT !.running = @ \ {t}, !.failed = @ \cup {t},
                                    !.status = msg.end], "task_exception", t)

\* _handle_dynamic_scheduler_event: the run has ended.
Drop ==
    /\ core = "up" /\ busy # NoMsg /\ mem.cont[busy.task].stage = "none" /\ Ended(mem)
    /\ monitor' = "idle" /\ busy' = NoMsg
    /\ UNCHANGED <<core, mem, disk, dispatched, orders, last, answered, faults, calls>>

\* The transaction: undone in memory when a write fails, and then handled
\* again, or dropped when the number of the event is taken.
Handle ==
    LET m == Marked(mem, busy)
    IN  /\ core = "up" /\ busy # NoMsg /\ mem.cont[busy.task].stage = "none" /\ ~Ended(mem)
        /\ \E w \in Writes :
              /\ Emit(w, m)
              /\ CASE w = "done" /\ busy.kind = "finish" ->
                        mem' = m /\ monitor' = "handling" /\ UNCHANGED busy
                   [] w = "done" /\ busy.kind # "finish" ->
                        mem' = m /\ monitor' = "idle" /\ busy' = NoMsg
                   [] w = "conflict" -> monitor' = "idle" /\ busy' = NoMsg /\ UNCHANGED mem
                   [] OTHER -> monitor' = "sleeping" /\ UNCHANGED <<mem, busy>>
        /\ UNCHANGED <<core, dispatched, orders, last, answered, calls>>

At(t, stage) ==
    core = "up" /\ busy # NoMsg /\ busy.task = t /\ mem.cont[t].stage = stage

\* A stage that ends with a save: a failure wakes the monitor up again there.
SaveStage(m) ==
    /\ mem' = m
    /\ \E w \in Failures \cup {"done"} :
          Save(w, m) /\ monitor' = IF w = "done" THEN "handling" ELSE "sleeping"

\* _continue_dynamic_finish: the subscribers are notified.
Notify(t) ==
    /\ At(t, "notify")
    /\ SaveStage([mem EXCEPT !.cont[t].stage = "ready"])
    /\ UNCHANGED <<core, busy, dispatched, orders, last, answered, calls>>

\* The next child, in any order; one whose event was made comes first.
NextChildren(t) ==
    {c \in mem.cont[t].todo : \A d \in mem.cont[t].todo : mem.ready[d].seq # 0 => d = c}

\* The event task_ready of the child is made once and written, at the next attempt
\* under the same number; then the snapshot is saved once more.
Announce(t, c) ==
    LET m == IF mem.ready[c].seq # 0 THEN mem
             ELSE [Log(mem, "task_ready", c) EXCEPT !.ready[c].seq = Len(mem.log) + 1]
        k == m.ready[c].seq
        said == [m EXCEPT !.ready[c].sent = TRUE]
    IN  /\ At(t, "ready") /\ c \in NextChildren(t) /\ ~mem.ready[c].sent
        /\ \E w \in Writes :
              /\ Outcome(w, k, m.log[k]) /\ Record(w, m, k, m.log[k])
              /\ CASE w = "done"     -> mem' = said /\ monitor' = "handling" /\ UNCHANGED busy
                   [] w = "conflict" -> mem' = m /\ monitor' = "idle" /\ busy' = NoMsg
                   [] w = "all"      -> mem' \in {m, said} /\ monitor' = "sleeping" /\ UNCHANGED busy
                   [] OTHER          -> mem' = m /\ monitor' = "sleeping" /\ UNCHANGED busy
        /\ UNCHANGED <<core, dispatched, orders, last, answered, calls>>

\* The child is sent, even if the run has ended in the meantime.
Dispatch(t, c) ==
    /\ At(t, "ready") /\ c \in NextChildren(t) /\ mem.ready[c].sent
    /\ Submit(c)
    /\ SaveStage([mem EXCEPT !.cont[t].todo = @ \ {c}])
    /\ UNCHANGED <<core, busy, last, answered, calls>>

\* The continuation is completed and saved; a failed save is made up for later.
Complete(t) ==
    LET m == [mem EXCEPT !.cont[t].stage = "completed"]
    IN  /\ At(t, "ready") \/ At(t, "completed")
        /\ mem.cont[t].todo = {}
        /\ mem' = m
        /\ \E w \in Failures \cup {"done"} :
              /\ Save(w, m)
              /\ IF w = "done" THEN monitor' = "idle" /\ busy' = NoMsg
                 ELSE monitor' = "sleeping" /\ UNCHANGED busy
        /\ UNCHANGED <<core, dispatched, orders, last, answered, calls>>
-------------------------------------------------------------------------------
(* Crash and recovery (recover_interrupted_runs). *)

\* mem keeps what the clients read last.
Crash ==
    /\ core = "up" /\ core' = "down" /\ monitor' = "idle" /\ busy' = NoMsg
    /\ UNCHANGED <<mem, disk, dispatched, orders, last, answered, faults, calls>>

EndOf(type) == CASE type = "finish_workflow"     -> "finalized"
                 [] type = "task_exception"      -> "failed"
                 [] type = "cancel_dynamic_run"  -> "canceled"
                 [] type = "timeout_dynamic_run" -> "timed_out"
                 [] OTHER                        -> "interrupted"

\* Where the log has an end.
Ends == {i \in 1..Len(disk.log) : disk.log[i].event.type \in Terminal}
LastEvent == disk.log[Len(disk.log)].event
Interruption == [type |-> "interrupt_dynamic_run", task |-> NoTask, status |-> "interrupted"]

\* _terminal_event_for_recovery: one end, of the status it belongs to, at the end.
Readable == Ends = {Len(disk.log)} /\ LastEvent.status = EndOf(LastEvent.type)

FailOpen(s, ts) == [s EXCEPT !.open = @ \ ts, !.failed = @ \cup ts]

\* Mutant of Applied: the run is marked interrupted whatever its log says.
AppliedBlindly(s, ev) == FailOpen([s EXCEPT !.status = "interrupted"], s.open)

\* _apply_terminal_event_to_snapshot
Applied(s, ev) ==
    LET end == [s EXCEPT !.status = ev.status]
    IN  CASE ev.status = "failed" -> FailOpen(end, {ev.task})
          [] ev.status \in {"timed_out", "interrupted"} -> FailOpen(end, s.open)
          [] OTHER -> end

\* The start of the next process ends with an error when its write fails.
Recover ==
    LET cut == Ends = {}
        ev  == IF cut THEN Interruption ELSE LastEvent
        k   == IF cut THEN LastSeq + 1 ELSE LastSeq
        s   == IF cut THEN [disk.snap EXCEPT !.status = "interrupted"] ELSE Applied(disk.snap, ev)
    IN  /\ core = "down" /\ disk.snap.status \in Active /\ (cut \/ Readable)
        /\ \E w \in Failures \cup {"done"} :
              /\ w = "done" \/ faults < MaxFaults
              /\ disk' = [log  |-> IF w = "nothing" \/ OnDisk(k, ev) THEN disk.log
                                   ELSE Append(disk.log, Logged(k, ev)),
                          snap |-> IF w \in {"done", "all"} THEN s ELSE disk.snap]
              /\ faults' = IF w = "done" THEN faults ELSE faults + 1
              /\ core' = IF w = "done" THEN "recovered" ELSE "down"
        /\ UNCHANGED <<mem, monitor, busy, dispatched, orders, last, answered, calls>>

Recovered ==
    /\ core = "down" /\ disk.snap.status \notin Active /\ core' = "recovered"
    /\ UNCHANGED <<mem, monitor, busy, disk, dispatched, orders, last, answered, faults, calls>>

\* MaPath.__init__ raises: the log has an end that recovery does not understand.
Refuse ==
    /\ core = "down" /\ disk.snap.status \in Active /\ Ends # {} /\ ~Readable
    /\ core' = "refused"
    /\ UNCHANGED <<mem, monitor, busy, disk, dispatched, orders, last, answered, faults, calls>>

Monitor ==
    \/ Drop \/ Handle
    \/ \E t \in Ids : Notify(t) \/ Complete(t) \/ \E c \in Ids : Announce(t, c) \/ Dispatch(t, c)

Next ==
    \/ \E t \in Ids : Arrive(t) \/ \E ps \in SUBSET Ids : AppendTask(t, ps)
    \/ Finalize \/ Cancel \/ Timeout \/ EmitEvent \/ UpdateMetadata
    \/ Monitor
    \/ Crash \/ Recover \/ Recovered \/ Refuse

Spec == Init /\ [][Next]_vars

\* The monitor comes back after every message and every sleep.
FairSpec == Spec /\ WF_vars(Monitor)
-------------------------------------------------------------------------------
FinishLogged(t) == \E i \in 1..Len(disk.log) :
                      disk.log[i].event.type = "finish_task" /\ disk.log[i].event.task = t

\* A task is sent once, and only when the finishes of its parents are in the log,
\* however appends, repeated messages and failed writes interleave.
DispatchSound ==
    /\ IsInjective(dispatched)
    /\ \A t \in ToSet(dispatched) : \A p \in mem.parents[t] : FinishLogged(p)

\* Every event that the run has in memory reached the log under its number.
Intact == \A k \in 1..Len(mem.log) : OnDisk(k, mem.log[k])

\* A task whose append was answered is not forgotten: between two messages, it is
\* with the Scheduler as soon as its parents have completed, whether it joined
\* before, during or after their finish, unless an event of the run was lost.
NoneForgotten ==
    core = "up" /\ monitor = "idle" /\ ~Ended(mem) /\ Intact =>
       \A t \in answered : mem.parents[t] \subseteq mem.completed => t \in ToSet(dispatched)

\* The end that a client read survives a crash at any step, as soon as the log
\* has it: recovery shows the same end.
EndRecovered ==
    core = "recovered" /\ Intact =>
       /\ disk.snap.status \in Endings
       /\ Ended(mem) => disk.snap.status = mem.status

\* The run keeps the promises of GrowingRun, and the monitor gets done with every
\* message, whatever failed and whatever the clients did in its sleep.
Promise == INSTANCE GrowingRun WITH
              status <- mem.status, tasks <- mem.tasks, parents <- mem.parents,
              finished <- mem.completed, dispatched <- dispatched
PromiseKept == Promise!Spec /\ (busy # NoMsg ~> busy = NoMsg)
===============================================================================
