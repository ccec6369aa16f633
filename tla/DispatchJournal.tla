--------------------------- MODULE DispatchJournal ----------------------------
(***************************************************************************)
(* The submission of a static run (path/path.py, _start_workflow to        *)
(* _recover_incomplete_workflow_dispatches).  run.json journals how far    *)
(* the dispatch came: "prepared", "dispatching" from before the first task *)
(* is sent, "active" after the last.  A dispatch that fails in between is  *)
(* cleaned up: the Scheduler is asked to stop the workflow, again and      *)
(* again, and only its confirmation makes the dispatch "terminal" and the  *)
(* run failed.  Writes fail with or without effect, the Scheduler refuses  *)
(* or dies, the Core crashes; the next one finds the journal.              *)
(*                                                                         *)
(* One run with private artifacts.  A submission holds the event loop of   *)
(* the Core from "prepare" to its end, so that only the Scheduler and a    *)
(* crash come between its steps.  The request id of the cleanup is made    *)
(* once per run and left out; what an active run does is RunMonitor's.     *)
(***************************************************************************)
EXTENDS Naturals, FiniteSets, Sequences, SequencesExt

CONSTANTS
    Roots,          \* the root tasks of the workflow
    HasDeadline,    \* the run has a timeout_seconds
    MaxAttempts,    \* RUN_WORKFLOW_CLEANUP_MAX_ATTEMPTS
    MaxFaults,      \* bound: failed writes
    MaxRefusals,    \* bound: stop requests whose stages fail
    MaxCrashes,     \* bound: crashes of the Core
    NoRun           \* run.json does not exist, or the Core holds no such run

ASSUME JournalAssumption ==
    /\ Roots # {} /\ IsFiniteSet(Roots) /\ HasDeadline \in BOOLEAN
    /\ MaxAttempts \in Nat \ {0} /\ {MaxFaults, MaxRefusals, MaxCrashes} \subseteq Nat

VARIABLES
    core,      \* "up" or "down"
    step,      \* where the submission in progress is, "idle" without one
    mem,       \* the dispatch and the status of the run in memory, or NoRun
    disk,      \* run.json: the same, or NoRun
    log,       \* the types of the events in events.jsonl
    caps,      \* the capabilities of the run in the artifact store
    cleanup,   \* workflow_cleanup_retries: is the run in it, how many attempts
    exit,      \* the entry of the run in _scheduler_exit_progress
    sched,     \* the Scheduler: alive, or failing; the workflow is stopped; stages done of a stop
    inbox, outbox,   \* messages to and from the Scheduler
    held,      \* the tasks of the run that the Scheduler or Ray would still run
    leased,    \* those of them with a route or resources
    sent,      \* how often each task was ever sent
    acked,     \* a submission was answered with the run's id when it had started it
    told,      \* the subscribers were told that the submission failed
    shutdown,  \* the Scheduler was asked to shut down
    faults, refusals, crashes

runVars   == <<mem, disk, log, caps, told, faults>>
schedVars == <<sched, outbox, held, leased, refusals>>
vars == <<core, step, cleanup, exit, inbox, sent, acked, shutdown, crashes, runVars, schedVars>>

Steps     == {"idle", "prepare", "event", "dispatching", "send", "active", "failing"}
Journal   == {"prepared", "dispatching", "active", "cleanup_pending", "terminal"}
RunStates == {"created", "failed", "interrupted"}
Entry     == [dispatch : Journal, run : RunStates]
Events    == {"start_workflow", "task", "workflow_submission_failed", "interrupt_workflow"}
Stages    == 4      \* model routes, resources, workflow, DAG context
Fresh     == [alive |-> TRUE, fatal |-> FALSE, stopped |-> FALSE, done |-> 0]
NoExit    == [asked |-> FALSE, ray |-> FALSE, complete |-> FALSE]
NoCleanup == [on |-> FALSE, tries |-> 0]

ASSUME ValueAssumption == NoRun \notin Entry /\ Roots \cap {"stop", "shutdown"} = {}

TypeOK ==
    /\ core \in {"up", "down"} /\ step \in Steps
    /\ mem \in Entry \cup {NoRun} /\ disk \in Entry \cup {NoRun} /\ log \in Seq(Events)
    /\ caps \in {"none", "issued", "revoked"}
    /\ cleanup \in [on : BOOLEAN, tries : 0..MaxAttempts]
    /\ exit \in [asked : BOOLEAN, ray : BOOLEAN, complete : BOOLEAN]
    /\ sched \in [alive : BOOLEAN, fatal : BOOLEAN, stopped : BOOLEAN, done : 0..Stages]
    /\ inbox \in Seq(Roots \cup {"stop", "shutdown"}) /\ outbox \in Seq({"task", "ok", "refused"})
    /\ leased \subseteq Roots /\ held \subseteq Roots /\ sent \in [Roots -> Nat]
    /\ {acked, told, shutdown} \subseteq BOOLEAN

Init ==
    /\ core = "up" /\ step = "idle" /\ mem = NoRun /\ disk = NoRun /\ log = <<>> /\ caps = "none"
    /\ cleanup = NoCleanup /\ exit = NoExit /\ sched = Fresh /\ inbox = <<>> /\ outbox = <<>>
    /\ held = {} /\ leased = {} /\ sent = [t \in Roots |-> 0]
    /\ acked = FALSE /\ told = FALSE /\ shutdown = FALSE
    /\ faults = 0 /\ refusals = 0 /\ crashes = 0
-------------------------------------------------------------------------------
(* Writing to disk. *)

Logged(type) == type \in ToSet(log)

\* A write succeeds, fails without effect, leaves the event only, or fails after
\* its effect.
Outcomes == {"done", "nothing", "event", "all"}
May(w)   == w = "done" \/ faults < MaxFaults
Count(w) == faults' = IF w = "done" THEN faults ELSE faults + 1

Save(w, m) ==
    /\ w # "event" /\ May(w) /\ Count(w)
    /\ disk' = IF w = "nothing" THEN disk ELSE m

\* append_event_once, then save_run.
Record(w, type, m) ==
    /\ May(w) /\ Count(w)
    /\ log'  = IF w = "nothing" \/ Logged(type) THEN log ELSE Append(log, type)
    /\ disk' = IF w \in {"done", "all"} THEN m ELSE disk

\* _scheduler_unavailable_message: nothing is sent to a Scheduler that is failing.
Available == sched.alive /\ ~sched.fatal

-------------------------------------------------------------------------------
(* The submission: run_workflow and _start_workflow. *)

Free == core = "up" /\ step = "idle"

\* Mutant of Submit: the run is looked up in memory.
SubmitForgotten ==
    /\ Free /\ mem = NoRun /\ Available
    /\ \E w \in Outcomes :
          /\ Save(w, [dispatch |-> "prepared", run |-> "created"])
          /\ IF w = "done" THEN mem' = disk' /\ step' = "prepare" ELSE UNCHANGED <<mem, step>>
    /\ UNCHANGED <<core, log, caps, told, cleanup, exit, inbox, sent, acked, shutdown, crashes,
                   schedVars>>

\* A run_id whose run.json exists is answered without a new run.
Submit ==
    /\ Free /\ disk = NoRun /\ Available
    /\ \E w \in Outcomes :
          /\ Save(w, [dispatch |-> "prepared", run |-> "created"])
          /\ IF w = "done" THEN mem' = disk' /\ step' = "prepare" ELSE UNCHANGED <<mem, step>>
    /\ UNCHANGED <<core, log, caps, told, cleanup, exit, inbox, sent, acked, shutdown, crashes,
                   schedVars>>

Starting(at) == core = "up" /\ step = at
OnlyRun == UNCHANGED <<core, told, cleanup, exit, acked, shutdown, crashes, schedVars>>

Persist(m, next) ==
    \E w \in Outcomes :
       /\ Save(w, m) /\ mem' = m
       /\ step' = IF w = "done" THEN next ELSE "failing"

\* The artifacts are prepared, which may fail, and the roots marked queued.
Prepare ==
    /\ Starting("prepare") /\ caps' = "issued"
    /\ \/ Persist(mem, "event")
       \/ step' = "failing" /\ UNCHANGED <<mem, disk, faults>>
    /\ OnlyRun /\ UNCHANGED <<log, inbox, sent>>

StartEvent ==
    /\ Starting("event")
    /\ \E w \in {"done", "nothing", "event"} :
          /\ Record(w, "start_workflow", disk)
          /\ step' = IF w = "done" THEN "dispatching" ELSE "failing"
    /\ disk' = disk
    /\ OnlyRun /\ UNCHANGED <<mem, caps, inbox, sent>>

MarkDispatching ==
    /\ Starting("dispatching")
    /\ Persist([mem EXCEPT !.dispatch = "dispatching"], "send")
    /\ OnlyRun /\ UNCHANGED <<log, caps, inbox, sent>>

Send(t) ==
    /\ Starting("send") /\ sent[t] = 0
    /\ IF Available
       THEN /\ inbox' = Append(inbox, t) /\ sent' = [sent EXCEPT ![t] = @ + 1]
            /\ step' = IF \A u \in Roots : sent'[u] > 0 THEN "active" ELSE "send"
       ELSE step' = "failing" /\ UNCHANGED <<inbox, sent>>
    /\ OnlyRun /\ UNCHANGED <<mem, disk, log, caps, faults>>

Activate ==
    /\ Starting("active")
    /\ Persist([mem EXCEPT !.dispatch = "active"], "idle")
    /\ acked' = (step' = "idle")
    /\ UNCHANGED <<core, told, cleanup, exit, shutdown, crashes, schedVars>>
    /\ UNCHANGED <<log, caps, inbox, sent>>
-------------------------------------------------------------------------------
(* The end of a failed dispatch. *)

Pending(m) == m # NoRun /\ m.dispatch = "cleanup_pending"
RequiresCleanup(m) == m # NoRun /\ m.dispatch \in {"dispatching", "cleanup_pending"}

Failed(m) == [m EXCEPT !.dispatch = "terminal", !.run = "failed"]

\* The run as this process knows it.
Known == IF mem # NoRun THEN mem ELSE disk

\* Mutant of FinishFailure: the capabilities are left to expire.
FinishFailureKeeping(w) ==
    /\ Record(w, "workflow_submission_failed", Failed(Known))
    /\ mem'  = IF mem = NoRun THEN NoRun ELSE Failed(mem)
    /\ told' = IF mem # NoRun /\ w = "done" THEN TRUE ELSE told
    /\ caps' = caps

\* _finish_workflow_dispatch_failure: in memory the run has failed from the first
\* attempt to write it, so that no other is made; without the run in memory
\* run.json is read and every attempt starts again.  A dispatch that is terminal is
\* left alone; no caller comes with one.
FinishFailure(w) ==
    /\ Record(w, "workflow_submission_failed", Failed(Known))
    /\ mem'  = IF mem = NoRun THEN NoRun ELSE Failed(mem)
    /\ told' = IF mem # NoRun /\ w = "done" THEN TRUE ELSE told
    /\ caps' = "revoked"

\* _send_workflow_cleanup_request: a request that cannot be sent is tried again.
SendCleanup ==
    /\ cleanup' = [on |-> TRUE, tries |-> IF cleanup.tries < MaxAttempts THEN cleanup.tries + 1
                                          ELSE cleanup.tries]
    /\ inbox' = IF Available THEN Append(inbox, "stop") ELSE inbox

\* _request_workflow_cleanup: when the first write fails nothing is sent, and
\* nothing registered.
RequestCleanup(w) ==
    LET m == [Known EXCEPT !.dispatch = "cleanup_pending"]
    IN  /\ IF Pending(Known)
           THEN w = "done" /\ UNCHANGED <<mem, disk, faults>>
           ELSE Save(w, m) /\ mem' = IF mem = NoRun THEN NoRun ELSE m
        /\ IF w = "done" THEN SendCleanup ELSE UNCHANGED <<cleanup, inbox>>
        /\ UNCHANGED <<log, caps, told>>

OnlyCleanup == UNCHANGED <<core, exit, sent, acked, shutdown, crashes, schedVars>>

\* _fail_workflow_dispatch
FailDispatch ==
    /\ Starting("failing") /\ step' = "idle"
    /\ \E w \in Outcomes :
          IF mem.dispatch = "prepared"
          THEN FinishFailure(w) /\ UNCHANGED <<cleanup, inbox>>
          ELSE RequestCleanup(w)
    /\ OnlyCleanup

\* A client stops the run, or its deadline passes: the cleanup is requested, also
\* when it was before.  The number of attempts bounds how often.
StopWorkflow ==
    /\ Free /\ RequiresCleanup(mem) /\ cleanup.tries < MaxAttempts
    /\ \E w \in Outcomes : RequestCleanup(w)
    /\ OnlyCleanup /\ UNCHANGED step

Sweep == HasDeadline /\ StopWorkflow

\* _confirm_workflow_cleanup
Confirm(w) ==
    IF Pending(Known)
    THEN FinishFailure(w) /\ cleanup' = IF w = "done" THEN NoCleanup ELSE cleanup
    ELSE w = "done" /\ cleanup' = NoCleanup /\ UNCHANGED runVars
-------------------------------------------------------------------------------
(* The monitor and the maintenance loop. *)

\* A reply of the Scheduler.  A failed write leaves the message at hand.
Reply ==
    /\ Free /\ outbox # <<>> /\ Head(outbox) # "task"
    /\ \E w \in Outcomes :
          /\ IF Head(outbox) = "ok" THEN Confirm(w)
             ELSE w = "done" /\ UNCHANGED <<runVars, cleanup>>
          /\ outbox' = IF w = "done" THEN Tail(outbox) ELSE outbox
    /\ UNCHANGED <<core, step, exit, inbox, sent, acked, shutdown, crashes, sched, held, leased,
                   refusals>>

\* An event of a task: it is dropped while the dispatch requires cleanup, after
\* the end of the run and after a restart.
TaskEvent ==
    /\ Free /\ outbox # <<>> /\ Head(outbox) = "task" /\ outbox' = Tail(outbox)
    /\ IF mem # NoRun /\ ~RequiresCleanup(mem) /\ mem.run = "created"
       THEN Record("done", "task", mem)
       ELSE UNCHANGED <<log, disk, faults>>
    /\ UNCHANGED <<core, step, mem, caps, told, cleanup, exit, inbox, sent, acked, shutdown,
                   crashes, sched, held, leased, refusals>>

\* Mutant of Retry: the attempts never end.
RetryNoEnd ==
    /\ Free /\ cleanup.on
    /\ \/ ~Pending(Known) /\ cleanup' = NoCleanup /\ UNCHANGED <<runVars, inbox, shutdown>>
       \/ /\ Pending(Known) /\ cleanup.tries < MaxAttempts
          /\ SendCleanup /\ UNCHANGED <<runVars, shutdown>>
    /\ UNCHANGED <<core, step, exit, sent, acked, crashes, schedVars>>

\* _retry_pending_workflow_cleanups: after the last attempt the Scheduler is asked
\* to shut down and the run fails unconfirmed.
Retry ==
    /\ Free /\ cleanup.on
    /\ \/ ~Pending(Known) /\ cleanup' = NoCleanup /\ UNCHANGED <<runVars, inbox, shutdown>>
       \/ /\ Pending(Known) /\ cleanup.tries < MaxAttempts
          /\ SendCleanup /\ UNCHANGED <<runVars, shutdown>>
       \/ /\ Pending(Known) /\ cleanup.tries = MaxAttempts
          /\ shutdown' = TRUE
          /\ inbox' = IF Available /\ ~shutdown THEN Append(inbox, "shutdown") ELSE inbox
          /\ \E w \in Outcomes :
                FinishFailure(w) /\ cleanup' = IF w = "done" THEN NoCleanup ELSE cleanup
    /\ UNCHANGED <<core, step, exit, sent, acked, crashes, schedVars>>

\* _handle_scheduler_exit, a dispatch in cleanup: it is registered or requested,
\* and confirmed once Ray is known to be stopped.
ExitAsk ==
    /\ Free /\ ~sched.alive /\ ~exit.complete /\ ~exit.asked /\ RequiresCleanup(mem)
    /\ \E w \in Outcomes :
          /\ IF Pending(mem)
             THEN /\ cleanup' = [cleanup EXCEPT !.on = TRUE] /\ w = "done"
                  /\ UNCHANGED <<runVars, inbox>>
             ELSE RequestCleanup(w)
          /\ exit' = [exit EXCEPT !.asked = (w = "done")]
    /\ UNCHANGED <<core, step, sent, acked, shutdown, crashes, schedVars>>

ExitRay ==
    /\ Free /\ ~sched.alive /\ ~exit.ray /\ exit' = [exit EXCEPT !.ray = TRUE]
    /\ held' = {} /\ leased' = {}
    /\ UNCHANGED <<core, step, runVars, cleanup, inbox, sent, acked, shutdown, crashes, sched,
                   outbox, refusals>>

ExitConfirm ==
    /\ Free /\ ~sched.alive /\ exit.asked /\ exit.ray /\ ~exit.complete
    /\ \E w \in Outcomes :
          Confirm(w) /\ exit' = [exit EXCEPT !.complete = (w = "done")]
    /\ UNCHANGED <<core, step, inbox, sent, acked, shutdown, crashes, schedVars>>

\* Mutant of ExitInterrupt: a failed write is not repeated.
ExitInterruptOnce ==
    /\ Free /\ ~sched.alive /\ ~exit.complete /\ mem # NoRun /\ ~RequiresCleanup(mem)
    /\ exit' = [exit EXCEPT !.complete = TRUE]
    /\ IF mem.run = "failed" THEN UNCHANGED <<mem, disk, log, faults>>
       ELSE /\ mem' = [mem EXCEPT !.run = "interrupted"]
            /\ \E w \in Outcomes : Record(w, "interrupt_workflow", mem')
    /\ UNCHANGED <<core, step, caps, told, cleanup, inbox, sent, acked, shutdown, crashes,
                   schedVars>>

\* _handle_scheduler_exit, an active run: it is interrupted, and the write repeated
\* until it succeeds.
ExitInterrupt ==
    /\ Free /\ ~sched.alive /\ ~exit.complete /\ mem # NoRun /\ ~RequiresCleanup(mem)
    /\ IF mem.run = "failed"
       THEN exit' = [exit EXCEPT !.complete = TRUE] /\ UNCHANGED <<mem, disk, log, faults>>
       ELSE /\ mem' = [mem EXCEPT !.run = "interrupted"]
            /\ \E w \in Outcomes :
                  /\ Record(w, "interrupt_workflow", mem')
                  /\ exit' = [exit EXCEPT !.complete = (w = "done")]
    /\ UNCHANGED <<core, step, caps, told, cleanup, inbox, sent, acked, shutdown, crashes,
                   schedVars>>
-------------------------------------------------------------------------------
(* The Scheduler. *)

OnlySched == UNCHANGED <<core, step, runVars, cleanup, exit, sent, acked, shutdown, crashes>>
Take == sched.alive /\ inbox # <<>> /\ inbox' = Tail(inbox)

\* _receive_thread, run_task: nothing is taken for a stopped workflow.
TakeTask ==
    /\ Take /\ Head(inbox) \in Roots
    /\ held' = IF sched.stopped THEN held ELSE held \cup {Head(inbox)}
    /\ OnlySched /\ UNCHANGED <<sched, outbox, leased, refusals>>

Start(t) ==
    /\ sched.alive /\ t \in held \ leased /\ ~sched.stopped
    /\ leased' = leased \cup {t} /\ outbox' = Append(outbox, "task")
    /\ OnlySched /\ UNCHANGED <<inbox, sched, held, refusals>>

Finish(t) ==
    /\ sched.alive /\ t \in leased /\ ~sched.stopped
    /\ held' = held \ {t} /\ leased' = leased \ {t} /\ outbox' = Append(outbox, "task")
    /\ OnlySched /\ UNCHANGED <<inbox, sched, refusals>>

\* Mutant of TakeStop: a request that comes again finds nothing to cancel.
TakeStopAnew ==
    /\ Take /\ Head(inbox) = "stop"
    /\ \E k \in 0..Stages :
          /\ k < Stages => refusals < MaxRefusals
          /\ refusals' = IF k < Stages THEN refusals + 1 ELSE refusals
          /\ sched' = [sched EXCEPT !.stopped = TRUE]
          /\ held' = held \ leased
          /\ leased' = IF k >= 2 /\ ~sched.stopped THEN {} ELSE leased
          /\ outbox' = Append(outbox, IF k = Stages THEN "ok" ELSE "refused")
    /\ OnlySched

\* _stop_workflow_request: the tasks are cancelled; the four stages follow, each
\* done once however often the request comes, and a failure ends the request at
\* the stage it is in.
TakeStop ==
    /\ Take /\ Head(inbox) = "stop"
    /\ \E k \in sched.done..Stages :
          /\ k < Stages => refusals < MaxRefusals
          /\ refusals' = IF k < Stages THEN refusals + 1 ELSE refusals
          /\ sched' = [sched EXCEPT !.stopped = TRUE, !.done = IF k = Stages THEN 0 ELSE k]
          /\ IF k = 0 THEN held' \in {held, held \cap leased}
             ELSE held' = IF k >= 2 THEN {} ELSE held \cap leased
          /\ leased' = IF k >= 2 THEN {} ELSE leased
          /\ outbox' = Append(outbox, IF k = Stages THEN "ok" ELSE "refused")
    /\ OnlySched

\* A thread of the Scheduler fails, as the sender does when the Core takes no more
\* events: the Scheduler says so and begins to clean up.
Fail ==
    /\ Available /\ sched' = [sched EXCEPT !.fatal = TRUE]
    /\ OnlySched /\ UNCHANGED <<inbox, outbox, held, leased, refusals>>

\* Its process ends, of itself, as it was asked, or killed by the Core when it
\* takes too long to fail; its tasks may go on on Ray.
Die ==
    /\ sched.alive
    /\ sched' = [sched EXCEPT !.alive = FALSE] /\ inbox' = <<>>
    /\ OnlySched /\ UNCHANGED <<outbox, held, leased, refusals>>

\* _stop_fatal_scheduler_process: after the grace period.
Kill == Free /\ sched.fatal /\ Die
-------------------------------------------------------------------------------
(* Crash and restart. *)

Crash ==
    /\ core = "up" /\ crashes < MaxCrashes /\ crashes' = crashes + 1
    /\ core' = "down" /\ step' = "idle" /\ mem' = NoRun /\ cleanup' = NoCleanup /\ exit' = NoExit
    /\ shutdown' = FALSE
    /\ sched' = Fresh /\ inbox' = <<>> /\ outbox' = <<>> /\ held' = {} /\ leased' = {}
    /\ UNCHANGED <<disk, log, caps, told, faults, refusals, sent, acked>>

\* Mutant of Recover: an interrupted dispatch is taken for one that had not begun.
RecoverPrepared ==
    /\ core = "down"
    /\ \E w \in Outcomes :
          /\ core' = IF w = "done" THEN "up" ELSE "down"
          /\ IF disk # NoRun /\ disk.dispatch # "terminal"
             THEN FinishFailure(w)
             ELSE w = "done" /\ UNCHANGED runVars
    /\ UNCHANGED <<step, exit, sent, acked, shutdown, crashes, cleanup, inbox, schedVars>>

Settled(m) == m # NoRun => m.dispatch \in {"active", "terminal"} /\ m.run # "created"

\* recover_interrupted_runs and _recover_incomplete_workflow_dispatches.  The Core
\* does not come up when a write fails.
Recover ==
    /\ core = "down"
    /\ \E w \in Outcomes :
          /\ core' = IF w = "done" THEN "up" ELSE "down"
          /\ \/ /\ Settled(disk)
                /\ w = "done" /\ UNCHANGED <<runVars, cleanup, inbox>>
             \/ /\ disk # NoRun /\ disk.dispatch = "active" /\ disk.run = "created"
                /\ Record(w, "interrupt_workflow", [disk EXCEPT !.run = "interrupted"])
                /\ UNCHANGED <<mem, caps, told, cleanup, inbox>>
             \/ /\ disk # NoRun /\ disk.dispatch = "prepared"
                /\ FinishFailure(w) /\ UNCHANGED <<cleanup, inbox>>
             \/ RequiresCleanup(disk) /\ RequestCleanup(w)
    /\ UNCHANGED <<step, exit, sent, acked, shutdown, crashes, schedVars>>

Submission == \/ Prepare \/ StartEvent \/ MarkDispatching \/ Activate \/ FailDispatch
              \/ \E t \in Roots : Send(t)
Core == Reply \/ TaskEvent \/ Retry \/ ExitAsk \/ ExitRay \/ ExitConfirm \/ ExitInterrupt
Scheduler == TakeTask \/ TakeStop \/ \E t \in Roots : Start(t) \/ Finish(t)

Next == Submit \/ Submission \/ Core \/ Sweep \/ StopWorkflow \/ Scheduler \/ Fail \/ Die \/ Kill
        \/ Crash \/ Recover

Spec == Init /\ [][Next]_vars

\* The submission runs to its end; the monitor and the maintenance loop, with each
\* of its parts, come round again and again.
FairSpec == /\ Spec /\ WF_vars(Submission) /\ WF_vars(Reply) /\ WF_vars(TaskEvent) /\ WF_vars(Retry)
            /\ WF_vars(Kill) /\ WF_vars(ExitAsk) /\ WF_vars(ExitRay) /\ WF_vars(ExitConfirm) /\ WF_vars(ExitInterrupt)
-------------------------------------------------------------------------------
Over(m) == m # NoRun /\ m.dispatch = "terminal"

\* Nothing is left: when the submission has failed, for the clients of this
\* process or in the journal, no task of the run is in the Scheduler, on Ray or on
\* its way there and none may use an artifact, unless the whole Scheduler was
\* asked to shut down.  The capabilities do not end before the tasks, and the
\* failure is the last the run's log says, once, before subscribers hear of it.
\* Three failed writes are too many: when the one that makes the dispatch active
\* fails after its effect, and those of the cleanup and of the failure without,
\* the next Core finds an active run, and interrupts it.
NothingLeft ==
    /\ Over(mem) \/ Over(disk) \/ caps = "revoked" =>
          shutdown \/ (held = {} /\ leased = {} /\ \A t \in Roots : t \notin ToSet(inbox))
    /\ Over(disk) => caps # "issued"
    /\ \A i \in 1..Len(log) : log[i] = "workflow_submission_failed" =>
          \/ i = Len(log)
          \/ i + 1 = Len(log) /\ log[i + 1] = "interrupt_workflow" /\ faults > 2
    /\ told => Logged("workflow_submission_failed") /\ Over(disk)

\* The journal and the messages follow Submission: over replays, failures and
\* restarts no root is sent twice, none after the failure, and an answer given to
\* the client stands.
Promise == INSTANCE Submission WITH
    outcome <- CASE acked                -> IF disk.dispatch = "active" THEN "started" ELSE "lost"
                 [] disk = NoRun         -> "none"
                 [] ~acked /\ disk # NoRun ->
                      IF disk.run = "created" THEN "trying" ELSE "failed"
SubmissionKept == Promise!Spec

\* A registered cleanup ends, whatever the Scheduler does, unless the Core crashes.
CleanupEnds == core = "up" /\ cleanup.on /\ Pending(Known) ~> Over(Known) \/ core = "down"

\* An active run whose Scheduler died is interrupted in run.json too, however
\* often the write fails.
InterruptionSaved ==
    core = "up" /\ step = "idle" /\ ~Available /\ mem # NoRun /\ mem.dispatch = "active"
       ~> core = "down" \/ (disk # NoRun /\ disk.run = "interrupted")
===============================================================================
