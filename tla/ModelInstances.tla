---------------------------- MODULE ModelInstances ----------------------------
(***************************************************************************)
(* Managed model instances (scheduler/llm_instance.py and the LLM parts of *)
(* scheduler.py).  A task that needs a model is routed to a ready instance *)
(* or waits, which is a demand.  The supervisor answers demand by starting *)
(* instances and takes idle and broken ones out of routing; the LLM thread *)
(* places starts and takes requests to stop; starting and stopping run in  *)
(* threads of their own.  A start creates an actor in yet another thread,  *)
(* which may never return: whoever sees an actor that nobody waits for any *)
(* more must kill it.  An instance keeps its lease of a GPU until its      *)
(* processes are gone.                                                     *)
(*                                                                         *)
(* A uuid is an id that nothing in the system mentions.  All tasks of a    *)
(* model ask for the same memory.  Left out: the shutdown, node loss and   *)
(* placement beyond one node's number of GPUs (ResourceLeases), affinity,  *)
(* measurements, workers replaced in the bounded executors; how a task is  *)
(* parked and woken against the queues is SchedulerCore's.                 *)
(***************************************************************************)
EXTENDS Naturals, FiniteSets, Sequences, SequencesExt

CONSTANTS
    Ids, Tasks, Models,
    ModelOf,      \* the model an id is used for
    Wants,        \* the models the tasks need: the cases to look at
    Watched,      \* bound: the ids that faults and requests of the user are about
    Gpus, MaxRequests,
    Slots,        \* LLM_STALE_ACTOR_CLEANUP_SLOTS
    MaxFaults,    \* bound: failed creations, launches, stops, timeouts, crashes
    MaxCalls,     \* bound: requests of the user
    NoId

ASSUME ModelAssumption ==
    /\ IsFiniteSet(Ids) /\ IsFiniteSet(Tasks) /\ NoId \notin Ids /\ Watched \subseteq Ids
    /\ ModelOf \in [Ids -> Models] /\ Wants \subseteq [Tasks -> Models]
    /\ {Gpus, MaxRequests, Slots} \subseteq Nat \ {0}
    /\ {MaxFaults, MaxCalls} \subseteq Nat

VARIABLES
    task,      \* a task: where it is, and the instance of its route
    demand,    \* pending_model_request_ids
    limit,     \* model_admission_limits
    inst,      \* the registry of instances
    auto,      \* auto_deploy_by_instance; its size is the deploying count
    cancelled, \* cancelled_start_ids
    gen,       \* the generation of a pending start, see _PendingActorStart
    proc,      \* what runs: an actor, its server; the server without the actor
    leases,    \* the leases of GPUs, by instance and attempt
    start,     \* the record of a start and how far its thread has come
    stop,      \* the calls of stop_llm_instance, by worker
    asks,      \* the jobs that have requests to stop to answer
    upkeep,    \* _llm_runtime_cleanup_futures: why the supervisor stops it
    msgs,      \* llm_instance_queue
    found,     \* the candidates the health probe has found so far
    faults, calls

vars == <<task, demand, limit, inst, auto, cancelled, gen, proc, leases, start, stop,
          asks, upkeep, msgs, found, faults, calls>>

\* The threads that stop an instance: its own start, the job that cancels its
\* first start or the one tried again, the job all other requests share, the
\* recovery of an out-of-memory.
Jobs    == {"cancel1", "cancel2", "shared"}
Workers == Jobs \cup {"start", "recovery"}

NoInst  == [state |-> "none", claim |-> FALSE, inflight |-> 0, attempt |-> 0]
NoGen   == [current |-> FALSE, future |-> FALSE, creation |-> "none", called |-> FALSE,
            slot |-> FALSE, kill |-> "none"]
NoStart == [pc |-> "none", auto |-> FALSE, attempt |-> 1, cancel |-> FALSE, again |-> FALSE,
            orphan |-> FALSE]
NoStop  == [pc |-> "idle", attempt |-> 0]

TypeOK ==
    /\ task \in [Tasks -> [place : {"ready", "waiting", "routed", "recovering", "admission",
                                    "done"}, on : Ids \cup {NoId}, model : Models]]
    /\ demand \subseteq Tasks /\ limit \in [Models -> 1..MaxRequests]
    /\ inst \in [Ids -> [state : {"none", "launching", "ready", "unhealthy", "draining",
                                  "stopping", "cleanup_pending", "stopped"},
                         claim : BOOLEAN, inflight : 0..MaxRequests, attempt : 0..2]]
    /\ auto \subseteq Ids /\ cancelled \subseteq Ids
    /\ gen \in [Ids -> [current : BOOLEAN, future : BOOLEAN,
                        creation : {"none", "queued", "running", "made", "failed"},
                        called : BOOLEAN, slot : BOOLEAN,
                        kill : {"none", "pending", "done"}]]
    /\ proc \in [Ids -> {"none", "actor", "server", "exited", "left"}]
    /\ leases \subseteq Ids \X {1, 2}
    /\ start \in [Ids -> [pc : {"none", "sent", "deferred", "queued", "submit", "attach",
                                "await", "launch", "verify", "undo", "ready",
                                "rollback", "finally", "ok", "failed", "cancelled"},
                          auto : BOOLEAN, attempt : 1..2, cancel : BOOLEAN, again : BOOLEAN, orphan : BOOLEAN]]
    /\ stop \in [Ids -> [Workers -> [pc : {"idle", "enter", "owner", "wait", "finalize", "ok",
                                           "failed"}, attempt : 0..2]]]
    /\ asks \in [Ids -> SUBSET Jobs]
    /\ upkeep \in [Ids -> {"none", "idle", "failed"}]
    /\ found \subseteq Ids
    /\ faults \in 0..MaxFaults /\ calls \in 0..MaxCalls
    \* the limits of the node, of an instance and of the killer's queue
    /\ Cardinality(leases) <= Gpus
    /\ Cardinality({i \in Ids : gen[i].slot}) <= Slots
    /\ \A i \in Ids : inst[i].state # "none" =>
          inst[i].inflight = Cardinality({t \in Tasks : task[t].place = "routed" /\ task[t].on = i})

Init ==
    /\ \E wants \in Wants :
          task = [t \in Tasks |-> [place |-> "ready", on |-> NoId, model |-> wants[t]]]
    /\ demand = {} /\ limit = [m \in Models |-> MaxRequests]
    /\ inst = [i \in Ids |-> NoInst] /\ auto = {} /\ cancelled = {}
    /\ gen = [i \in Ids |-> NoGen] /\ proc = [i \in Ids |-> "none"] /\ leases = {}
    /\ start = [i \in Ids |-> NoStart] /\ stop = [i \in Ids |-> [w \in Workers |-> NoStop]]
    /\ asks = [i \in Ids |-> {}] /\ upkeep = [i \in Ids |-> "none"]
    /\ msgs = <<>> /\ found = {} /\ faults = 0 /\ calls = 0

Done(t) == [task[t] EXCEPT !.place = "done", !.on = NoId]

Demanded(m) == {t \in demand : task[t].model = m}
Fault(i) == i \in Watched /\ faults < MaxFaults /\ faults' = faults + 1
NoFault == UNCHANGED faults
-------------------------------------------------------------------------------
(* Tasks: routing, demand and what ends them. *)

taskVars == <<task, demand>>

\* _wake_model_waiters
Woken(m) ==
    [t \in Tasks |-> IF task[t].place = "waiting" /\ task[t].model = m
                     THEN [task[t] EXCEPT !.place = "ready"] ELSE task[t]]

Message(type, i) == [type |-> type, id |-> i]

\* _clear_model_workflow_state: the demand of a task goes, and automatic
\* starts that nobody needs any more are cancelled.
Orphans(d) == {i \in auto : \A t \in d : task[t].model # ModelOf[i]}
ClearDemand(ts) ==
    /\ demand' = demand \ ts
    /\ msgs' = msgs \o SetToSeq({Message("orphan", i) : i \in Orphans(demand \ ts)})

Available(m) ==
    {i \in Ids : ModelOf[i] = m /\ inst[i].state = "ready" /\ inst[i].inflight < limit[m]}

\* route_model_request, _wait_for_model
Route(t) ==
    /\ task[t].place = "ready"
    /\ \/ \E i \in Available(task[t].model) :
             /\ task' = [task EXCEPT ![t].place = "routed", ![t].on = i]
             /\ inst' = [inst EXCEPT ![i].inflight = @ + 1]
             /\ demand' = demand \ {t}
       \/ /\ Available(task[t].model) = {}
          /\ task' = [task EXCEPT ![t].place = "waiting"]
          /\ demand' = demand \cup {t} /\ UNCHANGED inst
    /\ UNCHANGED <<limit, auto, cancelled, gen, proc, leases, start, stop, asks, upkeep, msgs,
                   found, faults, calls>>

\* release_model_route: the instance may have been forgotten since.
Released(i) ==
    IF inst[i].state = "none" THEN inst
    ELSE [inst EXCEPT ![i].inflight = IF @ = 0 THEN 0 ELSE @ - 1]

\* The workflow of a task is cleared when the task has ended, which gives its
\* route back (_release_model_route) ...
EndTask(t) ==
    /\ task[t].place = "routed"
    /\ inst' = Released(task[t].on)
    /\ task' = [Woken(task[t].model) EXCEPT ![t] = Done(t)]
    /\ ClearDemand({t})
    /\ UNCHANGED <<limit, auto, cancelled, gen, proc, leases, start, stop, asks, upkeep, found,
                   faults, calls>>

\* ... or when its client stops it.
StopWorkflow(t) ==
    /\ task[t].place \in {"ready", "waiting"} /\ calls < MaxCalls /\ calls' = calls + 1
    /\ task' = [task EXCEPT ![t] = Done(t)]
    /\ ClearDemand({t})
    /\ UNCHANGED <<limit, inst, auto, cancelled, gen, proc, leases, start, stop, asks, upkeep, found,
                   faults>>
-------------------------------------------------------------------------------
(* Stopping an instance (stop_llm_instance). *)

\* The state of the other variables of a stop.
stopVars == <<task, demand, limit, auto, cancelled, gen, start, asks, upkeep, msgs, found, calls>>

\* The first look under the lock.  A job that cancels a start comes back here
\* until the instance is there or that start has ended.
StartOver(i, w) ==
    \/ start[i].pc \in {"none", "ok", "failed", "cancelled"}
    \/ w = "cancel1" /\ start[i].attempt = 2

Ended(pc) == [pc |-> pc, attempt |-> 0]

\* Mutant of Takes: whoever finds the instance being stopped waits for the owner.
TakesNothing(i) == inst[i].state \notin {"none", "stopped", "stopping"}

\* The caller that stops the instance itself; a claimed instance is not in the
\* hands of a thread yet.
Takes(i) ==
    \/ inst[i].state \notin {"none", "stopped", "stopping"}
    \/ inst[i].state = "stopping" /\ inst[i].claim

Enter(i, w) ==
    LET state  == inst[i].state
        ends(pc) == stop' = [stop EXCEPT ![i][w] = Ended(pc)] /\ UNCHANGED inst
        goes(pc) == stop' = [stop EXCEPT ![i][w] = [pc |-> pc, attempt |-> inst[i].attempt]]
    IN  /\ stop[i][w].pc = "enter"
        /\ CASE state = "none" /\ w = "start" -> ends("ok")
             [] state = "none" /\ w \in {"cancel1", "cancel2"} -> StartOver(i, w) /\ ends("ok")
             [] state = "none" /\ w \in {"shared", "recovery"} -> ends("failed")
             [] state = "stopped" /\ w = "start" -> ends("ok")
             [] state = "stopped" /\ w # "start" -> goes("finalize") /\ UNCHANGED inst
             [] Takes(i) ->
                    goes("owner") /\ inst' = [inst EXCEPT ![i].state = "stopping", ![i].claim = FALSE]
             [] OTHER -> goes("wait") /\ UNCHANGED inst
        /\ UNCHANGED <<proc, leases, faults>> /\ UNCHANGED stopVars

\* The stop was confirmed; the thread of a start does no more than that.
Confirmed(i, w) ==
    stop' = [stop EXCEPT ![i][w] = IF w = "start" THEN Ended("ok") ELSE [@ EXCEPT !.pc = "finalize"]]

\* _stop_instance_control_transaction confirmed that actor and processes are gone.
Stopped(i, w) ==
    /\ stop[i][w].pc = "owner"
    /\ proc' = [proc EXCEPT ![i] = "none"]
    /\ inst' = [inst EXCEPT ![i].state = "stopped"]
    /\ Confirmed(i, w)
    /\ UNCHANGED <<leases, faults>> /\ UNCHANGED stopVars

\* Mutant of StopFails: an unconfirmed cleanup counts as a stop.
StopFailsForgotten(i, w) ==
    /\ stop[i][w].pc = "owner" /\ Fault(i)
    /\ proc' = [proc EXCEPT ![i] = IF proc[i] = "server" THEN "left" ELSE "none"]
    /\ inst' = [inst EXCEPT ![i].state = "stopped"]
    /\ Confirmed(i, w)
    /\ UNCHANGED leases /\ UNCHANGED stopVars

\* It could not: the actor lives on or is gone, its server too.
StopFails(i, w) ==
    /\ stop[i][w].pc = "owner" /\ Fault(i)
    /\ \E p \in {proc[i], "none"} \cup (IF proc[i] = "server" THEN {"left"} ELSE {}) :
          proc' = [proc EXCEPT ![i] = p]
    /\ inst' = [inst EXCEPT ![i].state = "cleanup_pending"]
    /\ stop' = [stop EXCEPT ![i][w] = Ended("failed")]
    /\ UNCHANGED leases /\ UNCHANGED stopVars

\* Another thread stops the instance: its end is awaited, or the deadline.
WaitOver(i, w) ==
    /\ stop[i][w].pc = "wait"
    /\ \/ inst[i].state \in {"none", "stopped"} /\ NoFault /\ Confirmed(i, w)
       \/ /\ inst[i].state \notin {"none", "stopped"}
          /\ IF inst[i].state = "stopping" THEN Fault(i) ELSE NoFault
          /\ stop' = [stop EXCEPT ![i][w] = Ended("failed")]
    /\ UNCHANGED <<inst, proc, leases>> /\ UNCHANGED stopVars

Forgotten(i) == [inst EXCEPT ![i] = NoInst]

\* _finalize_stopped_llm_instance: the lease of the stopped attempt is given
\* back, and what is registered under the id is forgotten if it is stopped.
Finalize(i, w) ==
    /\ stop[i][w].pc = "finalize"
    /\ leases' = leases \ {<<i, stop[i][w].attempt>>}
    /\ IF inst[i].state = "stopped"
       THEN /\ inst' = Forgotten(i) /\ auto' = auto \ {i} /\ cancelled' = cancelled \ {i}
       ELSE UNCHANGED <<inst, auto, cancelled>>
    /\ stop' = [stop EXCEPT ![i][w] = Ended(IF inst[i].state \in {"none", "stopped"}
                                             THEN "ok" ELSE "failed")]
    /\ UNCHANGED <<task, demand, limit, gen, proc, start, asks, upkeep, msgs, found, faults, calls>>
-------------------------------------------------------------------------------
(* Starting an instance: the thread of _execute_llm_start, the executor that   *)
(* creates actors, and the one that kills late ones.                           *)

startVars == <<task, demand, limit, stop, asks, upkeep, msgs, found, calls>>

\* _schedule_late_actor_kill
KillLater(g) == IF g.kill = "none" THEN [g EXCEPT !.kill = "pending"] ELSE g

\* A generation nothing will ask about any more.
Settled(g) ==
    IF ~g.slot /\ (g.called \/ g.creation = "none") THEN NoGen ELSE g

\* _invalidate_pending_start_locked: a creation that cannot be cancelled any
\* more keeps its slot until its actor has been killed.
Invalidated(i) ==
    LET g == [gen[i] EXCEPT !.current = FALSE]
    IN  IF ~gen[i].current THEN gen[i]
        ELSE IF g.creation = "none" \/ (g.future /\ g.creation = "queued") THEN NoGen
        ELSE g

\* request_start_cancellation
CancelStart(i) ==
    /\ cancelled' = cancelled \cup {i}
    /\ gen' = [gen EXCEPT ![i] = Invalidated(i)]
    /\ inst' = IF ~gen[i].current /\ inst[i].state \in {"launching", "ready"}
               THEN [inst EXCEPT ![i].state = "stopping", ![i].claim = TRUE] ELSE inst

To(i, pc) == start' = [start EXCEPT ![i].pc = pc]

\* _execute_llm_start, start_llm_instance: a start that was not cancelled in the
\* queue reserves a slot before it asks for an actor.
Admit(i) ==
    /\ start[i].pc = "queued"
    /\ IF start[i].cancel \/ i \in cancelled \/ Cardinality({j \in Ids : gen[j].slot}) = Slots
       THEN To(i, "rollback") /\ UNCHANGED gen
       ELSE /\ To(i, "submit")
            /\ gen' = [gen EXCEPT ![i] = [NoGen EXCEPT !.current = TRUE, !.slot = TRUE]]
    /\ UNCHANGED <<inst, auto, cancelled, proc, leases, faults>> /\ UNCHANGED startVars

\* The creation is submitted, unless the start was cancelled meanwhile or the
\* queue of the executor is full.
SubmitCreation(i) ==
    /\ start[i].pc = "submit"
    /\ \/ /\ gen[i].current /\ NoFault
          /\ gen' = [gen EXCEPT ![i].creation = "queued"] /\ To(i, "attach")
       \/ /\ gen[i].current /\ Fault(i)
          /\ gen' = [gen EXCEPT ![i] = NoGen] /\ To(i, "rollback")
       \/ /\ ~gen[i].current /\ NoFault /\ UNCHANGED gen /\ To(i, "rollback")
    /\ UNCHANGED <<inst, auto, cancelled, proc, leases>> /\ UNCHANGED startVars

\* The future becomes visible; a cancellation that came before saw none.
Attach(i) ==
    /\ start[i].pc = "attach" /\ To(i, "await")
    /\ gen' = [gen EXCEPT ![i] =
                  IF ~@.current /\ @.creation = "queued"
                  THEN NoGen ELSE [@ EXCEPT !.future = TRUE]]
    /\ UNCHANGED <<inst, auto, cancelled, proc, leases, faults>> /\ UNCHANGED startVars

createVars == <<inst, auto, cancelled, leases, start>>

CreateBegin(i) ==
    /\ gen[i].creation = "queued"
    /\ gen' = [gen EXCEPT ![i].creation = "running"]
    /\ UNCHANGED <<proc, faults>> /\ UNCHANGED createVars /\ UNCHANGED startVars

CreateEnd(i) ==
    /\ gen[i].creation = "running"
    /\ \/ /\ NoFault /\ gen' = [gen EXCEPT ![i].creation = "made"]
          /\ proc' = [proc EXCEPT ![i] = "actor"]
       \/ Fault(i) /\ gen' = [gen EXCEPT ![i].creation = "failed"] /\ UNCHANGED proc
    /\ UNCHANGED createVars /\ UNCHANGED startVars

\* Mutant of CreationFinished: a late actor is left to the start, which is gone.
CreationFinishedBlindly(i) ==
    /\ gen[i].creation \in {"made", "failed"} /\ gen[i].future /\ ~gen[i].called
    /\ gen' = [gen EXCEPT ![i] = IF gen[i].creation = "failed" THEN NoGen
                                 ELSE [gen[i] EXCEPT !.called = TRUE]]
    /\ UNCHANGED <<proc, faults>> /\ UNCHANGED createVars /\ UNCHANGED startVars

\* _actor_creation_finished: an actor that nobody waits for is killed.
CreationFinished(i) ==
    LET g == [gen[i] EXCEPT !.called = TRUE]
    IN  /\ gen[i].creation \in {"made", "failed"} /\ gen[i].future /\ ~gen[i].called
        /\ gen' = [gen EXCEPT ![i] = IF g.creation = "failed" THEN NoGen
                                     ELSE IF g.current THEN g ELSE Settled(KillLater(g))]
        /\ UNCHANGED <<proc, faults>> /\ UNCHANGED createVars /\ UNCHANGED startVars

LateKill(i) ==
    /\ gen[i].kill = "pending"
    /\ gen' = [gen EXCEPT ![i] = Settled([@ EXCEPT !.kill = "done", !.slot = FALSE])]
    /\ proc' = [proc EXCEPT ![i] = "none"]
    /\ UNCHANGED faults /\ UNCHANGED createVars /\ UNCHANGED startVars

\* The actor has not come in time.
AwaitTimeout(i) ==
    LET g == Invalidated(i)
    IN  /\ start[i].pc = "await" /\ gen[i].current /\ ~gen[i].called /\ Fault(i)
        /\ gen' = [gen EXCEPT ![i] = IF g.creation = "made" THEN KillLater(g) ELSE g]
        /\ To(i, "rollback")
        /\ UNCHANGED <<inst, auto, cancelled, proc, leases>> /\ UNCHANGED startVars

\* Woken up by the creation or by a cancellation.  The actor is registered if
\* the start still waits for it.
AwaitOver(i) ==
    LET g == gen[i]
        accepted == g.current /\ i \notin cancelled
    IN  /\ start[i].pc = "await" /\ (g.called \/ ~g.current)
        /\ \/ /\ accepted
              /\ gen' = [gen EXCEPT ![i] = NoGen]
              /\ inst' = [inst EXCEPT ![i] = [NoInst EXCEPT !.state = "launching",
                                                            !.attempt = start[i].attempt]]
              /\ To(i, "launch")
           \/ /\ ~accepted
              /\ gen' = [gen EXCEPT ![i] = IF g.creation = "made"
                                           THEN Settled(KillLater([g EXCEPT !.current = FALSE])) ELSE g]
              /\ To(i, "rollback") /\ UNCHANGED inst
        /\ UNCHANGED <<auto, cancelled, proc, leases, faults>> /\ UNCHANGED startVars

\* The start failed after the actor was registered: its thread stops the
\* instance itself, as one of the workers.
Undo(i) == stop' = [stop EXCEPT ![i]["start"].pc = "enter"]

launchVars == <<task, demand, limit, asks, upkeep, msgs, found, calls, cancelled, gen, leases>>

\* launch_server: the server runs, or exits out of memory, or the call fails,
\* perhaps with the server running.
Launch(i) ==
    /\ start[i].pc = "launch"
    /\ \/ /\ inst[i].state = "launching" /\ proc[i] = "actor" /\ NoFault
          /\ proc' = [proc EXCEPT ![i] = "server"] /\ To(i, "verify") /\ UNCHANGED stop
       \/ /\ inst[i].state = "launching" /\ proc[i] = "actor" /\ Fault(i)
          /\ \E p \in {"exited", "server"} :
                /\ proc' = [proc EXCEPT ![i] = p]
                /\ start' = [start EXCEPT ![i].pc = "undo", ![i].again = (p = "exited")]
          /\ Undo(i)
       \/ /\ inst[i].state # "launching" \/ proc[i] # "actor"
          /\ NoFault /\ UNCHANGED proc /\ To(i, "undo") /\ Undo(i)
    /\ UNCHANGED <<inst, auto>> /\ UNCHANGED launchVars

Over(i, w) == stop[i][w].pc \in {"ok", "failed"}

\* _wait_until_ready, _mark_ready.  By then a job that stopped the first attempt,
\* or waited for its end, is long done and its request answered.
Verify(i) ==
    /\ start[i].pc = "verify"
    /\ \/ /\ inst[i].state = "launching" /\ proc[i] = "server"
          /\ stop[i]["shared"].pc \in {"idle", "enter"}
          /\ inst' = [inst EXCEPT ![i].state = "ready"]
          /\ auto' = auto \ {i} /\ To(i, "ready") /\ UNCHANGED stop
       \/ /\ inst[i].state # "launching" \/ proc[i] # "server"
          /\ To(i, "undo") /\ Undo(i) /\ UNCHANGED <<inst, auto>>
    /\ UNCHANGED <<proc, faults>> /\ UNCHANGED launchVars

\* The instance is ready.  It may have been forgotten by now, or its start
\* cancelled; then it is stopped for good by this thread.
Withdraw(i) ==
    /\ start[i].pc = "ready"
    /\ \/ /\ inst[i].state # "none" /\ ~start[i].cancel
          /\ cancelled' = cancelled \ {i} /\ To(i, "ok") /\ UNCHANGED <<gen, inst, stop>>
       \/ /\ inst[i].state = "none" /\ To(i, "rollback") /\ UNCHANGED <<cancelled, gen, inst, stop>>
       \/ /\ inst[i].state # "none" /\ start[i].cancel
          /\ CancelStart(i) /\ To(i, "undo") /\ Undo(i)
    /\ UNCHANGED <<task, demand, limit, asks, upkeep, msgs, found, calls, auto, proc, leases, faults>>

Undone(i) ==
    /\ start[i].pc = "undo" /\ Over(i, "start")
    /\ To(i, "rollback") /\ stop' = [stop EXCEPT ![i]["start"] = NoStop]
    /\ UNCHANGED <<task, demand, limit, asks, upkeep, msgs, found, calls, inst, auto, cancelled, gen,
                   proc, leases, faults>>

\* Mutant of RolledBack: the lease goes back whatever became of the instance.
RolledBackAlways(i) == TRUE

\* _rollback_failed_llm_launch gives the lease back of what is gone, and only that.
RolledBack(i) == inst[i].state \in {"none", "stopped"}

Undeployed(i) == leases' = leases \ {<<i, start[i].attempt>>} /\ auto' = auto \ {i}

\* plan_model_load_retry: once, after a clean failure that nobody cancelled.
Retryable(i) == RolledBack(i) /\ ~start[i].cancel /\ start[i].attempt = 1

Rollback(i) ==
    /\ start[i].pc = "rollback"
    /\ IF RolledBack(i) THEN Undeployed(i) ELSE UNCHANGED <<leases, auto>>
    /\ inst' = IF inst[i].state = "stopped" THEN Forgotten(i) ELSE inst
    /\ start' = [start EXCEPT ![i].pc = "finally", ![i].again = @ /\ Retryable(i)]
    /\ cancelled' = IF inst[i].state = "stopped" THEN cancelled \ {i} ELSE cancelled
    /\ UNCHANGED <<gen, proc, faults>> /\ UNCHANGED startVars

\* clear_start_cancellation, after the result of the start was decided.
Finally(i) ==
    /\ start[i].pc = "finally" /\ To(i, "failed")
    /\ cancelled' = cancelled \ {i}
    /\ UNCHANGED <<inst, auto, gen, proc, leases, faults>> /\ UNCHANGED startVars
-------------------------------------------------------------------------------
(* The LLM thread. *)

Pending(i) == start[i].pc \notin {"none", "sent", "deferred"}
Idle(i) == inst[i].state = "ready" /\ inst[i].inflight = 0

\* A job is submitted, or joins the one that stops the instance already.
SharedJob(i) ==
    IF stop[i]["shared"].pc = "idle"
    THEN [stop EXCEPT ![i]["shared"].pc = "enter"] ELSE stop

\* claim_lru_scale_in, _submit_runtime_llm_cleanup: an idle instance is taken
\* out of routing and handed to the supervisor's jobs.
Claimed(i) == [inst EXCEPT ![i].state = "stopping", ![i].claim = TRUE]

\* _reclaim_idle_llm_for_placement: one idle instance of another model that
\* nobody waits for, unless one is being stopped already.
Reclaim(i) ==
    LET spare == {j \in Ids : /\ Idle(j) /\ ModelOf[j] # ModelOf[i]
                              /\ Demanded(ModelOf[j]) = {} /\ upkeep[j] = "none"}
    IN  IF spare # {} /\ \A j \in Ids : upkeep[j] = "none"
        THEN \E j \in spare :
                inst' = Claimed(j) /\ upkeep' = [upkeep EXCEPT ![j] = "idle"] /\ stop' = SharedJob(j)
        ELSE UNCHANGED <<inst, upkeep, stop>>

\* _auto_deployment_is_active
Active(i) == i \in auto /\ Demanded(ModelOf[i]) # {}

\* _queue_llm_start: select_node finds a GPU or the start is put off.
Place(i) ==
    \/ /\ start[i].auto /\ ~Active(i)
       /\ auto' = auto \ {i} /\ start' = [start EXCEPT ![i] = NoStart]
       /\ UNCHANGED <<leases, inst, upkeep, stop>>
    \/ /\ start[i].auto => Active(i)
       /\ Cardinality(leases) < Gpus
       /\ leases' = leases \cup {<<i, start[i].attempt>>} /\ To(i, "queued")
       /\ UNCHANGED <<auto, inst, upkeep, stop>>
    \/ /\ start[i].auto /\ Active(i) /\ Cardinality(leases) = Gpus
       /\ To(i, "deferred") /\ Reclaim(i) /\ UNCHANGED <<auto, leases>>

\* ... and the start of a user is refused.
Refuse(i) ==
    /\ ~start[i].auto /\ Cardinality(leases) = Gpus
    /\ start' = [start EXCEPT ![i] = NoStart] /\ UNCHANGED <<auto, leases, inst, upkeep, stop>>

Head1(type) == msgs # <<>> /\ Head(msgs).type = type /\ msgs' = Tail(msgs)

QueueStart ==
    /\ Head1("start") /\ (Place(Head(msgs).id) \/ Refuse(Head(msgs).id))
    /\ UNCHANGED <<task, demand, limit, cancelled, gen, proc, asks, found, faults, calls>>

Deferred(i) ==
    /\ start[i].pc = "deferred" /\ Place(i)
    /\ UNCHANGED <<task, demand, limit, cancelled, gen, proc, asks, msgs, found, faults, calls>>

\* The job that cancels the start there is.
CancelJob(i) == IF start[i].attempt = 1 THEN "cancel1" ELSE "cancel2"

\* Cancelling a start: one that still waits for a thread never runs; for any
\* other a job waits until it can be stopped.
StopPending(i, orphan) ==
    LET queued == start[i].pc = "queued" /\ inst[i].state = "none"
        w      == CancelJob(i)
    IN  /\ CancelStart(i)
        /\ asks' = [asks EXCEPT ![i] = @ \cup {w}]
        /\ start' = [start EXCEPT ![i].cancel = TRUE, ![i].orphan = @ \/ orphan,
                                  ![i].pc = IF queued THEN "cancelled" ELSE @]
        /\ stop' = IF queued \/ stop[i][w].pc # "idle" THEN stop
                   ELSE [stop EXCEPT ![i][w].pc = "enter"]
        /\ UNCHANGED auto

StopShared(i) ==
    /\ asks' = [asks EXCEPT ![i] = @ \cup {"shared"}] /\ stop' = SharedJob(i)
    /\ UNCHANGED <<start, auto, inst, gen, cancelled>>

\* _queue_llm_stop
QueueStop ==
    LET i == Head(msgs).id
    IN  /\ Head1("stop")
        /\ IF Pending(i) THEN StopPending(i, FALSE) ELSE StopShared(i)
        /\ UNCHANGED <<task, demand, limit, proc, leases, upkeep, found, faults, calls>>

\* _queue_llm_stop with cancel_auto_deployment: demand may have come back.
QueueOrphan ==
    LET i == Head(msgs).id
    IN  /\ Head1("orphan")
        /\ \/ /\ i \notin auto \/ Demanded(ModelOf[i]) # {}
              /\ UNCHANGED <<start, auto, inst, gen, cancelled, asks, stop>>
           \/ /\ i \in auto /\ Demanded(ModelOf[i]) = {} /\ Pending(i) /\ StopPending(i, TRUE)
           \/ /\ i \in auto /\ Demanded(ModelOf[i]) = {} /\ ~Pending(i) /\ inst[i].state = "none"
              /\ auto' = auto \ {i}
              /\ start' = IF start[i].pc = "deferred" THEN [start EXCEPT ![i] = NoStart] ELSE start
              /\ UNCHANGED <<inst, gen, cancelled, asks, stop>>
           \/ /\ i \in auto /\ Demanded(ModelOf[i]) = {} /\ ~Pending(i) /\ inst[i].state # "none"
              /\ StopShared(i)
        /\ UNCHANGED <<task, demand, limit, proc, leases, upkeep, found, faults, calls>>

\* _fail_model_waiters, unless another instance serves or will serve them.
Waiters(m) == {t \in Tasks : task[t].place = "waiting" /\ task[t].model = m}
Served(i) == \E j \in Ids \ {i} : ModelOf[j] = ModelOf[i] /\ (inst[j].state = "ready" \/ j \in auto)
FailWaiters(i) ==
    LET ts == Waiters(ModelOf[i])
    IN  IF ts = {} \/ Served(i) THEN UNCHANGED <<task, demand, msgs>>
        ELSE /\ task' = [t \in Tasks |-> IF t \in ts THEN Done(t) ELSE task[t]]
             /\ ClearDemand(ts)

\* Requests to stop that no job will answer are answered with the start.
Answered(i) == IF stop[i][CancelJob(i)].pc = "idle" THEN [asks EXCEPT ![i] = @ \ {CancelJob(i)}] ELSE asks

\* Mutant of DrainReady: the tasks that wait for the model are not woken.
DrainReadySilently(i) ==
    /\ start[i].pc = "ok" /\ start' = [start EXCEPT ![i] = NoStart]
    /\ asks' = Answered(i)
    /\ UNCHANGED <<task, demand, limit, inst, auto, cancelled, gen, proc, leases, stop, upkeep, msgs,
                   found, faults, calls>>

\* _drain_llm_control_futures: a start has ended.
DrainReady(i) ==
    /\ start[i].pc = "ok" /\ start' = [start EXCEPT ![i] = NoStart]
    /\ task' = Woken(ModelOf[i]) /\ asks' = Answered(i)
    /\ UNCHANGED <<demand, limit, inst, auto, cancelled, gen, proc, leases, stop, upkeep, msgs, found,
                   faults, calls>>

DrainRetry(i) ==
    /\ start[i].pc = "failed" /\ start[i].again
    /\ start' = [start EXCEPT ![i] = [NoStart EXCEPT !.pc = "sent", !.auto = start[i].auto,
                                                     !.attempt = 2]]
    /\ auto' = IF start[i].auto THEN auto \cup {i} ELSE auto
    /\ msgs' = Append(msgs, Message("start", i))
    /\ UNCHANGED <<task, demand, limit, inst, cancelled, gen, proc, leases, stop, asks, upkeep, found,
                   faults, calls>>

DrainFailed(i) ==
    /\ start[i].pc = "failed" /\ ~start[i].again
    /\ start' = [start EXCEPT ![i] = NoStart] /\ asks' = Answered(i)
    /\ IF start[i].auto /\ ~start[i].orphan THEN FailWaiters(i) ELSE UNCHANGED <<task, demand, msgs>>
    /\ UNCHANGED <<limit, inst, auto, cancelled, gen, proc, leases, stop, upkeep, found, faults, calls>>

\* A start that never ran: its lease goes back here.
DrainCancelled(i) ==
    /\ start[i].pc = "cancelled"
    /\ Undeployed(i) /\ cancelled' = cancelled \ {i}
    /\ start' = [start EXCEPT ![i] = NoStart] /\ asks' = Answered(i)
    /\ IF start[i].auto /\ ~start[i].orphan THEN FailWaiters(i) ELSE UNCHANGED <<task, demand, msgs>>
    /\ UNCHANGED <<limit, inst, gen, proc, stop, upkeep, found, faults, calls>>

\* ... and a stop has: all requests that joined it are answered.
DrainStop(i) ==
    /\ \E w \in asks[i] :
          /\ Over(i, w) /\ asks' = [asks EXCEPT ![i] = @ \ {w}]
          /\ stop' = IF w = "shared" /\ upkeep[i] # "none" THEN stop
                     ELSE [stop EXCEPT ![i][w] = NoStop]
    /\ UNCHANGED <<task, demand, limit, inst, auto, cancelled, gen, proc, leases, start, upkeep, msgs,
                   found, faults, calls>>
-------------------------------------------------------------------------------
(* The supervisor. *)

upVars == <<task, demand, limit, auto, cancelled, gen, proc, leases, start, asks>>

\* Mutant of StillIdle: the list of candidates is trusted.
AsSeen(i) == inst[i].state = "ready"

\* claim_lru_scale_in: the list of idle instances was made before, so it looks
\* again, under the lock it takes the instance out of routing with.  The idle time
\* is longer than a task needs that was woken for the instance.
StillIdle(i) == Idle(i)

ClaimIdle(i) ==
    /\ StillIdle(i) /\ upkeep[i] = "none" /\ Demanded(ModelOf[i]) = {}
    /\ inst' = Claimed(i) /\ upkeep' = [upkeep EXCEPT ![i] = "idle"] /\ stop' = SharedJob(i)
    /\ UNCHANGED upVars /\ UNCHANGED <<msgs, found, faults, calls>>

\* runtime_cleanup_candidates: one instance after another is asked for its
\* health, which may also fail for a server that runs.
Probe(i) ==
    /\ i \notin found
    /\ \/ inst[i].state = "cleanup_pending" /\ NoFault /\ UNCHANGED inst
       \/ /\ inst[i].state = "ready" /\ inst' = [inst EXCEPT ![i].state = "unhealthy"]
          /\ IF proc[i] = "server" THEN Fault(i) ELSE NoFault
    /\ found' = found \cup {i}
    /\ UNCHANGED upVars /\ UNCHANGED <<stop, upkeep, msgs, calls>>

\* _drain_llm_maintenance_futures: the candidates are handed to jobs, one after
\* the other, and what these have done is noted.
ProbeEnd ==
    /\ found # {}
    /\ upkeep' = [i \in Ids |-> IF i \in found /\ upkeep[i] = "none" THEN "failed" ELSE upkeep[i]]
    /\ stop' = [i \in Ids |-> IF i \in found /\ upkeep[i] = "none" /\ stop[i]["shared"].pc = "idle"
                              THEN [stop[i] EXCEPT !["shared"].pc = "enter"] ELSE stop[i]]
    /\ found' = {}
    /\ UNCHANGED upVars /\ UNCHANGED <<inst, msgs, faults, calls>>

DrainUpkeep(i) ==
    /\ upkeep[i] # "none" /\ Over(i, "shared")
    /\ upkeep' = [upkeep EXCEPT ![i] = "none"]
    /\ stop' = IF "shared" \in asks[i] THEN stop ELSE [stop EXCEPT ![i]["shared"] = NoStop]
    /\ UNCHANGED upVars /\ UNCHANGED <<inst, msgs, found, faults, calls>>

\* An id nothing mentions: the next uuid.
Free(i) ==
    /\ start[i].pc = "none" /\ inst[i].state = "none" /\ proc[i] = "none" /\ i \notin auto
    /\ \A w \in Workers : stop[i][w].pc = "idle"
    /\ gen[i] = NoGen
    /\ {<<i, 1>>, <<i, 2>>} \cap leases = {} /\ upkeep[i] = "none"
    /\ i \notin found /\ \A k \in 1..Len(msgs) : msgs[k].id # i
    /\ \A t \in Tasks : task[t].on # i

Begun(i, automatic) ==
    /\ start' = [start EXCEPT ![i] = [NoStart EXCEPT !.pc = "sent", !.auto = automatic]]
    /\ msgs' = Append(msgs, Message("start", i))
    /\ cancelled' = cancelled \ {i}

\* Mutant of Short: a start in progress is not counted.
ShortOfReady(m) ==
    LET active == Cardinality({i \in Ids : ModelOf[i] = m /\ inst[i].state = "ready"})
    IN  active = 0 \/ Cardinality(Demanded(m)) >= active

\* scale_out_recommendations with a threshold of one request per instance.
Short(m) ==
    LET active    == Cardinality({i \in Ids : ModelOf[i] = m /\ inst[i].state = "ready"})
        deploying == Cardinality({i \in auto : ModelOf[i] = m})
        wanted    == Cardinality(Demanded(m))
    IN  \/ active + deploying = 0
        \/ wanted > active + deploying
        \/ wanted = active /\ deploying = 0

ScaleOut(m) ==
    /\ Demanded(m) # {} /\ Short(m)
    /\ \E i \in Ids : /\ ModelOf[i] = m /\ Free(i)
                       /\ Begun(i, TRUE) /\ auto' = auto \cup {i}
    /\ UNCHANGED <<task, demand, limit, inst, gen, proc, leases, stop, asks, upkeep, found, faults,
                   calls>>

\* prepare_memory_recovery, for a task that ran out of memory in the server: its
\* neighbours go on, one at a time from now on, or the instance is replaced.
\* There is room in the queue of recoveries.
RunOutOfMemory(t) ==
    LET i     == task[t].on
        m     == task[t].model
        freed == Released(i)
        Now(place) == task' = [Woken(m) EXCEPT ![t].place = place] /\ UNCHANGED <<demand, msgs>>
        Fails == task' = [Woken(m) EXCEPT ![t] = Done(t)] /\ ClearDemand({t})
    IN  /\ task[t].place = "routed" /\ proc[i] = "server" /\ Fault(i)
        /\ \/ /\ inst[i].state # "ready"
              /\ inst' = freed /\ Fails /\ UNCHANGED <<limit, stop>>
           \/ /\ inst[i].state = "ready" /\ freed[i].inflight > 0
              /\ inst' = freed /\ limit' = [limit EXCEPT ![m] = 1]
              /\ Now("admission") /\ UNCHANGED stop
           \/ /\ inst[i].state = "ready" /\ freed[i].inflight = 0
              /\ inst' = [freed EXCEPT ![i].state = "draining"]
              /\ Now("recovering") /\ stop' = [stop EXCEPT ![i]["recovery"].pc = "enter"]
              /\ UNCHANGED limit
    /\ UNCHANGED <<auto, cancelled, gen, proc, leases, start, asks, upkeep, found, calls>>

\* _drain_resource_recoveries: the task is tried again once the instance is
\* gone or, wait_for_admission, has room.
Recovered(t) ==
    LET i == task[t].on
        again == task' = [task EXCEPT ![t].place = "ready", ![t].on = NoId]
    IN  /\ \/ /\ task[t].place = "recovering" /\ Over(i, "recovery")
              /\ stop' = [stop EXCEPT ![i]["recovery"] = NoStop]
              /\ IF stop[i]["recovery"].pc = "ok" THEN again /\ UNCHANGED <<demand, msgs>>
                 ELSE task' = [task EXCEPT ![t] = Done(t)] /\ ClearDemand({t})
           \/ /\ task[t].place = "admission" /\ inst[i].inflight < limit[task[t].model]
              /\ again /\ UNCHANGED <<stop, demand, msgs>>
        /\ UNCHANGED <<limit, inst, auto, cancelled, gen, proc, leases, start, asks, upkeep, found,
                       faults, calls>>
-------------------------------------------------------------------------------
(* The user and the world. *)

StartInstance(i) ==
    /\ i \in Watched /\ Free(i) /\ calls < MaxCalls /\ calls' = calls + 1
    /\ Begun(i, FALSE)
    /\ UNCHANGED <<task, demand, limit, inst, auto, gen, proc, leases, stop, asks, upkeep, found,
                   faults>>

\* The user knows an instance that is starting or registered.
StopInstance(i) ==
    /\ i \in Watched /\ (Pending(i) \/ inst[i].state # "none") /\ calls < MaxCalls /\ calls' = calls + 1
    /\ msgs' = Append(msgs, Message("stop", i))
    /\ UNCHANGED <<task, demand, limit, inst, auto, cancelled, gen, proc, leases, start, stop, asks,
                   upkeep, found, faults>>

ServerExits(i) ==
    /\ proc[i] = "server" /\ Fault(i) /\ proc' = [proc EXCEPT ![i] = "exited"]
    /\ UNCHANGED <<task, demand, limit, inst, auto, cancelled, gen, leases, start, stop, asks, upkeep,
                   msgs, found, calls>>
-------------------------------------------------------------------------------

StopStep(i) ==
    \E w \in Workers : Enter(i, w) \/ Stopped(i, w) \/ StopFails(i, w) \/ WaitOver(i, w) \/ Finalize(i, w)

StartStep(i) ==
    \/ Admit(i) \/ SubmitCreation(i) \/ Attach(i) \/ AwaitTimeout(i) \/ AwaitOver(i)
    \/ Launch(i) \/ Verify(i) \/ Withdraw(i) \/ Undone(i) \/ Rollback(i) \/ Finally(i)

CreationStep(i) == CreateBegin(i) \/ CreateEnd(i) \/ CreationFinished(i)

Drain(i) == \/ DrainReady(i) \/ DrainRetry(i) \/ DrainFailed(i) \/ DrainCancelled(i) \/ DrainStop(i)

Queue == QueueStart \/ QueueStop \/ QueueOrphan

Probing == (\E i \in Ids : Probe(i)) \/ ProbeEnd

Next ==
    \/ \E t \in Tasks : \/ Route(t) \/ EndTask(t) \/ StopWorkflow(t)
                        \/ RunOutOfMemory(t) \/ Recovered(t)
    \/ \E i \in Ids : \/ StopStep(i) \/ StartStep(i) \/ CreationStep(i) \/ LateKill(i)
                      \/ Deferred(i) \/ Drain(i) \/ ClaimIdle(i) \/ DrainUpkeep(i)
                      \/ StartInstance(i) \/ StopInstance(i) \/ ServerExits(i)
    \/ \E m \in Models : ScaleOut(m)
    \/ Queue \/ Probing

Spec == Init /\ [][Next]_vars

\* Each thread goes on.  Attempts end, as SchedulerCore shows; a call that never
\* returns is given up at its deadline, and then the health probe comes again.
Fairness ==
    /\ \A t \in Tasks : WF_vars(Route(t)) /\ WF_vars(EndTask(t)) /\ WF_vars(Recovered(t))
    /\ \A i \in Ids : /\ WF_vars(StartStep(i)) /\ WF_vars(CreationStep(i)) /\ WF_vars(LateKill(i))
                      /\ WF_vars(Deferred(i)) /\ WF_vars(Drain(i)) /\ WF_vars(DrainUpkeep(i))
                      /\ \A w \in Workers : WF_vars(Enter(i, w) \/ Stopped(i, w) \/ WaitOver(i, w)
                                                     \/ Finalize(i, w))
    /\ \A m \in Models : WF_vars(ScaleOut(m))
    /\ WF_vars(Queue) /\ WF_vars(Probing)

FairSpec == Spec /\ Fairness
-------------------------------------------------------------------------------
(* Properties. *)

Server(i) == proc[i] \in {"server", "left"}

\* A model server that may still run holds a lease of its GPU: the lease goes
\* back after the cleanup was confirmed, whichever of the threads that stop,
\* roll back and finalize the instance gives it back.
ServerLeased == \A i \in Ids : Server(i) => \E a \in {1, 2} : <<i, a>> \in leases

\* What is stopped for being idle serves no task: none was routed to it between
\* the look at the instances, the claim and the end of the stop.
InUseKept ==
    \A i \in Ids : upkeep[i] = "idle" => \A t \in Tasks : ~(task[t].place = "routed" /\ task[t].on = i)

Busy(i, pcs) == \E w \in Workers : stop[i][w].pc \in pcs

\* An instance out of routing is in somebody's hands: a thread that has to
\* stop or to finalize it, or the next health probe.
NoneAbandoned ==
    \A i \in Ids :
        CASE inst[i].state = "stopping" -> IF inst[i].claim THEN Busy(i, {"enter"}) ELSE Busy(i, {"owner"})
          [] inst[i].state = "unhealthy" -> Busy(i, {"enter"}) \/ i \in found
          [] inst[i].state = "draining" -> Busy(i, {"enter"})
          [] inst[i].state = "stopped" -> Busy(i, {"finalize"}) \/ start[i].pc \in {"undo", "rollback"}
          [] inst[i].state = "launching" -> start[i].pc \in {"launch", "verify", "undo"}
          [] OTHER -> TRUE

\* An actor that lives unregistered holds a cleanup slot, so that there are never
\* more of them than slots.
LateHeld == \A i \in Ids : proc[i] = "actor" /\ inst[i].state = "none" => gen[i].slot

\* An actor that came too late is killed: as long as it lives it holds its slot, and
\* a slot is given back in the end.
LateActorsDie == /\ []LateHeld
                 /\ \A i \in Ids : gen[i].slot ~> ~gen[i].slot

\* Everybody who waits is served: a task that waits for a model is routed, or it
\* fails, for on one GPU the idle instance of another model makes room for it; and
\* every request to stop an instance is answered.
DemandServed ==
    /\ \A t \in Tasks : task[t].place = "waiting" ~> task[t].place \notin {"waiting", "ready"}
    /\ \A i \in Ids : asks[i] # {} ~> asks[i] = {}
===============================================================================
