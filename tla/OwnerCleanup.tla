---------------------------- MODULE OwnerCleanup ----------------------------
(* The end of a Scheduler and of the model servers it owns: launch_server and the
   owner cleanup of scheduler/llm_instance.py, Scheduler._cleanup, MaPath.cleanup.
   A server is a process in a session of its own: it outlives its actor, the
   Scheduler, and Ray on its node.  Nodes are hosts: a node that rejoins Ray is
   known by its address. *)
EXTENDS Naturals, FiniteSets

CONSTANTS Instances, Nodes, NoNode,
          CoreNode,               \* the node of the Core
          MaxLost, MaxCleanups    \* bounds: nodes that Ray loses, calls of cleanup

VARIABLES
    inst,       \* node, job of the start, actor, server, registration
    up,         \* nodes that Ray has alive
    closed,     \* nodes whose owner file says "closed"
    sched,      \* where the Scheduler is: running, joining, ... ended
    producing,  \* whether its llm_instance thread still runs
    stopped,    \* what its cleanup could confirm: producers, registered instances
    tasks,      \* of the owner cleanup, by node
    event,      \* owner_cleanup_complete_event
    ray,        \* whether the Ray runtime runs
    path,       \* where MaPath is: serving, joining, sweeping, ray, local, done
    lost, cleanups   \* counts for the bounds

vars == <<inst, up, closed, sched, producing, stopped, tasks, event, ray, path, lost, cleanups>>
clusterVars == <<up, closed, lost>>
cleanupVars == <<tasks, event, ray>>
schedulerVars == <<sched, producing, stopped>>
pathVars == <<path, cleanups>>

NoInstance == [node |-> NoNode, job |-> "none", actor |-> "none", server |-> "none", kept |-> "no"]
NoTasks == [n \in Nodes |-> "off"]

Init ==
    /\ inst = [i \in Instances |-> NoInstance]
    /\ up = Nodes /\ closed = {} /\ lost = 0
    /\ sched = "running" /\ producing = TRUE /\ stopped = [producers |-> FALSE, instances |-> FALSE]
    /\ tasks = NoTasks /\ event = FALSE /\ ray = TRUE
    /\ path = "serving" /\ cleanups = 0

On(n) == {i \in Instances : inst[i].node = n}
Expected == {inst[i].node : i \in Instances} \ {NoNode}
-----------------------------------------------------------------------------
(* A start. *)

\* _record_llm_owner_node, before the start is queued: the Core is told as well.
Record(i, n) ==
    /\ producing /\ sched # "ended" /\ n \in up /\ inst[i].job = "none"
    /\ inst' = [inst EXCEPT ![i].node = n, ![i].job = "queued"]
    /\ UNCHANGED <<clusterVars, cleanupVars, schedulerVars, pathVars>>

Accepting == sched \in {"running", "joining", "closing"}

\* start_llm_instance: admission, the actor is asked for.
Admit(i) ==
    /\ inst[i].job = "queued" /\ sched # "ended"
    /\ inst' = [inst EXCEPT ![i] =
           IF Accepting THEN [@ EXCEPT !.job = "creating", !.actor = "creating"]
           ELSE [@ EXCEPT !.job = "done"]]
    /\ UNCHANGED <<clusterVars, cleanupVars, schedulerVars, pathVars>>

\* The actor is there: it is registered and told to launch, or it is late.
Created(i) ==
    /\ inst[i].actor = "creating" /\ sched # "ended"
    /\ inst' = [inst EXCEPT ![i] =
           IF inst[i].job = "creating" /\ Accepting
           THEN [@ EXCEPT !.job = "launching", !.actor = "up", !.kept = "yes"]
           ELSE [@ EXCEPT !.job = "done", !.actor = "out"]]
    /\ UNCHANGED <<clusterVars, cleanupVars, schedulerVars, pathVars>>

\* The start ends: launched, timed out, or cancelled by begin_shutdown.
StartOver(i) ==
    /\ sched # "ended"
    /\ inst[i].job = "launching" \/ (inst[i].job = "creating" /\ ~Accepting)
    /\ inst' = [inst EXCEPT ![i].job = "done"]
    /\ UNCHANGED <<clusterVars, cleanupVars, schedulerVars, pathVars>>

\* Mutant of Holders: the launcher does not keep the lock of its actor.
HoldersActors(n) == {i \in On(n) : inst[i].actor = "guarded"}

\* flock on the owner file: of the actor in its guard, and of the process it has
\* forked until the launcher closes its descriptor.
Holders(n) == {i \in On(n) : inst[i].actor = "guarded" \/ inst[i].server \in {"forked", "launcher"}}

\* _owner_launch_guard
Guard(i) ==
    /\ inst[i].actor = "up" /\ Holders(inst[i].node) = {}
    /\ inst' = [inst EXCEPT ![i].actor = IF inst[i].node \in closed THEN "out" ELSE "guarded"]
    /\ UNCHANGED <<clusterVars, cleanupVars, schedulerVars, pathVars>>

\* _launch_model_subprocess; until its first exec the child has the environment of
\* the actor, without the marks.
Fork(i) ==
    /\ inst[i].actor = "guarded" /\ inst[i].server = "none"
    /\ inst' = [inst EXCEPT ![i].server = "forked"]
    /\ UNCHANGED <<clusterVars, cleanupVars, schedulerVars, pathVars>>

\* build_model_env: the launcher has the marks of owner and generation ...
Mark(i) ==
    /\ inst[i].server = "forked" /\ inst' = [inst EXCEPT ![i].server = "launcher"]
    /\ UNCHANGED <<clusterVars, cleanupVars, schedulerVars, pathVars>>

\* ... closes the lock and becomes the server.
Exec(i) ==
    /\ inst[i].server = "launcher" /\ inst' = [inst EXCEPT ![i].server = "serving"]
    /\ UNCHANGED <<clusterVars, cleanupVars, schedulerVars, pathVars>>

\* The end of launch_server.
Launched(i) ==
    /\ inst[i].actor = "guarded" /\ inst[i].server \notin {"none", "forked"}
    /\ inst' = [inst EXCEPT ![i].actor = "out"]
    /\ UNCHANGED <<clusterVars, cleanupVars, schedulerVars, pathVars>>

Living == {"creating", "up", "guarded", "out"}

\* Ray ends the actors of a driver that is gone, and of a node that is lost.
ActorDies(i) ==
    /\ inst[i].actor \in Living
    /\ sched = "ended" \/ inst[i].node \notin up
    /\ inst' = [inst EXCEPT ![i].actor = "dead"]
    /\ UNCHANGED <<clusterVars, cleanupVars, schedulerVars, pathVars>>

NodeLost(n) ==
    /\ n \in up \ {CoreNode} /\ lost < MaxLost /\ lost' = lost + 1 /\ up' = up \ {n}
    /\ UNCHANGED <<inst, closed, cleanupVars, schedulerVars, pathVars>>

\* With another node id, and the same address and files.
NodeBack(n) ==
    /\ n \in Nodes \ up /\ \A i \in On(n) : inst[i].actor \notin Living
    /\ up' = up \cup {n}
    /\ UNCHANGED <<inst, closed, lost, cleanupVars, schedulerVars, pathVars>>
-----------------------------------------------------------------------------
(* Processes are found by the marks in their environment. *)

Marked(i) == inst[i].server \in {"launcher", "serving"}

\* _stop_marked_process_groups on the instances of a set.
Killed(set) ==
    [i \in Instances |-> IF i \in set /\ Marked(i) THEN [inst[i] EXCEPT !.server = "dead"] ELSE inst[i]]

\* _close_owner_launches_locally: waits until no launch is under way.
Close(n) ==
    /\ tasks[n] = "closing" /\ n \in up /\ Holders(n) = {}
    /\ closed' = closed \cup {n} /\ tasks' = [tasks EXCEPT ![n] = "killing"]
    /\ UNCHANGED <<inst, up, lost, event, ray, schedulerVars, pathVars>>

\* stop_llm_owner_processes_locally, after that.
KillAll(n) ==
    /\ tasks[n] = "killing" /\ n \in up
    /\ inst' = Killed(On(n)) /\ tasks' = [tasks EXCEPT ![n] = "ok"]
    /\ UNCHANGED <<clusterVars, event, ray, schedulerVars, pathVars>>

\* A deadline, a process that does not stop, a task that Ray loses.
TaskFails(n) ==
    /\ tasks[n] \in {"closing", "killing"} /\ tasks' = [tasks EXCEPT ![n] = "failed"]
    /\ UNCHANGED <<inst, clusterVars, event, ray, schedulerVars, pathVars>>

\* _stop_llm_owner_processes_on_cluster_control: a task for each node alive, and
\* none if a node on which something was started is not.
Begun == IF Expected \subseteq up /\ ray THEN [n \in Nodes |-> IF n \in up THEN "closing" ELSE "off"]
         ELSE [n \in Nodes |-> "failed"]

Over == \A n \in Nodes : tasks[n] \notin {"closing", "killing"}
Clean == \A n \in Nodes : tasks[n] \in {"off", "ok"}
-----------------------------------------------------------------------------
(* Scheduler._cleanup *)

\* A shutdown message, or a fatal error.
Stop ==
    /\ sched = "running" /\ sched' = "joining"
    /\ UNCHANGED <<inst, clusterVars, producing, stopped, cleanupVars, pathVars>>

ProducerEnds ==
    /\ sched \notin {"running", "ended"} /\ producing /\ producing' = FALSE
    /\ UNCHANGED <<inst, clusterVars, sched, stopped, cleanupVars, pathVars>>

\* _join_scheduler_producers, within its deadline or not.
Join ==
    /\ sched = "joining" /\ sched' = "closing" /\ stopped' = [stopped EXCEPT !.producers = ~producing]
    /\ UNCHANGED <<inst, clusterVars, producing, cleanupVars, pathVars>>

\* begin_shutdown, and the starts that are still queued are cancelled.
BeginShutdown ==
    /\ sched = "closing" /\ sched' = "executors"
    /\ inst' = [i \in Instances |-> IF inst[i].job = "queued" THEN [inst[i] EXCEPT !.job = "done"]
                                    ELSE inst[i]]
    /\ UNCHANGED <<clusterVars, producing, stopped, cleanupVars, pathVars>>

Idle == \A i \in Instances : inst[i].job \in {"none", "done"}

\* stop_owned_llm_processes: nothing to do if nothing was started.
Owned == IF Expected = {} THEN NoTasks ELSE Begun

\* _shutdown_llm_executors: the registered instances are stopped only once nothing
\* else can change them.
Executors ==
    /\ sched = "executors"
    /\ IF stopped.producers /\ Idle
       THEN sched' = "instances" /\ UNCHANGED tasks
       ELSE sched' = "owner" /\ tasks' = Owned
    /\ UNCHANGED <<inst, clusterVars, producing, stopped, event, ray, pathVars>>

\* _stop_instance_control_transaction: the actor is stopped and killed ...
StopActor(i, confirmed) ==
    /\ sched = "instances" /\ inst[i].kept = "yes"
    /\ inst' = [inst EXCEPT ![i].kept = IF confirmed THEN "killed" ELSE "alive",
                            ![i].actor = IF confirmed THEN "dead" ELSE @]
    /\ UNCHANGED <<clusterVars, cleanupVars, schedulerVars, pathVars>>

\* ... and the processes of its generation are, by a task on the node.
StopProcesses(i) ==
    /\ sched = "instances" /\ inst[i].kept \in {"killed", "alive"}
    /\ inst' = IF inst[i].node \in up
               THEN [Killed({i}) EXCEPT ![i].kept = IF inst[i].kept = "killed" THEN "no" ELSE "failed"]
               ELSE [inst EXCEPT ![i].kept = "failed"]
    /\ UNCHANGED <<clusterVars, cleanupVars, schedulerVars, pathVars>>

\* stop_all_llm_instances is done; the owner cleanup follows.
InstancesStopped ==
    /\ sched = "instances" /\ \A i \in Instances : inst[i].kept \in {"no", "failed"}
    /\ sched' = "owner"
    /\ stopped' = [stopped EXCEPT !.instances = \A i \in Instances : inst[i].kept = "no"]
    /\ tasks' = Owned
    /\ UNCHANGED <<inst, clusterVars, producing, event, ray, pathVars>>

\* The event, Ray, and the end of the process.
Exit ==
    /\ sched = "owner" /\ Over /\ sched' = "ended" /\ tasks' = NoTasks
    /\ event' = (stopped.producers /\ stopped.instances /\ Clean)
    /\ ray' \in IF event' THEN {FALSE, ray} ELSE {ray}
    /\ UNCHANGED <<inst, clusterVars, producing, stopped, pathVars>>

\* It crashes, or is killed by the Core: _stop_scheduler_process.
Die ==
    /\ sched # "ended" /\ sched' = "ended" /\ tasks' = NoTasks
    /\ UNCHANGED <<inst, clusterVars, producing, stopped, event, ray, pathVars>>
-----------------------------------------------------------------------------
(* MaPath.cleanup, which a caller may repeat until it returns TRUE. *)

\* request_scheduler_shutdown
Cleanup ==
    /\ path = "serving" /\ cleanups < MaxCleanups /\ cleanups' = cleanups + 1 /\ path' = "joining"
    /\ sched' = IF sched = "running" THEN "joining" ELSE sched
    /\ UNCHANGED <<inst, clusterVars, producing, stopped, cleanupVars>>

\* The Scheduler is gone: _stop_local_ray_best_effort.
Joined ==
    /\ path = "joining" /\ sched = "ended"
    /\ IF event THEN path' = "ray" /\ UNCHANGED tasks ELSE path' = "sweeping" /\ tasks' = Begun
    /\ UNCHANGED <<inst, clusterVars, schedulerVars, event, ray, cleanups>>

\* _stop_owned_llm_processes_via_ray_best_effort
Swept ==
    /\ path = "sweeping" /\ Over /\ path' = "ray" /\ event' = Clean /\ tasks' = NoTasks
    /\ UNCHANGED <<inst, clusterVars, schedulerVars, ray, cleanups>>

\* stop_ray_runtime, only after the owner cleanup.
StopRay ==
    /\ path = "ray" /\ path' = "local" /\ tasks' = [NoTasks EXCEPT ![CoreNode] = "closing"]
    /\ ray' \in IF event THEN {FALSE, ray} ELSE {ray}
    /\ UNCHANGED <<inst, clusterVars, schedulerVars, event, cleanups>>

\* The result of cleanup.
Report ==
    /\ path = "local" /\ Over /\ tasks' = NoTasks
    /\ path' = IF event /\ ~ray /\ Clean THEN "done" ELSE "serving"
    /\ UNCHANGED <<inst, clusterVars, schedulerVars, event, ray, cleanups>>
-----------------------------------------------------------------------------

Next ==
    \/ \E i \in Instances :
           \/ \E n \in Nodes : Record(i, n)
           \/ Admit(i) \/ Created(i) \/ StartOver(i) \/ Guard(i) \/ Fork(i) \/ Mark(i) \/ Exec(i)
           \/ Launched(i) \/ ActorDies(i) \/ StopProcesses(i)
           \/ \E confirmed \in BOOLEAN : StopActor(i, confirmed)
    \/ \E n \in Nodes :
           NodeLost(n) \/ NodeBack(n) \/ Close(n) \/ KillAll(n) \/ TaskFails(n)
    \/ Stop \/ ProducerEnds \/ Join \/ BeginShutdown \/ Executors \/ InstancesStopped \/ Exit \/ Die
    \/ Cleanup \/ Joined \/ Swept \/ StopRay \/ Report

Spec == Init /\ [][Next]_vars
-----------------------------------------------------------------------------
(* Properties. *)

\* Once the owner cleanup is reported as complete, by the Scheduler or by the Core,
\* no process of the owner is left on any node and none appears any more, whatever
\* starts, late actors, crashes and lost nodes there were; Ray, without which no
\* other node can be cleaned, is stopped only then, and the last word of cleanup
\* stands for both.
OwnerStopped ==
    /\ event => \A i \in Instances : inst[i].server \in {"none", "dead"}
    /\ ray \/ event
    /\ path = "done" => event /\ ~ray
=============================================================================
