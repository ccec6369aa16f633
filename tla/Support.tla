------------------------------ MODULE Support ------------------------------
(* The components that do not meet, for any values of their parameters: the order of
   the queues, the files of tasks, the submission of a DAG, repairs after a failure and
   the end of a Scheduler.  A behaviour is one of the module its part names; the
   variables of the others keep their initial values. *)
CONSTANTS
    None,           \* no task, actor, node or blob
    Runs,           \* of ArtifactFiles and MemoryRepair
    Nodes,          \* of MemoryRepair and OwnerCleanup
    QueueTasks, Actors, Need, Slots, Threshold, Target, MaxRetries,     \* of DispatchOrder
    FileTasks, Blobs, RunOf, Parents, Initial, Fresh, MaxTries,         \* of ArtifactFiles
    Members, Inputs, MaxEdges, MaxInputs,                               \* of DagSubmission
    Size, Declared, Limit, Pinned, Capacity, Needs, RetryOn, Retries,   \* of MemoryRepair
    Servers, CoreNode, MaxLost, MaxCleanups                             \* of OwnerCleanup

VARIABLES
    part,
    place, order, age, backoff, retries, parked, head, known, pool, busy, lease,
    live, row, grants, files, opened, uploaded, core, dispatch, tries, work, published,
    draft, first, definition, params, answer, state, sent, started, finished,
    profiles, counted, channel, phase, task, repair, trace,
    inst, up, closed, sched, producing, stopped, tasks, event, ray, path, lost, cleanups

ovars == <<place, order, age, backoff, retries, parked, head, known, pool, busy, lease>>
avars == <<live, row, grants, files, opened, uploaded, core, dispatch, tries, work, published>>
dvars == <<draft, first, definition, params, answer, state, sent, started, finished>>
mvars == <<profiles, counted, channel, phase, task, repair, trace>>
cvars == <<inst, up, closed, sched, producing, stopped, tasks, event, ray, path, lost, cleanups>>
svars == <<part, ovars, avars, dvars, mvars, cvars>>

Order   == INSTANCE DispatchOrder WITH Tasks <- QueueTasks, NoTask <- None, NoActor <- None
Files   == INSTANCE ArtifactFiles WITH Tasks <- FileTasks, NoTask <- None, NoBlob <- None
Dag     == INSTANCE DagSubmission WITH Nodes <- Members, NoNode <- None, Slots <- Inputs
Repairs == INSTANCE MemoryRepair WITH NoNode <- None, MaxRetries <- Retries
Owner   == INSTANCE OwnerCleanup WITH Instances <- Servers, NoNode <- None

\* The parameters are such as a program can have.
ASSUME ParametersAssumption ==
    Order!Parameters /\ Files!Parameters /\ Dag!Parameters /\ Repairs!Parameters

Init ==
    /\ part \in {"order", "artifacts", "dag", "repairs", "owner"}
    /\ Order!Init /\ Files!Init /\ Dag!Init /\ Repairs!Init /\ Owner!Init

Next ==
    \/ part = "order" /\ Order!Next /\ UNCHANGED <<part, avars, dvars, mvars, cvars>>
    \/ part = "artifacts" /\ Files!Next /\ UNCHANGED <<part, ovars, dvars, mvars, cvars>>
    \/ part = "dag" /\ Dag!Next /\ UNCHANGED <<part, ovars, avars, mvars, cvars>>
    \/ part = "repairs" /\ Repairs!Next /\ UNCHANGED <<part, ovars, avars, dvars, cvars>>
    \/ part = "owner" /\ Owner!Next /\ UNCHANGED <<part, ovars, avars, dvars, mvars>>

\* See DispatchOrder; the safety of the others needs none.
Fairness == part = "order" => Order!Fairness

Spec == Init /\ [][Next]_svars /\ Fairness
-----------------------------------------------------------------------------
\* DispatchOrder: see WorkersExact there.
WorkersExact == part = "order" => Order!WorkersExact

\* DispatchOrder: see EveryTaskRuns there.
EveryTaskRuns == part = "order" => Order!EveryTaskRuns

\* ArtifactFiles: see ArtifactsSafe there.
ArtifactsSafe == part = "artifacts" => Files!ArtifactsSafe

\* DagSubmission: see DagSound there.
DagSound == part = "dag" => Dag!DagSound

\* MemoryRepair: see RepairsSound there.
RepairsSound == part = "repairs" => Repairs!RepairsSound

\* OwnerCleanup: see OwnerStopped there.
OwnerStopped == part = "owner" => Owner!OwnerStopped
=============================================================================
