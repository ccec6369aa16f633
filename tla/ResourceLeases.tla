---------------------------- MODULE ResourceLeases ----------------------------
(***************************************************************************)
(* The Scheduler's resource bookkeeping: ResourceManager                   *)
(* (src/maze/core/scheduler/resource.py) with the DAGContextManager it     *)
(* owns (dag_context.py).  Nodes of the Ray cluster register their         *)
(* capacity, tasks and model instances reserve parts of it under leases,   *)
(* and every workflow keeps an affinity to the node that first ran it.     *)
(*                                                                         *)
(* Every method of ResourceManager runs under the Scheduler's lock, so one *)
(* call is one action.  cpu stands for both scalar resources (cpu and      *)
(* cpu_mem follow the same arithmetic).  A lease outlives the registration *)
(* of its node: nothing but ReleaseLease removes it.                       *)
(***************************************************************************)
EXTENDS Integers, FiniteSets

CONSTANTS
    Nodes,      \* Ray node ids
    HeadNode,   \* the node of the Maze head, registered by init()
    Hosts,      \* IP addresses
    HostOf,     \* the address of each node: [Nodes -> Hosts]
    Gpus,       \* device indexes
    Leases,     \* lease ids
    Workflows,  \* workflow (run) ids
    Needs,      \* requests: the resources argument of select_node
    Reports,    \* capacities a node may report when it registers
    NoNode, NoGpu, NoLease

Request  == [cpu : Nat, gpu : 0..1, mem : Nat]
Capacity == [cpu : Nat, dev : SUBSET Gpus, mem : [Gpus -> Nat]]

ASSUME NodesAssumption ==
    /\ IsFiniteSet(Nodes) /\ HeadNode \in Nodes /\ NoNode \notin Nodes
    /\ HostOf \in [Nodes -> Hosts]
ASSUME GpusAssumption == Gpus \subseteq Nat /\ NoGpu \notin Gpus
ASSUME DemandAssumption == Needs \subseteq Request /\ Reports \subseteq Capacity
ASSUME IdsAssumption == IsFiniteSet(Leases) /\ IsFiniteSet(Workflows)

Kinds    == {"task", "instance"}
LeaseRec == [kind : Kinds, node : Nodes, gpu : Gpus \cup {NoGpu},
             cpu : Nat, mem : Nat]

ASSUME NullAssumption == NoLease \notin LeaseRec

VARIABLES
    ray,         \* Ray's view of every node (external)
    registered,  \* the keys of ResourceManager.nodes
    total,       \* Node.total_resources
    avail,       \* Node.available_resources; free: the devices with gpu_num = 1
    disabled,    \* disabled_node_ids
    taskCount,   \* running_task_counts (a missing key counts 0)
    lease,       \* active_leases
    prefers,     \* run2ctx: the preferred node of a workflow
    load         \* node_load_counter

vars == <<ray, registered, total, avail, disabled, taskCount, lease, prefers, load>>

Blank     == [cpu |-> 0, dev |-> {}, mem |-> [g \in Gpus |-> 0]]
BlankFree == [cpu |-> 0, free |-> {}, mem |-> [g \in Gpus |-> 0]]

TypeOK ==
    /\ ray \in [Nodes -> {"absent", "alive", "dead"}]
    /\ registered \subseteq Nodes
    /\ total \in [Nodes -> Capacity]
    /\ avail \in [Nodes -> [cpu : Nat, free : SUBSET Gpus, mem : [Gpus -> Nat]]]
    /\ disabled \subseteq Nodes
    /\ taskCount \in [Nodes -> Nat]
    /\ lease \in [Leases -> LeaseRec \cup {NoLease}]
    /\ prefers \in [Workflows -> Nodes \cup {NoNode}]
    /\ load \in [Nodes -> Nat]
-------------------------------------------------------------------------------
(* Reservations, read off the active leases. *)

Active(ls)          == {l \in Leases : ls[l] # NoLease}
LeasesOn(ls, n)     == {l \in Active(ls) : ls[l].node = n}
TaskLeasesOn(ls, n) == {l \in LeasesOn(ls, n) : ls[l].kind = "task"}
HoldersOf(ls, n, g) == {l \in LeasesOn(ls, n) : ls[l].gpu = g}

\* The sum of the amounts f[x], as the number of units <<x, i>> there are.
Sum(f) == Cardinality(UNION {{x} \X (1..f[x]) : x \in DOMAIN f})

CpuHeld(ls, n)    == Sum([l \in LeasesOn(ls, n) |-> ls[l].cpu])
MemHeld(ls, n, g) == Sum([l \in HoldersOf(ls, n, g) |-> ls[l].mem])

\* Mutant of Monus: no clamp at zero.
Unclamped(a, b) == a - b

Monus(a, b) == IF a >= b THEN a - b ELSE 0

\* _recompute_node_available_resources: capacity minus what leases reserve,
\* never below zero.
Recomputed(cap, ls, n) ==
    [cpu  |-> Monus(cap.cpu, CpuHeld(ls, n)),
     free |-> {g \in cap.dev : HoldersOf(ls, n, g) = {}},
     mem  |-> [g \in Gpus |-> Monus(cap.mem[g], MemHeld(ls, n, g))]]

Preferring(n) == {w \in Workflows : prefers[w] = n}
-------------------------------------------------------------------------------
Init ==
    /\ ray = [n \in Nodes |-> IF n = HeadNode THEN "alive" ELSE "absent"]
    /\ registered = {HeadNode}
    /\ \E cap \in Reports :
          /\ total = [n \in Nodes |-> IF n = HeadNode THEN cap ELSE Blank]
          /\ avail = [n \in Nodes |->
                        IF n = HeadNode
                        THEN [cpu |-> cap.cpu, free |-> cap.dev, mem |-> cap.mem]
                        ELSE BlankFree]
    /\ disabled = {}
    /\ taskCount = [n \in Nodes |-> 0]
    /\ lease = [l \in Leases |-> NoLease]
    /\ prefers = [w \in Workflows |-> NoNode]
    /\ load = [n \in Nodes |-> 0]

\* Ray is external: a node joins once and never comes back under its id.
RayJoin(n) ==
    /\ ray[n] = "absent"
    /\ ray' = [ray EXCEPT ![n] = "alive"]
    /\ UNCHANGED <<registered, total, avail, disabled, taskCount, lease, prefers, load>>

RayDie(n) ==
    /\ ray[n] = "alive" /\ n # HeadNode
    /\ ray' = [ray EXCEPT ![n] = "dead"]
    /\ UNCHANGED <<registered, total, avail, disabled, taskCount, lease, prefers, load>>

\* release_node_contexts for every node of D.
ReleaseNodeContexts(D) ==
    /\ prefers' = [w \in Workflows |-> IF prefers[w] \in D THEN NoNode ELSE prefers[w]]
    /\ load' = [n \in Nodes |->
                  IF n \in D THEN Monus(load[n], Cardinality(Preferring(n)))
                  ELSE load[n]]

\* Mutant of StartWorker: the reported capacity is offered whole.
StartWorkerForgetsLeases(n, cap) ==
    /\ ray[n] = "alive"
    /\ registered' = registered \cup {n}
    /\ total' = [total EXCEPT ![n] = cap]
    /\ avail' = [avail EXCEPT ![n] = [cpu |-> cap.cpu, free |-> cap.dev, mem |-> cap.mem]]
    /\ taskCount' = [taskCount EXCEPT ![n] = Cardinality(TaskLeasesOn(lease, n))]
    /\ UNCHANGED <<ray, disabled, lease, prefers, load>>

\* A heartbeat registers n again and again; each one first drops the dead
\* registrations of the same address.  The available amounts that
\* update_registration derives are overwritten by the final recomputation.
StartWorker(n, cap) ==
    LET stale == {m \in registered \ {n} : HostOf[m] = HostOf[n] /\ ray[m] # "alive"}
    IN  /\ ray[n] = "alive"
        /\ registered' = (registered \ stale) \cup {n}
        /\ total' = [m \in Nodes |-> IF m = n THEN cap
                                     ELSE IF m \in stale THEN Blank ELSE total[m]]
        /\ avail' = [m \in Nodes |-> IF m = n THEN Recomputed(cap, lease, n)
                                     ELSE IF m \in stale THEN BlankFree ELSE avail[m]]
        /\ taskCount' = [m \in Nodes |->
                           IF m = n THEN Cardinality(TaskLeasesOn(lease, n))
                           ELSE IF m \in stale THEN 0 ELSE taskCount[m]]
        /\ disabled' = disabled \ stale
        /\ ReleaseNodeContexts(stale)
        /\ UNCHANGED <<ray, lease>>

\* The supervisor forgets every registered node Ray no longer reports alive.
CheckDeadNode ==
    LET dead == {m \in registered : ray[m] # "alive"}
    IN  /\ dead # {}
        /\ registered' = registered \ dead
        /\ total' = [m \in Nodes |-> IF m \in dead THEN Blank ELSE total[m]]
        /\ avail' = [m \in Nodes |-> IF m \in dead THEN BlankFree ELSE avail[m]]
        /\ taskCount' = [m \in Nodes |-> IF m \in dead THEN 0 ELSE taskCount[m]]
        /\ disabled' = disabled \ dead
        /\ ReleaseNodeContexts(dead)
        /\ UNCHANGED <<ray, lease>>

\* Mutant of StopWorker: the contexts of the node stay.
StopWorkerKeepsContexts(n) ==
    /\ n \in registered
    /\ registered' = registered \ {n}
    /\ total' = [total EXCEPT ![n] = Blank]
    /\ avail' = [avail EXCEPT ![n] = BlankFree]
    /\ disabled' = disabled \ {n}
    /\ UNCHANGED <<ray, taskCount, lease, prefers, load>>

\* Unlike the dead-node check, stop_worker leaves running_task_counts alone.
StopWorker(n) ==
    /\ n \in registered
    /\ registered' = registered \ {n}
    /\ total' = [total EXCEPT ![n] = Blank]
    /\ avail' = [avail EXCEPT ![n] = BlankFree]
    /\ disabled' = disabled \ {n}
    /\ ReleaseNodeContexts({n})
    /\ UNCHANGED <<ray, taskCount, lease>>

SetNodeDisabled(n, off) ==
    /\ n \in registered
    /\ ~(n = HeadNode /\ off)
    /\ disabled' = IF off THEN disabled \cup {n} ELSE disabled \ {n}
    /\ UNCHANGED <<ray, registered, total, avail, taskCount, lease, prefers, load>>

\* The devices of n that can hold the request; the smallest is taken.
GpuOptions(n, need) == {g \in avail[n].free : avail[n].mem[g] >= need.mem}
Smallest(S)         == CHOOSE g \in S : \A h \in S : g <= h

\* Mutant of CanRun: the disabled mark is not looked at.
CanRunDisabled(n, need) ==
    /\ ray[n] = "alive"
    /\ avail[n].cpu >= need.cpu
    /\ need.gpu > 0 => GpuOptions(n, need) # {}

CanRun(n, need) ==
    /\ ray[n] = "alive"
    /\ n \notin disabled
    /\ avail[n].cpu >= need.cpu
    /\ need.gpu > 0 => GpuOptions(n, need) # {}

\* The order of the candidates: the workflow's preferred node, then the least
\* context load; the ties that the scheduling policy breaks are left open.  A
\* model instance has no workflow, and no preference.
Best(cands, isTask, w) ==
    IF ~isTask THEN cands
    ELSE IF prefers[w] \in cands THEN {prefers[w]}
    ELSE {n \in cands : \A m \in cands : load[n] <= load[m]}

\* select_node, when it finds a node.  eligible: the nodes that the target, the
\* avoided nodes, the required capability and the required model leave.
SelectNode(l, kind, w, need, eligible) ==
    LET isTask == kind = "task"
        cands  == {n \in registered \cap eligible : CanRun(n, need)}
    IN  /\ lease[l] = NoLease
        /\ \E n \in Best(cands, isTask, w) :
            LET g == IF need.gpu > 0 THEN Smallest(GpuOptions(n, need)) ELSE NoGpu
                new == isTask /\ prefers[w] = NoNode
            IN  /\ avail' = [avail EXCEPT ![n] =
                      [cpu  |-> @.cpu - need.cpu,
                       free |-> @.free \ {g},
                       mem  |-> [h \in Gpus |->
                                   IF h = g THEN @.mem[h] - need.mem ELSE @.mem[h]]]]
                /\ taskCount' = [taskCount EXCEPT ![n] = IF isTask THEN @ + 1 ELSE @]
                /\ prefers' = IF new THEN [prefers EXCEPT ![w] = n] ELSE prefers
                /\ load' = IF new THEN [load EXCEPT ![n] = @ + 1] ELSE load
                /\ lease' = [lease EXCEPT ![l] =
                      [kind |-> kind, node |-> n, gpu |-> g,
                       cpu |-> need.cpu, mem |-> need.mem]]
        /\ UNCHANGED <<ray, registered, total, disabled>>

\* Mutant of ReleaseLease: an instance lease counts as a task.
ReleaseLeaseAnyKind(l) ==
    LET n    == lease[l].node
        rest == [lease EXCEPT ![l] = NoLease]
    IN  /\ lease[l] # NoLease
        /\ lease' = rest
        /\ IF n \in registered
           THEN /\ taskCount' = [taskCount EXCEPT ![n] = Monus(@, 1)]
                /\ avail' = [avail EXCEPT ![n] = Recomputed(total[n], rest, n)]
           ELSE UNCHANGED <<taskCount, avail>>
        /\ UNCHANGED <<ray, registered, total, disabled, prefers, load>>

\* A lease of a node that is gone is dropped and nothing is given back.
ReleaseLease(l) ==
    LET n    == lease[l].node
        rest == [lease EXCEPT ![l] = NoLease]
    IN  /\ lease[l] # NoLease
        /\ lease' = rest
        /\ IF n \in registered
           THEN /\ taskCount' = [taskCount EXCEPT
                                   ![n] = IF lease[l].kind = "task" THEN Monus(@, 1) ELSE @]
                /\ avail' = [avail EXCEPT ![n] = Recomputed(total[n], rest, n)]
           ELSE UNCHANGED <<taskCount, avail>>
        /\ UNCHANGED <<ray, registered, total, disabled, prefers, load>>

ReleaseDagContext(w) ==
    /\ prefers[w] # NoNode
    /\ prefers' = [prefers EXCEPT ![w] = NoNode]
    /\ load' = [load EXCEPT ![prefers[w]] = Monus(@, 1)]
    /\ UNCHANGED <<ray, registered, total, avail, disabled, taskCount, lease>>

Next ==
    \/ \E n \in Nodes : RayJoin(n) \/ RayDie(n) \/ StopWorker(n)
    \/ \E n \in Nodes, cap \in Reports : StartWorker(n, cap)
    \/ \E n \in Nodes, off \in BOOLEAN : SetNodeDisabled(n, off)
    \/ CheckDeadNode
    \/ \E l \in Leases, kind \in Kinds, w \in Workflows, need \in Needs,
          eligible \in SUBSET Nodes : SelectNode(l, kind, w, need, eligible)
    \/ \E l \in Leases : ReleaseLease(l)
    \/ \E w \in Workflows : ReleaseDagContext(w)

Spec == Init /\ [][Next]_vars
-------------------------------------------------------------------------------
\* What a registered node offers is its capacity minus what its active leases
\* hold, however leases were taken (by subtraction) and given back (by
\* recomputation), and across every loss and re-registration of the node.
AvailabilityExact ==
    \A n \in registered : avail[n] = Recomputed(total[n], lease, n)

\* No device is held by two leases, even when its node was forgotten and
\* registered again, with another capacity, while the first lease was active.
GpuExclusive ==
    \A l, m \in Active(lease) :
        l # m /\ lease[l].node = lease[m].node /\ lease[l].gpu = lease[m].gpu
            => lease[l].gpu = NoGpu

\* running_task_counts of a registered node is the number of task leases on it:
\* neither instance leases nor a lease released after its node came back
\* disturb it.
CountsExact ==
    \A n \in registered : taskCount[n] = Cardinality(TaskLeasesOn(lease, n))

\* The affinity contexts point at registered nodes only, each node's load is
\* the number of contexts that prefer it, and a node that is gone leaves no
\* disabled flag behind for a later registration.
ContextsExact ==
    /\ \A n \in Nodes : load[n] = Cardinality(Preferring(n))
    /\ \A w \in Workflows : prefers[w] # NoNode => prefers[w] \in registered
    /\ disabled \subseteq registered

\* A step that grants a lease takes a registered node that is not disabled and
\* that Ray reports alive, and leaves it within the capacity it has registered,
\* counting every other lease on it: its cpu, and the device granted, which is
\* one of its own, nobody else's, and has the memory.
GrantWithinCapacity ==
    [][\A l \in Leases :
         lease[l] = NoLease /\ lease'[l] # NoLease =>
            LET n == lease'[l].node
                g == lease'[l].gpu
            IN  /\ n \in registered \ disabled /\ ray[n] = "alive"
                /\ lease'[l].cpu > 0 => CpuHeld(lease', n) <= total[n].cpu
                /\ g # NoGpu => /\ g \in total[n].dev
                                /\ HoldersOf(lease', n, g) = {l}
                                /\ MemHeld(lease', n, g) <= total[n].mem[g]
      ]_vars
===============================================================================
