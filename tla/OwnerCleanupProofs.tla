-------------------------- MODULE OwnerCleanupProofs --------------------------
(***************************************************************************)
(* Theorems about OwnerCleanup, for any number of model servers, nodes,    *)
(* lost nodes and repeated cleanups: a complete owner cleanup leaves no    *)
(* process behind and none can appear.  The invariant OInv rests on the    *)
(* lock of the owner file: once a node is closed, no launch is under way   *)
(* on it and none begins.                                                  *)
(***************************************************************************)
EXTENDS Support, FiniteSets, TLAPS

InstanceType ==
    [node : Nodes \cup {None}, job : {"none", "queued", "creating", "launching", "done"},
     actor : {"none", "creating", "up", "guarded", "out", "dead"},
     server : {"none", "forked", "launcher", "serving", "dead"},
     kept : {"no", "yes", "killed", "alive", "failed"}]

OTyped ==
    /\ inst \in [Servers -> InstanceType] /\ up \subseteq Nodes /\ closed \subseteq Nodes
    /\ sched \in {"running", "joining", "closing", "executors", "instances", "owner", "ended"}
    /\ producing \in BOOLEAN /\ event \in BOOLEAN /\ ray \in BOOLEAN
    /\ stopped \in [producers : BOOLEAN, instances : BOOLEAN]
    /\ tasks \in [Nodes -> {"off", "closing", "killing", "ok", "failed"}]
    /\ path \in {"serving", "joining", "sweeping", "ray", "local", "done"}

\* An instance is started on a node that is on record.
Placed ==
    \A i \in Servers :
       /\ inst[i].job = "none" =>
             inst[i].actor = "none" /\ inst[i].server = "none" /\ inst[i].kept = "no"
       /\ inst[i].node = None => inst[i].job = "none"

Ended(i) == inst[i].server \in {"none", "dead"}
Gone(n)  == n \in closed /\ \A i \in Owner!On(n) : Ended(i)

\* What the tasks on the nodes have reached.
Progress ==
    /\ \A n \in closed : Owner!Holders(n) = {}
    /\ \A n \in Nodes : /\ tasks[n] = "killing" => n \in closed
                        /\ tasks[n] = "ok" => Gone(n)

\* Every node on which something was started has its task.
Covered == \A n \in Owner!Expected : tasks[n] # "off"

Ending ==
    /\ stopped.producers => ~producing
    /\ sched = "owner" /\ stopped.producers => Covered
    /\ path \in {"sweeping", "ray", "local", "done"} => sched = "ended"
    /\ path = "sweeping" => Covered /\ ~event
    /\ event => sched = "ended" /\ \A n \in Owner!Expected : Gone(n)
    /\ ray \/ event
    /\ path = "done" => event /\ ~ray

OInv == OTyped /\ Placed /\ Progress /\ Ending

-------------------------------------------------------------------------------
(* Types. *)

\* Fields of an instance may change within their types.
LEMMA InstanceFields ==
    ASSUME NEW r \in InstanceType
    PROVE  /\ \A x \in Nodes : [r EXCEPT !.node = x] \in InstanceType
           /\ \A x \in {"queued", "creating", "launching", "done"} : [r EXCEPT !.job = x] \in InstanceType
           /\ \A x \in {"creating", "up", "guarded", "out", "dead"} : [r EXCEPT !.actor = x] \in InstanceType
           /\ \A x \in {"forked", "launcher", "serving", "dead"} : [r EXCEPT !.server = x] \in InstanceType
           /\ \A x \in {"no", "yes", "killed", "alive", "failed"} : [r EXCEPT !.kept = x] \in InstanceType
BY DEF InstanceType

\* What is left after processes were killed.
LEMMA KilledInstances ==
    ASSUME OTyped, NEW S
    PROVE  /\ Owner!Killed(S) \in [Servers -> InstanceType]
           /\ \A i \in Servers :
                 /\ Owner!Killed(S)[i].node = inst[i].node /\ Owner!Killed(S)[i].job = inst[i].job
                 /\ Owner!Killed(S)[i].actor = inst[i].actor /\ Owner!Killed(S)[i].kept = inst[i].kept
                 /\ Owner!Killed(S)[i].server = IF i \in S /\ Owner!Marked(i) THEN "dead" ELSE inst[i].server
<1>1. \A i \in Servers : inst[i] \in InstanceType
  BY DEF OTyped
<1>2. \A i \in Servers :
         Owner!Killed(S)[i] = IF i \in S /\ Owner!Marked(i) THEN [inst[i] EXCEPT !.server = "dead"]
                               ELSE inst[i]
  BY DEF Owner!Killed
<1>3. \A i \in Servers : [inst[i] EXCEPT !.server = "dead"] \in InstanceType
  BY <1>1, InstanceFields
<1>4. Owner!Killed(S) \in [Servers -> InstanceType]
  BY <1>1, <1>2, <1>3 DEF Owner!Killed
<1>5. QED
  BY <1>1, <1>2, <1>4 DEF InstanceType

\* The steps of an instance that leave everything else alone.
Others == UNCHANGED <<closed, tasks, event, ray, sched, producing, stopped, path>>

\* An instance takes a step: what it was and what it is.
LEMMA OneChanged ==
    ASSUME OTyped, NEW i \in Servers, NEW r, inst' = [inst EXCEPT ![i] = r]
    PROVE  /\ \A j \in Servers : inst'[j] = IF j = i THEN r ELSE inst[j]
           /\ \A j \in Servers : inst[j] \in InstanceType
           /\ r \in InstanceType => inst' \in [Servers -> InstanceType]
BY DEF OTyped

-------------------------------------------------------------------------------
(* Steps. *)

\* Instances that take a step, and hold no lock on a closed node, keep the invariant.
LEMMA InstancesStep ==
    ASSUME OInv, Others, up' \subseteq Nodes, inst' \in [Servers -> InstanceType],
           \A i \in Servers :
              /\ inst'[i].node = inst[i].node
              /\ inst'[i].job = "none" => inst[i].job = "none"
              /\ inst[i].job = "none" => inst'[i] = inst[i]
              /\ i \in Owner!Holders(inst[i].node)' =>
                    i \in Owner!Holders(inst[i].node) \/ inst[i].node \notin closed
              /\ Ended(i) /\ i \notin Owner!Holders(inst[i].node) => Ended(i)'
    PROVE  OInv'
<1>1. OTyped'
  BY DEF OInv, OTyped, Others
<1>2. Placed'
  BY DEF OInv, Placed
<1>3. \A n : Owner!On(n)' = Owner!On(n)
  BY DEF Owner!On
<1>4. Owner!Expected' = Owner!Expected
  BY DEF Owner!Expected
<1>5. ASSUME NEW n \in closed PROVE Owner!Holders(n)' = {}
  <2>1. Owner!Holders(n) = {}
    BY <1>5 DEF OInv, Progress
  <2>2. SUFFICES ASSUME NEW i \in Owner!Holders(n)' PROVE FALSE
    OBVIOUS
  <2>3. i \in Servers /\ inst[i].node = n
    BY <1>3, <2>2 DEF Owner!Holders, Owner!On
  <2>4. QED
    BY <1>5, <2>1, <2>2, <2>3
<1>6. ASSUME NEW n, Gone(n) PROVE Gone(n)'
  <2>1. n \in closed /\ Owner!Holders(n) = {} /\ \A i \in Owner!On(n) : Ended(i)
    BY <1>6 DEF OInv, Progress, Gone
  <2>2. \A i \in Owner!On(n) : i \in Servers /\ inst[i].node = n
    BY DEF Owner!On
  <2>3. \A i \in Owner!On(n) : Ended(i)'
    BY <2>1, <2>2
  <2>4. QED
    BY <1>3, <2>1, <2>3 DEF Gone, Others
<1>7. Progress'
  BY <1>5, <1>6 DEF OInv, Progress, Others
<1>8. Covered' <=> Covered
  BY <1>4 DEF Covered, Others
<1>9. Ending'
  BY <1>4, <1>6, <1>8 DEF OInv, Ending, Others
<1>10. QED
  BY <1>1, <1>2, <1>7, <1>9 DEF OInv

\* An instance that is on record, and only it, takes a step.
LEMMA InstanceStep ==
    ASSUME OInv, Others, up' \subseteq Nodes, NEW i \in Servers, NEW r \in InstanceType,
           inst' = [inst EXCEPT ![i] = r], inst[i].job # "none",
           r.node = inst[i].node, r.job # "none",
           (r.actor = "guarded" \/ r.server \in {"forked", "launcher"}) =>
              (i \in Owner!Holders(inst[i].node) \/ inst[i].node \notin closed),
           Ended(i) /\ i \notin Owner!Holders(inst[i].node) => r.server \in {"none", "dead"}
    PROVE  OInv'
<1>1. \A j \in Servers : inst'[j] = IF j = i THEN r ELSE inst[j]
  BY OneChanged DEF OInv
<1>2. inst' \in [Servers -> InstanceType]
  BY OneChanged DEF OInv
<1>3. ASSUME NEW j \in Servers
      PROVE  /\ inst'[j].node = inst[j].node
             /\ inst'[j].job = "none" => inst[j].job = "none"
             /\ inst[j].job = "none" => inst'[j] = inst[j]
             /\ j \in Owner!Holders(inst[j].node)' =>
                   j \in Owner!Holders(inst[j].node) \/ inst[j].node \notin closed
             /\ Ended(j) /\ j \notin Owner!Holders(inst[j].node) => Ended(j)'
  <2>1. CASE j = i
    <3>1. i \in Owner!Holders(inst[i].node)' => r.actor = "guarded" \/ r.server \in {"forked", "launcher"}
      BY <1>1 DEF Owner!Holders, Owner!On
    <3>2. QED
      BY <1>1, <2>1, <3>1 DEF Ended
  <2>2. CASE j # i
    BY <1>1, <2>2 DEF Ended, Owner!Holders, Owner!On
  <2>3. QED
    BY <2>1, <2>2
<1>4. QED
  BY <1>2, <1>3, InstancesStep

\* What is known of an instance that has been started.
LEMMA StartedFacts ==
    ASSUME OInv, NEW i \in Servers
    PROVE  /\ inst[i] \in InstanceType
           /\ inst[i].actor # "none" => inst[i].job # "none"
           /\ inst[i].server # "none" => inst[i].job # "none"
           /\ inst[i].job # "none" => inst[i].node \in Nodes
           /\ inst[i].actor = "guarded" \/ inst[i].server \in {"forked", "launcher"}
                 => i \in Owner!Holders(inst[i].node)
BY DEF OInv, OTyped, Placed, Owner!Holders, Owner!On, InstanceType

\* The start of a server keeps the invariant.
LEMMA StartSteps ==
    ASSUME OInv, NEW i \in Servers,
           Owner!Admit(i) \/ Owner!Created(i) \/ Owner!StartOver(i)
    PROVE  OInv'
<1>1. inst[i] \in InstanceType
  BY StartedFacts
<1>2. Others /\ up' \subseteq Nodes
  BY DEF Owner!Admit, Owner!Created, Owner!StartOver, Others, Owner!clusterVars,
         Owner!cleanupVars, Owner!schedulerVars, Owner!pathVars, OInv, OTyped
<1>3. CASE Owner!Admit(i)
  <2>1. CASE Owner!Accepting
    <3> DEFINE r == [inst[i] EXCEPT !.job = "creating", !.actor = "creating"]
    <3>1. inst' = [inst EXCEPT ![i] = r]
      BY <1>3, <2>1 DEF Owner!Admit
    <3>2. /\ r \in InstanceType /\ r.node = inst[i].node /\ r.job = "creating"
          /\ r.actor = "creating" /\ r.server = inst[i].server
      BY <1>1 DEF InstanceType
    <3>3. inst[i].job # "none"
      BY <1>3 DEF Owner!Admit
    <3> HIDE DEF r
    <3>4. QED
      BY <1>2, <3>1, <3>2, <3>3, StartedFacts, InstanceStep DEF Ended
  <2>2. CASE ~Owner!Accepting
    <3> DEFINE r == [inst[i] EXCEPT !.job = "done"]
    <3>1. inst' = [inst EXCEPT ![i] = r]
      BY <1>3, <2>2 DEF Owner!Admit
    <3>2. /\ r \in InstanceType /\ r.node = inst[i].node /\ r.job = "done"
          /\ r.actor = inst[i].actor /\ r.server = inst[i].server
      BY <1>1 DEF InstanceType
    <3>3. inst[i].job # "none"
      BY <1>3 DEF Owner!Admit
    <3> HIDE DEF r
    <3>4. QED
      BY <1>2, <3>1, <3>2, <3>3, StartedFacts, InstanceStep DEF Ended
  <2>3. QED
    BY <2>1, <2>2
<1>4. CASE Owner!Created(i)
  <2> DEFINE r == IF inst[i].job = "creating" /\ Owner!Accepting
                  THEN [inst[i] EXCEPT !.job = "launching", !.actor = "up", !.kept = "yes"]
                  ELSE [inst[i] EXCEPT !.job = "done", !.actor = "out"]
  <2>1. inst' = [inst EXCEPT ![i] = r]
    BY <1>4 DEF Owner!Created
  <2>2. /\ r \in InstanceType /\ r.node = inst[i].node /\ r.job \in {"launching", "done"}
        /\ r.actor \in {"up", "out"} /\ r.server = inst[i].server
    BY <1>1 DEF InstanceType
  <2>3. inst[i].job # "none"
    BY <1>4, StartedFacts DEF Owner!Created
  <2> HIDE DEF r
  <2>4. QED
    BY <1>2, <2>1, <2>2, <2>3, StartedFacts, InstanceStep DEF Ended
<1>5. CASE Owner!StartOver(i)
  <2> DEFINE r == [inst[i] EXCEPT !.job = "done"]
  <2>1. inst' = [inst EXCEPT ![i] = r]
    BY <1>1, <1>5 DEF Owner!StartOver, OInv, OTyped
  <2>2. /\ r \in InstanceType /\ r.node = inst[i].node /\ r.job = "done"
        /\ r.actor = inst[i].actor /\ r.server = inst[i].server
    BY <1>1 DEF InstanceType
  <2>3. inst[i].job # "none"
    BY <1>5 DEF Owner!StartOver
  <2> HIDE DEF r
  <2>4. QED
    BY <1>2, <2>1, <2>2, <2>3, StartedFacts, InstanceStep DEF Ended
<1>6. QED
  BY <1>3, <1>4, <1>5

\* The launch of a server, under the lock of the owner file, keeps the invariant.
LEMMA LaunchSteps ==
    ASSUME OInv, NEW i \in Servers,
           \/ Owner!Guard(i) \/ Owner!Fork(i) \/ Owner!Mark(i) \/ Owner!Exec(i)
           \/ Owner!Launched(i) \/ Owner!ActorDies(i)
    PROVE  OInv'
<1>1. inst[i] \in InstanceType
  BY StartedFacts
<1>2. Others /\ up' \subseteq Nodes
  BY DEF Owner!Guard, Owner!Fork, Owner!Mark, Owner!Exec, Owner!Launched, Owner!ActorDies, Others,
         Owner!clusterVars, Owner!cleanupVars,
         Owner!schedulerVars, Owner!pathVars, OInv, OTyped
<1>3. inst[i].job # "none"
  BY StartedFacts DEF Owner!Guard, Owner!Fork, Owner!Mark, Owner!Exec, Owner!Launched,
                      Owner!ActorDies, Owner!Living
<1>4. ASSUME Owner!Guard(i) \/ Owner!Launched(i) \/ Owner!ActorDies(i) PROVE OInv'
  <2>1. PICK a \in {"guarded", "out", "dead"} :
           inst' = [inst EXCEPT ![i].actor = a] /\ (a = "guarded" => inst[i].node \notin closed)
    <3>1. CASE Owner!Guard(i)
      BY <3>1 DEF Owner!Guard
    <3>2. CASE Owner!Launched(i)
      BY <3>2 DEF Owner!Launched
    <3>3. CASE Owner!ActorDies(i)
      BY <3>3 DEF Owner!ActorDies
    <3>4. QED
      BY <1>4, <3>1, <3>2, <3>3
  <2> DEFINE r == [inst[i] EXCEPT !.actor = a]
  <2>2. inst' = [inst EXCEPT ![i] = r]
    BY <1>1, <2>1 DEF OInv, OTyped
  <2>3. /\ r \in InstanceType /\ r.node = inst[i].node /\ r.job = inst[i].job
        /\ r.actor = a /\ r.server = inst[i].server
    BY <1>1, a \in {"guarded", "out", "dead"} DEF InstanceType
  <2> HIDE DEF r
  <2>4. QED
    BY <1>2, <1>3, <2>1, <2>2, <2>3, StartedFacts, InstanceStep DEF Ended
<1>5. ASSUME Owner!Fork(i) \/ Owner!Mark(i) \/ Owner!Exec(i) PROVE OInv'
  <2>1. PICK s \in {"forked", "launcher", "serving"} :
           inst' = [inst EXCEPT ![i].server = s]
    BY <1>5 DEF Owner!Fork, Owner!Mark, Owner!Exec
  <2>2. i \in Owner!Holders(inst[i].node)
    BY <1>5, StartedFacts DEF Owner!Fork, Owner!Mark, Owner!Exec
  <2> DEFINE r == [inst[i] EXCEPT !.server = s]
  <2>3. inst' = [inst EXCEPT ![i] = r]
    BY <1>1, <2>1 DEF OInv, OTyped
  <2>4. /\ r \in InstanceType /\ r.node = inst[i].node /\ r.job = inst[i].job
        /\ r.actor = inst[i].actor /\ r.server = s
    BY <1>1, s \in {"forked", "launcher", "serving"} DEF InstanceType
  <2> HIDE DEF r
  <2>5. QED
    BY <1>2, <1>3, <2>2, <2>3, <2>4, InstanceStep DEF Ended
<1>6. QED
  BY <1>4, <1>5

\* Stopping a registered instance keeps the invariant: processes only end.
LEMMA StopSteps ==
    ASSUME OInv, NEW i \in Servers,
           Owner!StopProcesses(i) \/ \E confirmed \in BOOLEAN : Owner!StopActor(i, confirmed)
    PROVE  OInv'
<1>1. Others /\ up' \subseteq Nodes
  BY DEF Owner!StopProcesses, Owner!StopActor, Others, Owner!clusterVars, Owner!cleanupVars,
         Owner!schedulerVars, Owner!pathVars, OInv, OTyped
<1>2. inst[i] \in InstanceType /\ inst[i].job # "none"
  BY StartedFacts DEF Owner!StopProcesses, Owner!StopActor, OInv, Placed
<1>3. CASE Owner!StopProcesses(i) /\ inst[i].node \in up
  <2> DEFINE k == IF inst[i].kept = "killed" THEN "no" ELSE "failed"
             q == Owner!Killed({i})[i]
             r == [q EXCEPT !.kept = k]
  <2>1. Owner!Killed({i}) \in [Servers -> InstanceType] /\ q \in InstanceType
    BY KilledInstances DEF OInv
  <2>2. /\ q.node = inst[i].node /\ q.job = inst[i].job /\ q.actor = inst[i].actor
        /\ q.server \in {inst[i].server, "dead"}
    BY KilledInstances DEF OInv
  <2>3. \A j \in Servers : j # i => Owner!Killed({i})[j] = inst[j]
    BY DEF Owner!Killed
  <2>4. inst' = [Owner!Killed({i}) EXCEPT ![i].kept = k]
    BY <1>3 DEF Owner!StopProcesses
  <2>5. inst' = [Owner!Killed({i}) EXCEPT ![i] = r]
    BY <2>1, <2>4
  <2>6. inst' = [inst EXCEPT ![i] = r]
    BY <2>1, <2>3, <2>5 DEF OInv, OTyped
  <2> HIDE DEF q
  <2>7. /\ r \in InstanceType /\ r.node = q.node /\ r.job = q.job
        /\ r.actor = q.actor /\ r.server = q.server
    BY <2>1 DEF InstanceType
  <2> HIDE DEF r
  <2>8. QED
    BY <1>1, <1>2, <2>2, <2>6, <2>7, StartedFacts, InstanceStep DEF Ended
<1>4. CASE Owner!StopProcesses(i) /\ inst[i].node \notin up
  <2> DEFINE r == [inst[i] EXCEPT !.kept = "failed"]
  <2>1. inst' = [inst EXCEPT ![i] = r]
    BY <1>4 DEF Owner!StopProcesses, OInv, OTyped
  <2>2. /\ r \in InstanceType /\ r.node = inst[i].node /\ r.job = inst[i].job
        /\ r.actor = inst[i].actor /\ r.server = inst[i].server
    BY <1>2 DEF InstanceType
  <2> HIDE DEF r
  <2>3. QED
    BY <1>1, <1>2, <2>1, <2>2, StartedFacts, InstanceStep DEF Ended
<1>5. ASSUME NEW confirmed \in BOOLEAN, Owner!StopActor(i, confirmed) PROVE OInv'
  <2> DEFINE k == IF confirmed THEN "killed" ELSE "alive"
             a == IF confirmed THEN "dead" ELSE inst[i].actor
             r == [inst[i] EXCEPT !.kept = k, !.actor = a]
  <2>1. inst' = [inst EXCEPT ![i] = r]
    BY <1>5 DEF Owner!StopActor, OInv, OTyped
  <2>2. /\ r \in InstanceType /\ r.node = inst[i].node /\ r.job = inst[i].job
        /\ r.actor = a /\ r.server = inst[i].server
    BY <1>2 DEF InstanceType
  <2>3. a \in {inst[i].actor, "dead"}
    OBVIOUS
  <2> HIDE DEF r, a
  <2>4. QED
    BY <1>1, <1>2, <2>1, <2>2, <2>3, StartedFacts, InstanceStep DEF Ended
<1>6. QED
  BY <1>3, <1>4, <1>5

\* The record of a new start keeps the invariant: nothing is reported while the
\* thread that starts instances runs.
LEMMA RecordStep ==
    ASSUME OInv, None \notin Nodes, NEW i \in Servers, NEW n \in Nodes, Owner!Record(i, n)
    PROVE  OInv'
<1> DEFINE r == [inst[i] EXCEPT !.node = n, !.job = "queued"]
<1>1. inst[i] \in InstanceType /\ inst[i].job = "none"
  BY StartedFacts DEF Owner!Record
<1>2. inst[i].actor = "none" /\ inst[i].server = "none" /\ inst[i].kept = "no"
  BY <1>1 DEF OInv, Placed
<1>3. inst' = [inst EXCEPT ![i] = r]
  BY DEF Owner!Record, OInv, OTyped
<1>4. r \in InstanceType /\ r.node = n /\ r.job = "queued" /\ r.actor = "none" /\ r.server = "none"
  BY <1>1, <1>2 DEF InstanceType
<1> HIDE DEF r
<1>5. /\ \A j \in Servers : inst'[j] = IF j = i THEN r ELSE inst[j]
      /\ inst' \in [Servers -> InstanceType]
  BY <1>3, <1>4, OneChanged DEF OInv
<1>6. UNCHANGED <<up, closed, tasks, event, ray, sched, producing, stopped, path>>
  BY DEF Owner!Record, Owner!clusterVars, Owner!cleanupVars, Owner!schedulerVars, Owner!pathVars
<1>7. OTyped'
  BY <1>5, <1>6 DEF OInv, OTyped
<1>8. Placed'
  BY <1>4, <1>5, None \notin Nodes DEF OInv, Placed
<1>9. \A m : Owner!Holders(m)' \subseteq Owner!Holders(m)
  BY <1>4, <1>5 DEF Owner!Holders, Owner!On
<1>10. ASSUME NEW m, Gone(m) PROVE Gone(m)'
  <2>1. \A j \in Servers : inst'[j].node = m => Ended(j)'
    BY <1>4, <1>5, <1>10 DEF Gone, Ended, Owner!On
  <2>2. QED
    BY <1>6, <1>10, <2>1 DEF Gone, Owner!On
<1>11. Progress'
  BY <1>6, <1>9, <1>10 DEF OInv, Progress
<1>12. producing /\ sched # "ended"
  BY DEF Owner!Record
<1>13. Ending'
  BY <1>6, <1>12 DEF OInv, Ending
<1>14. QED
  BY <1>7, <1>8, <1>11, <1>13 DEF OInv

\* Losing a node, or having it back, keeps the invariant: its files stay.
LEMMA NodeSteps ==
    ASSUME OInv, NEW n \in Nodes, Owner!NodeLost(n) \/ Owner!NodeBack(n)
    PROVE  OInv'
<1>1. /\ UNCHANGED <<inst, closed, tasks, event, ray, sched, producing, stopped, path>>
      /\ up' \subseteq Nodes
  BY DEF Owner!NodeLost, Owner!NodeBack, Owner!cleanupVars, Owner!schedulerVars, Owner!pathVars,
         OInv, OTyped
<1>2. Others /\ inst' \in [Servers -> InstanceType]
  BY <1>1 DEF Others, OInv, OTyped
<1>3. \A i \in Servers :
         /\ i \in Owner!Holders(inst[i].node)' => i \in Owner!Holders(inst[i].node)
         /\ Ended(i) => Ended(i)'
  BY <1>1 DEF Owner!Holders, Owner!On, Ended
<1>4. QED
  BY <1>1, <1>2, <1>3, InstancesStep

\* Nothing of what has been reached is lost while the instances stand still.
LEMMA QuietStep ==
    ASSUME OInv, OTyped', Ending', inst' = inst, closed' = closed,
           \A n \in Nodes : tasks'[n] \in {"killing", "ok"} => tasks'[n] = tasks[n]
    PROVE  OInv'
<1>1. Placed'
  BY DEF OInv, Placed
<1>2. \A n : Owner!Holders(n)' = Owner!Holders(n) /\ (Gone(n)' <=> Gone(n))
  BY DEF Owner!Holders, Gone, Owner!On, Ended
<1>3. Progress'
  BY <1>2 DEF OInv, Progress
<1>4. QED
  BY <1>1, <1>3 DEF OInv

\* What stays of the instances.
LEMMA QuietFacts ==
    ASSUME inst' = inst, closed' = closed
    PROVE  Owner!Expected' = Owner!Expected /\ \A n : Gone(n)' <=> Gone(n)
BY DEF Owner!Expected, Gone, Owner!On, Ended

\* The task of a node keeps the invariant: it closes the node once no launch is
\* under way on it, and then ends the processes that are left.
LEMMA TaskSteps ==
    ASSUME OInv, NEW n \in Nodes, Owner!Close(n) \/ Owner!KillAll(n) \/ Owner!TaskFails(n)
    PROVE  OInv'
<1>1. CASE Owner!Close(n)
  <2>1. /\ UNCHANGED <<inst, up, event, ray, sched, producing, stopped, path>>
        /\ closed' = closed \cup {n} /\ tasks' = [tasks EXCEPT ![n] = "killing"]
        /\ Owner!Holders(n) = {}
    BY <1>1 DEF Owner!Close, Owner!schedulerVars, Owner!pathVars
  <2>2. \A m \in Nodes : tasks'[m] = IF m = n THEN "killing" ELSE tasks[m]
    BY <2>1 DEF OInv, OTyped
  <2>3. OTyped'
    BY <2>1 DEF OInv, OTyped
  <2>4. Placed'
    BY <2>1 DEF OInv, Placed
  <2>5. \A m : Owner!Holders(m)' = Owner!Holders(m) /\ (Gone(m) => Gone(m)')
    BY <2>1 DEF Owner!Holders, Gone, Owner!On, Ended
  <2>6. Progress'
    BY <2>1, <2>2, <2>5 DEF OInv, Progress
  <2>7. Owner!Expected' = Owner!Expected
    BY <2>1 DEF Owner!Expected
  <2>8. Covered => Covered'
    <3>1. Owner!Expected \subseteq Nodes
      BY DEF Owner!Expected, OInv, OTyped, InstanceType
    <3>2. QED
      BY <2>2, <2>7, <3>1 DEF Covered
  <2>9. Ending'
    BY <2>1, <2>5, <2>7, <2>8 DEF OInv, Ending
  <2>10. QED
    BY <2>3, <2>4, <2>6, <2>9 DEF OInv
<1>2. CASE Owner!KillAll(n)
  <2>1. /\ UNCHANGED <<up, closed, event, ray, sched, producing, stopped, path>>
        /\ inst' = Owner!Killed(Owner!On(n)) /\ tasks' = [tasks EXCEPT ![n] = "ok"] /\ tasks[n] = "killing"
    BY <1>2 DEF Owner!KillAll, Owner!clusterVars, Owner!schedulerVars, Owner!pathVars
  <2>2. \A m \in Nodes : tasks'[m] = IF m = n THEN "ok" ELSE tasks[m]
    BY <2>1 DEF OInv, OTyped
  <2>3. /\ inst' \in [Servers -> InstanceType]
        /\ \A i \in Servers :
              /\ inst'[i].node = inst[i].node /\ inst'[i].job = inst[i].job
              /\ inst'[i].actor = inst[i].actor /\ inst'[i].kept = inst[i].kept
              /\ inst'[i].server = IF i \in Owner!On(n) /\ Owner!Marked(i) THEN "dead" ELSE inst[i].server
    BY <2>1, KilledInstances DEF OInv
  <2>4. OTyped'
    BY <2>1, <2>3 DEF OInv, OTyped
  <2>5. Placed'
    BY <2>3 DEF OInv, Placed, Owner!Marked
  <2>6. \A m : Owner!Holders(m)' \subseteq Owner!Holders(m) /\ Owner!On(m)' = Owner!On(m)
    BY <2>3 DEF Owner!Holders, Owner!On
  <2>7. \A i \in Servers : Ended(i) => Ended(i)'
    BY <2>3 DEF Ended
  <2>8. ASSUME NEW m, Gone(m) PROVE Gone(m)'
    BY <2>1, <2>6, <2>7, <2>8 DEF Gone, Owner!On
  <2>9. Gone(n)'
    <3>1. n \in closed /\ Owner!Holders(n) = {}
      BY <2>1 DEF OInv, Progress
    <3>2. ASSUME NEW i \in Owner!On(n) PROVE Ended(i)'
      <4>1. i \in Servers /\ inst[i] \in InstanceType
        BY <3>2, StartedFacts DEF Owner!On
      <4>2. inst[i].server \notin {"forked", "launcher"}
        BY <3>1, <3>2 DEF Owner!Holders
      <4>3. inst[i].server \in {"none", "serving", "dead"}
        BY <4>1, <4>2 DEF InstanceType
      <4>4. QED
        BY <2>3, <3>2, <4>1, <4>3 DEF Ended, Owner!Marked
    <3>3. QED
      BY <2>1, <2>6, <3>1, <3>2 DEF Gone
  <2>10. Progress'
    BY <2>1, <2>2, <2>6, <2>8, <2>9 DEF OInv, Progress
  <2>11. Owner!Expected' = Owner!Expected
    BY <2>3 DEF Owner!Expected
  <2>12. Covered => Covered'
    <3>1. Owner!Expected \subseteq Nodes
      BY DEF Owner!Expected, OInv, OTyped, InstanceType
    <3>2. QED
      BY <2>2, <2>11, <3>1 DEF Covered
  <2>13. Ending'
    BY <2>1, <2>8, <2>11, <2>12 DEF OInv, Ending
  <2>14. QED
    BY <2>4, <2>5, <2>10, <2>13 DEF OInv
<1>3. CASE Owner!TaskFails(n)
  <2>1. /\ UNCHANGED <<inst, up, closed, event, ray, sched, producing, stopped, path>>
        /\ tasks' = [tasks EXCEPT ![n] = "failed"]
    BY <1>3 DEF Owner!TaskFails, Owner!clusterVars, Owner!schedulerVars, Owner!pathVars
  <2>2. \A m \in Nodes : tasks'[m] = IF m = n THEN "failed" ELSE tasks[m]
    BY <2>1 DEF OInv, OTyped
  <2>3. OTyped'
    BY <2>1 DEF OInv, OTyped
  <2>4. Owner!Expected' = Owner!Expected /\ \A m : Gone(m)' <=> Gone(m)
    BY <2>1, QuietFacts
  <2>5. Covered => Covered'
    <3>1. Owner!Expected \subseteq Nodes
      BY DEF Owner!Expected, OInv, OTyped, InstanceType
    <3>2. QED
      BY <2>2, <2>4, <3>1 DEF Covered
  <2>6. Ending'
    BY <2>1, <2>4, <2>5 DEF OInv, Ending
  <2>7. QED
    BY <2>1, <2>2, <2>3, <2>6, QuietStep
<1>4. QED
  BY <1>1, <1>2, <1>3

\* The tasks of an owner cleanup: each node on which something was started has one.
LEMMA BegunTasks ==
    ASSUME OInv, None \notin Nodes
    PROVE  /\ \A t \in {Owner!Begun, Owner!Owned, Owner!NoTasks} :
                 t \in [Nodes -> {"off", "closing", "failed"}]
           /\ \A n \in Owner!Expected : Owner!Begun[n] # "off" /\ Owner!Owned[n] # "off"
<1>1. Owner!Expected \subseteq Nodes
  BY DEF Owner!Expected, OInv, OTyped, InstanceType
<1>2. /\ Owner!Begun \in [Nodes -> {"off", "closing", "failed"}]
      /\ Owner!NoTasks \in [Nodes -> {"off", "closing", "failed"}]
  BY DEF Owner!Begun, Owner!NoTasks
<1>3. \A n \in Owner!Expected : Owner!Begun[n] # "off"
  BY <1>1 DEF Owner!Begun
<1>4. Owner!Owned \in {Owner!Begun, Owner!NoTasks} /\ (Owner!Expected # {} => Owner!Owned = Owner!Begun)
  BY DEF Owner!Owned
<1>5. QED
  BY <1>2, <1>3, <1>4

\* The Scheduler's way to its cleanup keeps the invariant.
LEMMA SchedulerSteps ==
    ASSUME OInv, None \notin Nodes,
           Owner!Stop \/ Owner!ProducerEnds \/ Owner!Join \/ Owner!Die \/ Owner!Cleanup
    PROVE  OInv'
<1>1. inst' = inst /\ closed' = closed /\ up' = up /\ event' = event /\ ray' = ray
  BY DEF Owner!Stop, Owner!ProducerEnds, Owner!Join, Owner!Die, Owner!Cleanup, Owner!clusterVars,
         Owner!cleanupVars
<1>2. Owner!Expected' = Owner!Expected /\ \A n : Gone(n)' <=> Gone(n)
  BY <1>1, QuietFacts
<1>3. tasks' \in {tasks, Owner!NoTasks}
  BY DEF Owner!Stop, Owner!ProducerEnds, Owner!Join, Owner!Die, Owner!Cleanup, Owner!clusterVars,
         Owner!cleanupVars
<1>4. OTyped'
  <2>1. tasks' \in [Nodes -> {"off", "closing", "killing", "ok", "failed"}]
    BY <1>3 DEF Owner!NoTasks, OInv, OTyped
  <2>2. stopped' \in [producers : BOOLEAN, instances : BOOLEAN] /\ producing' \in BOOLEAN
    BY DEF Owner!Stop, Owner!ProducerEnds, Owner!Join, Owner!Die, Owner!Cleanup,
           Owner!schedulerVars, OInv, OTyped
  <2>3. /\ sched' \in {"running", "joining", "closing", "executors", "instances", "owner", "ended"}
        /\ path' \in {"serving", "joining", "sweeping", "ray", "local", "done"}
    BY DEF Owner!Stop, Owner!ProducerEnds, Owner!Join, Owner!Die, Owner!Cleanup,
           Owner!schedulerVars, Owner!pathVars, OInv, OTyped
  <2>4. QED
    BY <1>1, <2>1, <2>2, <2>3 DEF OInv, OTyped
<1>5. Ending'
  <2>1. CASE Owner!Stop \/ Owner!ProducerEnds \/ Owner!Join
    <3>1. /\ tasks' = tasks /\ path' = path
          /\ sched' = "owner" => sched = "owner"
          /\ sched = "ended" => sched' = "ended"
      BY <2>1 DEF Owner!Stop, Owner!ProducerEnds, Owner!Join, Owner!cleanupVars, Owner!pathVars
    <3>2. stopped'.producers => ~producing'
      BY <2>1 DEF Owner!Stop, Owner!ProducerEnds, Owner!Join, OInv, OTyped, Ending
    <3>3. sched' = "owner" => stopped' = stopped
      BY <2>1 DEF Owner!Stop, Owner!ProducerEnds, Owner!Join
    <3>4. Covered' <=> Covered
      BY <1>2, <3>1 DEF Covered
    <3>5. QED
      BY <1>1, <1>2, <3>1, <3>2, <3>3, <3>4 DEF OInv, Ending
  <2>2. CASE Owner!Die
    <3>1. /\ sched' = "ended" /\ sched # "ended" /\ path' = path
          /\ producing' = producing /\ stopped' = stopped
      BY <2>2 DEF Owner!Die, Owner!pathVars
    <3>2. QED
      BY <1>1, <1>2, <3>1 DEF OInv, Ending
  <2>3. CASE Owner!Cleanup
    <3>1. /\ path' = "joining" /\ producing' = producing /\ stopped' = stopped /\ tasks' = tasks
          /\ sched' = "owner" => sched = "owner"
          /\ sched = "ended" => sched' = "ended"
      BY <2>3 DEF Owner!Cleanup, Owner!cleanupVars
    <3>2. Covered' <=> Covered
      BY <1>2, <3>1 DEF Covered
    <3>3. QED
      BY <1>1, <1>2, <3>1, <3>2 DEF OInv, Ending
  <2>4. QED
    BY <2>1, <2>2, <2>3
<1>6. \A n \in Nodes : tasks'[n] \in {"killing", "ok"} => tasks'[n] = tasks[n]
  BY <1>3 DEF Owner!NoTasks
<1>7. QED
  BY <1>1, <1>4, <1>5, <1>6, QuietStep

\* The cancelled starts keep the invariant.
LEMMA BeginShutdownStep ==
    ASSUME OInv, Owner!BeginShutdown
    PROVE  OInv'
<1> DEFINE r(i) == IF inst[i].job = "queued" THEN [inst[i] EXCEPT !.job = "done"] ELSE inst[i]
<1>1. \A i \in Servers : inst[i] \in InstanceType
  BY StartedFacts
<1>2. inst' = [i \in Servers |-> r(i)]
  BY DEF Owner!BeginShutdown
<1>3. \A i \in Servers :
         /\ r(i) \in InstanceType
         /\ r(i).node = inst[i].node /\ r(i).actor = inst[i].actor
         /\ r(i).server = inst[i].server /\ r(i).kept = inst[i].kept
         /\ r(i).job = IF inst[i].job = "queued" THEN "done" ELSE inst[i].job
  BY <1>1 DEF InstanceType
<1> HIDE DEF r
<1>4. /\ inst' \in [Servers -> InstanceType]
      /\ \A i \in Servers :
            /\ inst'[i].node = inst[i].node /\ inst'[i].actor = inst[i].actor
            /\ inst'[i].server = inst[i].server /\ inst'[i].kept = inst[i].kept
            /\ inst'[i].job = IF inst[i].job = "queued" THEN "done" ELSE inst[i].job
  BY <1>2, <1>3
<1>5. /\ UNCHANGED <<up, closed, tasks, event, ray, producing, stopped, path>>
      /\ sched = "closing" /\ sched' = "executors"
  BY DEF Owner!BeginShutdown, Owner!clusterVars, Owner!cleanupVars, Owner!pathVars
<1>6. OTyped'
  BY <1>4, <1>5 DEF OInv, OTyped
<1>7. Placed'
  BY <1>4 DEF OInv, Placed
<1>8. \A n : Owner!On(n)' = Owner!On(n) /\ Owner!Holders(n)' = Owner!Holders(n) /\ (Gone(n)' <=> Gone(n))
  BY <1>4, <1>5 DEF Owner!On, Owner!Holders, Gone, Ended
<1>9. Progress'
  BY <1>5, <1>8 DEF OInv, Progress
<1>10. Ending'
  BY <1>5 DEF OInv, Ending
<1>11. QED
  BY <1>6, <1>7, <1>9, <1>10 DEF OInv

\* The start of the Scheduler's owner cleanup keeps the invariant.
LEMMA OwnerSteps ==
    ASSUME OInv, None \notin Nodes, Owner!Executors \/ Owner!InstancesStopped
    PROVE  OInv'
<1>1. /\ UNCHANGED <<inst, up, closed, event, ray, producing, path>>
      /\ sched \in {"executors", "instances"} /\ stopped'.producers = stopped.producers
      /\ stopped' \in [producers : BOOLEAN, instances : BOOLEAN]
  BY DEF Owner!Executors, Owner!InstancesStopped, Owner!clusterVars, Owner!pathVars, OInv, OTyped
<1>2. \/ sched' = "instances" /\ tasks' = tasks
      \/ sched' = "owner" /\ tasks' = Owner!Owned
  BY DEF Owner!Executors, Owner!InstancesStopped
<1>3. Owner!Expected' = Owner!Expected /\ \A n : Gone(n)' <=> Gone(n)
  BY <1>1, QuietFacts
<1>4. /\ Owner!Owned \in [Nodes -> {"off", "closing", "failed"}]
      /\ \A n \in Owner!Expected : Owner!Owned[n] # "off"
  BY BegunTasks
<1>5. OTyped'
  <2>1. tasks' \in [Nodes -> {"off", "closing", "killing", "ok", "failed"}]
    BY <1>2, <1>4 DEF OInv, OTyped
  <2>2. QED
    BY <1>1, <1>2, <2>1 DEF OInv, OTyped
<1>6. sched' = "owner" => Covered'
  BY <1>2, <1>3, <1>4 DEF Covered
<1>7. Ending'
  BY <1>1, <1>2, <1>3, <1>6 DEF OInv, Ending
<1>8. \A n \in Nodes : tasks'[n] \in {"killing", "ok"} => tasks'[n] = tasks[n]
  BY <1>2, <1>4
<1>9. QED
  BY <1>1, <1>5, <1>7, <1>8, QuietStep

\* A cleanup whose tasks all succeeded has left nothing of the owner.
LEMMA CleanNodes ==
    ASSUME OInv, Covered, Owner!Clean
    PROVE  \A n \in Owner!Expected : Gone(n)
<1>1. Owner!Expected \subseteq Nodes
  BY DEF Owner!Expected, OInv, OTyped, InstanceType
<1>2. QED
  BY <1>1 DEF Covered, Owner!Clean, OInv, Progress

\* The end of a cleanup, of the Scheduler or of the Core, keeps the invariant.
LEMMA ReportSteps ==
    ASSUME OInv, None \notin Nodes,
           Owner!Exit \/ Owner!Joined \/ Owner!Swept \/ Owner!StopRay \/ Owner!Report
    PROVE  OInv'
<1>1. UNCHANGED <<inst, up, closed, producing, stopped>>
  BY DEF Owner!Exit, Owner!Joined, Owner!Swept, Owner!StopRay, Owner!Report, Owner!clusterVars,
         Owner!schedulerVars
<1>2. Owner!Expected' = Owner!Expected /\ \A n : Gone(n)' <=> Gone(n)
  BY <1>1, QuietFacts
<1>3. /\ \A t \in {Owner!Begun, Owner!NoTasks} : t \in [Nodes -> {"off", "closing", "failed"}]
      /\ \A n \in Owner!Expected : Owner!Begun[n] # "off"
  BY BegunTasks
<1>4. \/ tasks' = tasks
      \/ tasks' \in [Nodes -> {"off", "closing", "failed"}]
  <2>1. [Owner!NoTasks EXCEPT ![CoreNode] = "closing"] \in [Nodes -> {"off", "closing", "failed"}]
    BY <1>3
  <2>2. tasks' \in {tasks, Owner!NoTasks, Owner!Begun, [Owner!NoTasks EXCEPT ![CoreNode] = "closing"]}
    BY DEF Owner!Exit, Owner!Joined, Owner!Swept, Owner!StopRay, Owner!Report
  <2>3. QED
    BY <1>3, <2>1, <2>2
<1>5. OTyped'
  <2>1. tasks' \in [Nodes -> {"off", "closing", "killing", "ok", "failed"}]
    BY <1>4 DEF OInv, OTyped
  <2>2. event' \in BOOLEAN /\ ray' \in BOOLEAN
    BY DEF Owner!Exit, Owner!Joined, Owner!Swept, Owner!StopRay, Owner!Report, Owner!Clean, OInv,
           OTyped
  <2>3. /\ sched' \in {sched, "ended"}
        /\ path' \in {"serving", "joining", "sweeping", "ray", "local", "done"}
    BY DEF Owner!Exit, Owner!Joined, Owner!Swept, Owner!StopRay, Owner!Report,
           Owner!schedulerVars, Owner!pathVars, OInv, OTyped
  <2>4. QED
    BY <1>1, <2>1, <2>2, <2>3 DEF OInv, OTyped
<1>6. Ending'
  <2>1. CASE Owner!Exit
    <3>1. /\ sched = "owner" /\ sched' = "ended" /\ path' = path
          /\ event' = (stopped.producers /\ stopped.instances /\ Owner!Clean)
          /\ ray' \in IF event' THEN {FALSE, ray} ELSE {ray}
      BY <2>1 DEF Owner!Exit, Owner!pathVars
    <3>2. ~event /\ ray = TRUE
      BY <3>1 DEF OInv, OTyped, Ending
    <3>3. event' => \A n \in Owner!Expected : Gone(n)
      BY <3>1, CleanNodes DEF OInv, Ending
    <3>4. QED
      BY <1>1, <1>2, <3>1, <3>2, <3>3 DEF OInv, Ending
  <2>2. CASE Owner!Joined
    <3>1. /\ sched = "ended" /\ sched' = sched /\ event' = event /\ ray' = ray
          /\ \/ event /\ path' = "ray"
             \/ ~event /\ path' = "sweeping" /\ tasks' = Owner!Begun
      BY <2>2 DEF Owner!Joined, Owner!schedulerVars
    <3>2. path' = "sweeping" => Covered'
      BY <1>2, <1>3, <3>1 DEF Covered
    <3>3. QED
      BY <1>1, <1>2, <3>1, <3>2 DEF OInv, Ending
  <2>3. CASE Owner!Swept
    <3>1. path = "sweeping" /\ path' = "ray" /\ event' = Owner!Clean /\ sched' = sched /\ ray' = ray
      BY <2>3 DEF Owner!Swept, Owner!schedulerVars
    <3>2. sched = "ended" /\ ray = TRUE /\ Covered
      BY <3>1 DEF OInv, OTyped, Ending
    <3>3. event' => \A n \in Owner!Expected : Gone(n)
      BY <3>1, <3>2, CleanNodes
    <3>4. QED
      BY <1>1, <1>2, <3>1, <3>2, <3>3 DEF OInv, Ending
  <2>4. CASE Owner!StopRay
    <3>1. /\ path = "ray" /\ path' = "local" /\ sched' = sched /\ event' = event
          /\ ray' \in IF event' THEN {FALSE, ray} ELSE {ray}
      BY <2>4 DEF Owner!StopRay, Owner!schedulerVars
    <3>2. QED
      BY <1>1, <1>2, <3>1 DEF OInv, Ending
  <2>5. CASE Owner!Report
    <3>1. /\ path = "local" /\ sched' = sched /\ event' = event /\ ray' = ray
          /\ path' = IF event /\ ~ray /\ Owner!Clean THEN "done" ELSE "serving"
      BY <2>5 DEF Owner!Report, Owner!schedulerVars
    <3>2. QED
      BY <1>1, <1>2, <3>1 DEF OInv, Ending
  <2>6. QED
    BY <2>1, <2>2, <2>3, <2>4, <2>5
<1>7. \A n \in Nodes : tasks'[n] \in {"killing", "ok"} => tasks'[n] = tasks[n]
  BY <1>4
<1>8. QED
  BY <1>1, <1>5, <1>6, <1>7, QuietStep

\* A step that changes nothing keeps the invariant.
LEMMA StutterStep ==
    ASSUME OInv, UNCHANGED Owner!vars
    PROVE  OInv'
<1>1. UNCHANGED <<inst, up, closed, tasks, event, ray, sched, producing, stopped, path>>
  BY DEF Owner!vars
<1>2. Others /\ up' \subseteq Nodes /\ inst' \in [Servers -> InstanceType]
  BY <1>1 DEF Others, OInv, OTyped
<1>3. \A i \in Servers :
         /\ i \in Owner!Holders(inst[i].node)' => i \in Owner!Holders(inst[i].node)
         /\ Ended(i) => Ended(i)'
  BY <1>1 DEF Owner!Holders, Owner!On, Ended
<1>4. QED
  BY <1>1, <1>2, <1>3, InstancesStep

-------------------------------------------------------------------------------
(* Theorems. *)

\* Of an owner whose cleanup is reported as complete no process runs.
LEMMA NothingRuns ==
    ASSUME OInv
    PROVE  Owner!OwnerStopped
<1>1. ASSUME event, NEW i \in Servers PROVE inst[i].server \in {"none", "dead"}
  <2>1. CASE inst[i].node = None
    BY <2>1 DEF OInv, Placed
  <2>2. CASE inst[i].node # None
    <3>1. inst[i].node \in Owner!Expected
      BY <2>2 DEF Owner!Expected
    <3>2. Gone(inst[i].node)
      BY <1>1, <3>1 DEF OInv, Ending
    <3>3. QED
      BY <3>2 DEF Gone, Owner!On, Ended
  <2>3. QED
    BY <2>1, <2>2
<1>2. QED
  BY <1>1 DEF Owner!OwnerStopped, OInv, Ending

\* Nothing has been started at first.
LEMMA InitInvariant ==
    ASSUME Owner!Init
    PROVE  OInv
<1>1. \A i \in Servers : inst[i] = Owner!NoInstance
  BY DEF Owner!Init
<1>2. Owner!NoInstance \in InstanceType
  BY DEF Owner!NoInstance, InstanceType
<1>3. OTyped
  BY <1>1, <1>2 DEF Owner!Init, OTyped, Owner!NoTasks
<1>4. Placed
  BY <1>1 DEF Placed, Owner!NoInstance
<1>5. Progress
  BY DEF Owner!Init, Progress, Owner!NoTasks
<1>6. Owner!Expected = {}
  BY <1>1 DEF Owner!Expected, Owner!NoInstance
<1>7. Ending
  BY <1>6 DEF Owner!Init, Ending
<1>8. QED
  BY <1>3, <1>4, <1>5, <1>7 DEF OInv

\* Every step keeps the invariant.
LEMMA StepInvariant ==
    ASSUME OInv, None \notin Nodes, [Owner!Next]_Owner!vars
    PROVE  OInv'
<1>1. ASSUME NEW i \in Servers,
             \/ \E n \in Nodes : Owner!Record(i, n)
             \/ Owner!Admit(i) \/ Owner!Created(i) \/ Owner!StartOver(i) \/ Owner!Guard(i)
             \/ Owner!Fork(i) \/ Owner!Mark(i) \/ Owner!Exec(i)
             \/ Owner!Launched(i) \/ Owner!ActorDies(i) \/ Owner!StopProcesses(i)
             \/ \E confirmed \in BOOLEAN : Owner!StopActor(i, confirmed)
      PROVE  OInv'
  BY <1>1, RecordStep, StartSteps, LaunchSteps, StopSteps
<1>2. ASSUME NEW n \in Nodes,
             \/ Owner!NodeLost(n) \/ Owner!NodeBack(n) \/ Owner!Close(n)
             \/ Owner!KillAll(n) \/ Owner!TaskFails(n)
      PROVE  OInv'
  BY <1>2, NodeSteps, TaskSteps
<1>3. ASSUME Owner!Stop \/ Owner!ProducerEnds \/ Owner!Join \/ Owner!Die \/ Owner!Cleanup PROVE OInv'
  BY <1>3, SchedulerSteps
<1>4. ASSUME Owner!Executors \/ Owner!InstancesStopped PROVE OInv'
  BY <1>4, OwnerSteps
<1>5. ASSUME Owner!Exit \/ Owner!Joined \/ Owner!Swept \/ Owner!StopRay \/ Owner!Report PROVE OInv'
  BY <1>5, ReportSteps
<1>6. QED
  BY <1>1, <1>2, <1>3, <1>4, <1>5, BeginShutdownStep, StutterStep DEF Owner!Next

\* A node that repairs know of is not None: MemoryRepair and OwnerCleanup share them.
LEMMA NodesAreNodes == None \notin Nodes
BY ParametersAssumption DEF Repairs!Parameters

\* The part of a behaviour stays, and a step of the owner's is one of OwnerCleanup.
LEMMA OwnerPart ==
    ASSUME [Next]_svars
    PROVE  part' = part /\ (part = "owner" => [Owner!Next]_Owner!vars)
BY DEF Next, svars, cvars, Owner!vars

\* The invariant holds in every state: a closed node has no launch under way, a
\* node whose task succeeded has no process of the owner, and the cleanup that is
\* reported had a task on each node of the record.
THEOREM OwnerInvariance == Spec => [](part = "owner" => OInv)
<1>1. Init => (part = "owner" => OInv)
  BY InitInvariant, NodesAreNodes DEF Init
<1>2. (part = "owner" => OInv) /\ [Next]_svars => (part = "owner" => OInv)'
  BY StepInvariant, OwnerPart, NodesAreNodes
<1>3. QED
  BY <1>1, <1>2, PTL DEF Spec

\* When the owner cleanup is reported as complete, no process of the owner runs on
\* any node and none appears any more; Ray is stopped only then.
THEOREM OwnerStaysStopped == Spec => []OwnerStopped
<1>1. (part = "owner" => OInv) => OwnerStopped
  BY NothingRuns DEF OwnerStopped
<1>2. QED
  BY <1>1, OwnerInvariance, PTL
===============================================================================
