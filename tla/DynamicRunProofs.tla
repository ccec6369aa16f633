--------------------------- MODULE DynamicRunProofs ---------------------------
(***************************************************************************)
(* Theorems about DynamicRun, for any tasks that a client may append and   *)
(* any number of requests, failed writes and crashes: what is sent, what   *)
(* is remembered and what a crash leaves.  The invariant DInv says where   *)
(* each task is (Placing), what a run that goes on and the message in hand *)
(* look like (Going, InHand), how memory and log agree (Logging, MemEnds)  *)
(* and what the files say of the end (Ending).                             *)
(***************************************************************************)
EXTENDS DynamicRun, TLAPS

Runs  == [status : Statuses, tasks : SUBSET Ids, parents : [Ids -> SUBSET Ids],
          pending : SUBSET Ids, submitted : SUBSET Ids, running : SUBSET Ids,
          completed : SUBSET Ids, failed : SUBSET Ids, log : Seq(LogEvents),
          cont : [Ids -> [stage : {"none", "notify", "ready", "completed"}, todo : SUBSET Ids]],
          ready : [Ids -> [seq : Nat, sent : BOOLEAN]]]
Snaps == [status : Statuses, open : SUBSET Ids, completed : SUBSET Ids, failed : SUBSET Ids]
Entries == [seq : Nat, event : LogEvents]
Disks == [log : Seq(Entries), snap : Snaps]

\* The message in hand and the streams, of which TypeOK says nothing.
StreamOK == last \in [Ids -> [kind : Stream!Kinds, n : Nat, known : BOOLEAN]]
BusyOK   == busy \in Messages \cup {NoMsg} /\ (monitor = "idle" <=> busy = NoMsg)

TypeInv == TypeOK /\ StreamOK /\ BusyOK

\* Where the tasks are: one that waits, or is about to be sent, has not been sent.
Todo(t) == mem.cont[t].todo
Sent == ToSet(dispatched)
Placing ==
    /\ mem.pending \cup mem.submitted \cup mem.completed \cup Sent \subseteq mem.tasks
    /\ mem.pending \cap Sent = {} /\ IsInjective(dispatched)
    /\ \A t \in Ids :
          /\ Todo(t) \subseteq mem.tasks \ (mem.pending \cup Sent)
          /\ \A u \in Ids : t # u => Todo(t) \cap Todo(u) = {}
          /\ mem.cont[t].stage = "none" <=> t \notin mem.completed
          /\ mem.cont[t].stage = "none" => Todo(t) = {}
    /\ \A t \in Ids : (t \in Sent \/ \E u \in Ids : t \in Todo(u)) =>
                        mem.parents[t] \subseteq mem.completed
    /\ \A t \in mem.completed : FinishLogged(t)
    /\ busy # NoMsg => busy.task \in Sent

\* A run that goes on has nothing failed, and what was answered is on its way.
Going ==
    ~Ended(mem) =>
       /\ mem.failed = {}
       /\ \A t \in mem.pending : ~(mem.parents[t] \subseteq mem.completed)
       /\ \A t \in answered : t \in mem.pending \cup Sent \/ \E u \in Ids : t \in Todo(u)

\* An event of the run that cannot reach the log any more.
Lost == \E k \in 1..Len(mem.log) : k <= LastSeq /\ ~OnDisk(k, mem.log[k])

\* The children that are about to be sent belong to the message in hand.
InHand ==
    core = "up" =>
       Lost \/ \A t \in Ids : Todo(t) # {} => busy # NoMsg /\ busy.task = t

\* The numbers in the log, and how far it is ahead of the run.
Logging ==
    /\ \A i \in 1..Len(disk.log) :
          /\ disk.log[i].seq \in 1..LastSeq
          /\ \A j \in 1..Len(disk.log) : disk.log[i].seq = disk.log[j].seq => i = j
    /\ core = "up" => LastSeq <= Len(mem.log) + 1 /\ (Ended(mem) => LastSeq <= Len(mem.log))
    /\ \A t \in Ids : mem.ready[t].seq # 0 =>
          mem.ready[t].seq \in 1..Len(mem.log) /\ mem.log[mem.ready[t].seq].type = "task_ready"

\* The ends that the run has logged.
MemEnds ==
    /\ \A k \in 1..Len(mem.log) :
          /\ mem.log[k].type # "interrupt_dynamic_run"
          /\ mem.log[k].type \in Terminal => Ended(mem) /\ mem.log[k].status = mem.status
    /\ Ended(mem) => \E k \in 1..Len(mem.log) : mem.log[k].type \in Terminal

\* Its ends are all on disk.
Settled == \A k \in 1..Len(mem.log) : mem.log[k].type \in Terminal => OnDisk(k, mem.log[k])

\* What the files say of the end.
Ending ==
    /\ core # "up" /\ Intact /\ Ended(mem) =>
          \A i \in 1..Len(disk.log) :
             disk.log[i].event.type \in Terminal => disk.log[i].event.status = mem.status
    /\ Settled /\ disk.snap.status \in Endings =>
          \E i \in 1..Len(disk.log) :
             disk.log[i].event.type \in Terminal /\ disk.log[i].event.status = disk.snap.status
    /\ core = "recovered" => disk.snap.status \in Endings

DInv == TypeInv /\ Placing /\ Going /\ InHand /\ Logging /\ MemEnds /\ Ending

-------------------------------------------------------------------------------
(* Types of the operators. *)

\* The event that a run logs.
Event(m, type, t) == [type |-> type, task |-> t, status |-> m.status]

\* Two runs with the same tasks in the same states.
SameTasks(m, n) ==
    /\ n.tasks = m.tasks /\ n.parents = m.parents /\ n.pending = m.pending
    /\ n.submitted = m.submitted /\ n.completed = m.completed /\ n.cont = m.cont

\* TypeOK by its parts.
LEMMA Types1 ==
    TypeOK <=> /\ core \in {"up", "down", "recovered", "refused"}
               /\ monitor \in {"idle", "handling", "sleeping"}
               /\ mem \in Runs /\ disk \in Disks
               /\ dispatched \in Seq(Ids) /\ orders \subseteq {"clear_workflow", "stop_workflow"}
               /\ answered \subseteq Ids /\ faults \in 0..MaxFaults /\ calls \in 0..MaxCalls
               /\ mem.pending \cap mem.submitted = {}
               /\ ~Ended(mem) => mem.tasks = mem.pending \cup mem.submitted
BY DEF TypeOK, Runs, Disks, Entries, Snaps

\* A typed run has typed fields.
LEMMA RunFields ==
    ASSUME NEW m \in Runs
    PROVE  /\ m.status \in Statuses /\ m.tasks \subseteq Ids /\ m.parents \in [Ids -> SUBSET Ids]
           /\ m.pending \subseteq Ids /\ m.submitted \subseteq Ids /\ m.running \subseteq Ids
           /\ m.completed \subseteq Ids /\ m.failed \subseteq Ids /\ m.log \in Seq(LogEvents)
           /\ m.cont \in [Ids -> [stage : {"none", "notify", "ready", "completed"}, todo : SUBSET Ids]]
           /\ m.ready \in [Ids -> [seq : Nat, sent : BOOLEAN]]
           /\ Snap(m) \in Snaps /\ Snap(m).status = m.status
BY DEF Runs, Snap, Snaps, Open

\* Logging an event changes nothing but the log.
LEMMA LogFacts ==
    ASSUME NEW m \in Runs, NEW type \in Types, NEW t \in Ids \cup {NoTask},
           t \in Ids \/ type # "task_exception"
    PROVE  /\ Event(m, type, t) \in LogEvents
           /\ Log(m, type, t) \in Runs
           /\ Log(m, type, t).log = Append(m.log, Event(m, type, t))
           /\ SameTasks(m, Log(m, type, t))
           /\ Log(m, type, t).status = m.status /\ Log(m, type, t).ready = m.ready
           /\ Log(m, type, t).failed = m.failed
<1>1. Event(m, type, t) \in LogEvents
  BY RunFields, DynamicAssumption DEF Event, LogEvents
<1>2. Append(m.log, Event(m, type, t)) \in Seq(LogEvents)
  BY <1>1, RunFields
<1> DEFINE l == Append(m.log, Event(m, type, t))
<1>3. Log(m, type, t) = [m EXCEPT !.log = l]
  BY DEF Log, Event, Runs
<1> HIDE DEF l
<1>4. [m EXCEPT !.log = l] \in Runs /\ [m EXCEPT !.log = l].log = l
      /\ SameTasks(m, [m EXCEPT !.log = l])
      /\ [m EXCEPT !.log = l].status = m.status /\ [m EXCEPT !.log = l].ready = m.ready
      /\ [m EXCEPT !.log = l].failed = m.failed
  BY <1>2 DEF Runs, SameTasks, l
<1>5. QED
  BY <1>1, <1>3, <1>4 DEF l

\* A task joins a run.
LEMMA JoinedFacts ==
    ASSUME NEW m \in Runs, NEW t \in Ids, NEW ps \in SUBSET Ids
    PROVE  LET j == Joined(m, t, ps)
           IN  /\ j \in Runs /\ j.tasks = m.tasks \cup {t} /\ j.status = "running"
               /\ j.parents = [m.parents EXCEPT ![t] = ps]
               /\ j.log = m.log /\ j.cont = m.cont /\ j.completed = m.completed /\ j.ready = m.ready
               /\ j.failed = m.failed
               /\ ps \subseteq m.completed => /\ j.submitted = m.submitted \cup {t}
                                              /\ j.pending = m.pending
               /\ ~(ps \subseteq m.completed) => /\ j.pending = m.pending \cup {t}
                                                 /\ j.submitted = m.submitted
<1> DEFINE known == [m EXCEPT !.tasks = @ \cup {t}, !.parents[t] = ps, !.status = "running"]
<1>1. known \in Runs /\ known.tasks = m.tasks \cup {t} /\ known.status = "running"
      /\ known.parents = [m.parents EXCEPT ![t] = ps]
      /\ known.log = m.log /\ known.cont = m.cont /\ known.completed = m.completed
      /\ known.ready = m.ready /\ known.failed = m.failed
      /\ known.submitted = m.submitted /\ known.pending = m.pending
  BY DEF Runs, Statuses, Active
<1>2. Joined(m, t, ps) = IF ps \subseteq m.completed THEN [known EXCEPT !.submitted = @ \cup {t}]
                         ELSE [known EXCEPT !.pending = @ \cup {t}]
  BY DEF Joined
<1> HIDE DEF known
<1>3. \A S \in SUBSET Ids :
         LET n == [known EXCEPT !.submitted = S]
         IN  n \in Runs /\ n.submitted = S
             /\ n.tasks = known.tasks /\ n.status = known.status /\ n.parents = known.parents
             /\ n.log = known.log /\ n.cont = known.cont /\ n.completed = known.completed
             /\ n.ready = known.ready /\ n.failed = known.failed /\ n.pending = known.pending
  BY <1>1 DEF Runs
<1>4. \A S \in SUBSET Ids :
         LET n == [known EXCEPT !.pending = S]
         IN  n \in Runs /\ n.pending = S
             /\ n.tasks = known.tasks /\ n.status = known.status /\ n.parents = known.parents
             /\ n.log = known.log /\ n.cont = known.cont /\ n.completed = known.completed
             /\ n.ready = known.ready /\ n.failed = known.failed /\ n.submitted = known.submitted
  BY <1>1 DEF Runs
<1>5. m.submitted \cup {t} \in SUBSET Ids /\ m.pending \cup {t} \in SUBSET Ids
  BY RunFields
<1>6. CASE ps \subseteq m.completed
  <2> DEFINE S == m.submitted \cup {t}
  <2>1. Joined(m, t, ps) = [known EXCEPT !.submitted = S] /\ S \in SUBSET Ids
    BY <1>1, <1>2, <1>5, <1>6
  <2>2. S = m.submitted \cup {t}
    OBVIOUS
  <2> HIDE DEF S
  <2>3. QED
    BY <1>1, <1>3, <1>6, <2>1, <2>2
<1>7. CASE ~(ps \subseteq m.completed)
  <2>1. Joined(m, t, ps) = [known EXCEPT !.pending = m.pending \cup {t}]
    BY <1>1, <1>2, <1>7
  <2>2. QED
    BY <1>1, <1>4, <1>5, <1>7, <2>1
<1>8. QED
  BY <1>6, <1>7

\* A run is canceled or timed out.
LEMMA AbortedFacts ==
    ASSUME NEW m \in Runs, NEW end \in Endings
    PROVE  LET j == Aborted(m, end)
           IN  /\ j \in Runs /\ j.status = end /\ j.tasks = m.tasks /\ j.parents = m.parents
               /\ j.pending = {} /\ j.submitted = {} /\ j.completed = m.completed
               /\ j.log = m.log /\ j.cont = m.cont /\ j.ready = m.ready
<1>1. Open(m) \subseteq Ids
  BY RunFields DEF Open
<1>2. QED
  BY <1>1 DEF Aborted, Runs, Statuses

\* A task has finished.
LEMMA FinishedFacts ==
    ASSUME NEW m \in Runs, NEW t \in Ids
    PROVE  LET j == Finished(m, t)
               now == {c \in m.pending : m.parents[c] \subseteq m.completed \cup {t}}
           IN  /\ j \in Runs /\ j.status = m.status /\ j.tasks = m.tasks /\ j.parents = m.parents
               /\ j.completed = m.completed \cup {t} /\ j.pending = m.pending \ now
               /\ j.submitted = m.submitted \cup now /\ j.failed = m.failed
               /\ j.cont = [m.cont EXCEPT ![t] = [stage |-> "notify", todo |-> now]]
               /\ j.log = m.log /\ j.ready = m.ready
<1> DEFINE now == {c \in m.pending : m.parents[c] \subseteq m.completed \cup {t}}
           done == m.completed \cup {t}
           rest == m.pending \ now
           more == m.submitted \cup now
           runs == m.running \ {t}
           c1 == [stage |-> "notify", todo |-> now]
<1>1. /\ now \subseteq Ids /\ done \subseteq Ids /\ rest \subseteq Ids /\ more \subseteq Ids
      /\ runs \subseteq Ids
  BY RunFields
<1>2. c1 \in [stage : {"none", "notify", "ready", "completed"}, todo : SUBSET Ids]
  BY <1>1
<1>3. Finished(m, t) =
         [m EXCEPT !.running = runs, !.completed = done, !.submitted = more, !.pending = rest,
                   !.cont[t] = c1]
  BY DEF Finished, Runs
<1>4. /\ c1 = [stage |-> "notify", todo |-> now] /\ done = m.completed \cup {t}
      /\ rest = m.pending \ now /\ more = m.submitted \cup now
  OBVIOUS
<1> HIDE DEF c1, done, now, rest, more, runs
<1>5. Finished(m, t) \in Runs
  <2> DEFINE b == [m EXCEPT !.running = runs, !.completed = done, !.submitted = more,
                            !.pending = rest]
             c == [m.cont EXCEPT ![t] = c1]
  <2>1. b \in Runs /\ b.cont = m.cont
    BY <1>1 DEF Runs
  <2>2. Finished(m, t) = [b EXCEPT !.cont = c]
    BY <1>3 DEF Runs
  <2>3. c \in [Ids -> [stage : {"none", "notify", "ready", "completed"}, todo : SUBSET Ids]]
    BY <1>2 DEF Runs
  <2> HIDE DEF b, c
  <2>4. QED
    BY <2>1, <2>2, <2>3 DEF Runs
<1>6. /\ Finished(m, t).status = m.status /\ Finished(m, t).tasks = m.tasks
      /\ Finished(m, t).parents = m.parents /\ Finished(m, t).completed = done
      /\ Finished(m, t).pending = rest
      /\ Finished(m, t).submitted = more /\ Finished(m, t).failed = m.failed
      /\ Finished(m, t).cont = [m.cont EXCEPT ![t] = c1]
      /\ Finished(m, t).log = m.log /\ Finished(m, t).ready = m.ready
  BY <1>3 DEF Runs
<1>7. QED
  BY <1>4, <1>5, <1>6 DEF now

\* The run j is m after a message, which is logged as e.
IsMarked(m, msg, e, j) ==
    /\ j \in Runs /\ j.log = Append(m.log, e) /\ j.ready = m.ready
    /\ e \in LogEvents /\ e.type # "interrupt_dynamic_run" /\ e.status = j.status
    /\ msg.kind = "finish" => /\ SameTasks(Finished(m, msg.task), j)
                              /\ j.status = m.status
                              /\ e.type = "finish_task" /\ e.task = msg.task
    /\ msg.kind # "finish" => SameTasks(m, j)
    /\ \/ j.status = m.status /\ j.failed = m.failed /\ e.type \notin Terminal
       \/ j.status = msg.end /\ e.type = "task_exception" /\ msg.kind # "finish"

\* What a message makes of a run.
LEMMA MarkedFacts ==
    ASSUME NEW m \in Runs, NEW msg \in Messages
    PROVE  \E e \in LogEvents : IsMarked(m, msg, e, Marked(m, msg))
<1>1. msg.task \in Ids /\ msg.end \in {"failed", "timed_out"}
  BY DEF Messages
<1> DEFINE t == msg.task
<1>2. CASE msg.kind = "start"
  <2> DEFINE b == [m EXCEPT !.running = @ \cup {t}]
  <2>1. /\ b \in Runs /\ SameTasks(m, b) /\ b.status = m.status /\ b.log = m.log
        /\ b.ready = m.ready /\ b.failed = m.failed
    BY <1>1 DEF Runs, SameTasks
  <2>2. Marked(m, msg) = Log(b, "start_task", t)
    BY <1>2 DEF Marked
  <2> HIDE DEF b
  <2>3. "start_task" \in Types \ (Terminal \cup {"interrupt_dynamic_run"})
    BY DEF Types, Terminal
  <2>4. IsMarked(m, msg, Event(b, "start_task", t), Marked(m, msg))
    BY <1>1, <1>2, <2>1, <2>2, <2>3, LogFacts DEF IsMarked, SameTasks, Event, Terminal
  <2>5. QED
    BY <2>4 DEF IsMarked
<1>3. CASE msg.kind = "retry"
  <2> DEFINE b == [m EXCEPT !.running = @ \ {t}]
  <2>1. /\ b \in Runs /\ SameTasks(m, b) /\ b.status = m.status /\ b.log = m.log
        /\ b.ready = m.ready /\ b.failed = m.failed
    BY <1>1 DEF Runs, SameTasks
  <2>2. Marked(m, msg) = Log(b, "task_retry", t)
    BY <1>3 DEF Marked
  <2> HIDE DEF b
  <2>3. "task_retry" \in Types \ (Terminal \cup {"interrupt_dynamic_run"})
    BY DEF Types, Terminal
  <2>4. IsMarked(m, msg, Event(b, "task_retry", t), Marked(m, msg))
    BY <1>1, <1>3, <2>1, <2>2, <2>3, LogFacts DEF IsMarked, SameTasks, Event, Terminal
  <2>5. QED
    BY <2>4 DEF IsMarked
<1>4. CASE msg.kind = "finish"
  <2> DEFINE b == Finished(m, t)
  <2>1. /\ b \in Runs /\ b.status = m.status /\ b.log = m.log
        /\ b.ready = m.ready /\ b.failed = m.failed
    BY <1>1, FinishedFacts
  <2>2. Marked(m, msg) = Log(b, "finish_task", t)
    BY <1>4 DEF Marked
  <2>3. b = Finished(m, msg.task)
    OBVIOUS
  <2> HIDE DEF b
  <2>4. "finish_task" \in Types \ (Terminal \cup {"interrupt_dynamic_run"})
    BY DEF Types, Terminal
  <2>5. IsMarked(m, msg, Event(b, "finish_task", t), Marked(m, msg))
    BY <1>1, <1>4, <2>1, <2>2, <2>3, <2>4, LogFacts DEF IsMarked, SameTasks, Event, Terminal
  <2>6. QED
    BY <2>5 DEF IsMarked
<1>5. CASE msg.kind \notin {"start", "retry", "finish"}
  <2> DEFINE b == [m EXCEPT !.running = @ \ {t}, !.failed = @ \cup {t}, !.status = msg.end]
  <2>1. /\ b \in Runs /\ SameTasks(m, b) /\ b.status = msg.end /\ b.log = m.log /\ b.ready = m.ready
    BY <1>1 DEF Runs, SameTasks, Statuses, Endings
  <2>2. Marked(m, msg) = Log(b, "task_exception", t)
    BY <1>5 DEF Marked
  <2> HIDE DEF b
  <2>3. "task_exception" \in Types /\ "task_exception" # "interrupt_dynamic_run"
    BY DEF Types, Terminal
  <2>4. IsMarked(m, msg, Event(b, "task_exception", t), Marked(m, msg))
    BY <1>1, <1>5, <2>1, <2>2, <2>3, LogFacts DEF IsMarked, SameTasks, Event, Terminal
  <2>5. QED
    BY <2>4 DEF IsMarked
<1>6. QED
  BY <1>2, <1>3, <1>4, <1>5

-------------------------------------------------------------------------------
(* The log on disk. *)

\* The log has got the entry k, ev, above all it had.
Added(k, ev) == disk'.log = Append(disk.log, Logged(k, ev)) /\ k > LastSeq

\* The log is what it was, or has one more entry.
Grown(k, ev) == disk'.log = disk.log \/ Added(k, ev)

LEMMA DiskFields ==
    ASSUME disk \in Disks
    PROVE  /\ disk.log \in Seq(Entries) /\ disk.snap \in Snaps /\ Len(disk.log) \in Nat
           /\ \A i \in 1..Len(disk.log) : disk.log[i] \in Entries
           /\ LastSeq \in Nat
<1>1. disk.log \in Seq(Entries) /\ disk.snap \in Snaps /\ Len(disk.log) \in Nat
  BY DEF Disks
<1>2. \A i \in 1..Len(disk.log) : disk.log[i] \in Entries
  BY <1>1
<1>3. disk.log # <<>> => Len(disk.log) \in 1..Len(disk.log)
  BY <1>1
<1>4. LastSeq \in Nat
  BY <1>1, <1>2, <1>3 DEF LastSeq, Entries
<1>5. QED
  BY <1>1, <1>2, <1>4

\* What a write of an event does.
LEMMA RecordFacts ==
    ASSUME disk \in Disks, faults \in 0..MaxFaults, NEW m \in Runs, NEW k \in Nat,
           NEW ev \in LogEvents, NEW w \in Writes, Outcome(w, k, ev), Record(w, m, k, ev)
    PROVE  /\ disk' \in Disks /\ faults' \in 0..MaxFaults /\ Grown(k, ev)
           /\ w \in {"done", "event", "all"} => \E i \in 1..Len(disk'.log) : disk'.log[i] = Logged(k, ev)
           /\ w \in {"nothing", "conflict"} => disk'.log = disk.log
           /\ w \in {"done", "all"} => disk'.snap = Snap(m)
           /\ w \notin {"done", "all"} => disk'.snap = disk.snap
           /\ (w = "conflict") <=> Conflict(k, ev)
<1>1. /\ disk.log \in Seq(Entries) /\ disk.snap \in Snaps
      /\ Logged(k, ev) \in Entries /\ Snap(m) \in Snaps
  BY DiskFields, RunFields DEF Logged, Entries
<1>2. faults' \in 0..MaxFaults
  BY DynamicAssumption DEF Outcome, Record, Failures
<1>3. (w = "conflict") <=> Conflict(k, ev)
  BY DEF Outcome, Failures
<1> DEFINE l == IF w \in {"done", "event", "all"} /\ ~OnDisk(k, ev)
                THEN Append(disk.log, Logged(k, ev)) ELSE disk.log
           s == IF w \in {"done", "all"} THEN Snap(m) ELSE disk.snap
<1>4. disk' = [log |-> l, snap |-> s]
  BY DEF Record
<1>5. l \in Seq(Entries) /\ s \in Snaps
  BY <1>1
<1>6. disk' \in Disks /\ disk'.log = l /\ disk'.snap = s
  BY <1>4, <1>5 DEF Disks
<1>7. Grown(k, ev)
  <2>1. CASE w \in {"done", "event", "all"} /\ ~OnDisk(k, ev)
    <3>1. ~(k <= LastSeq) /\ LastSeq \in Nat
      BY <1>3, <2>1, DiskFields DEF Conflict
    <3>2. QED
      BY <1>6, <2>1, <3>1 DEF Grown, Added
  <2>2. CASE ~(w \in {"done", "event", "all"} /\ ~OnDisk(k, ev))
    BY <1>6, <2>2 DEF Grown
  <2>3. QED
    BY <2>1, <2>2
<1>8. ASSUME w \in {"done", "event", "all"}
      PROVE  \E i \in 1..Len(disk'.log) : disk'.log[i] = Logged(k, ev)
  <2>1. CASE OnDisk(k, ev)
    <3>1. disk'.log = disk.log
      BY <1>6, <2>1
    <3>2. QED
      BY <2>1, <3>1 DEF OnDisk
  <2>2. CASE ~OnDisk(k, ev)
    <3>1. disk'.log = Append(disk.log, Logged(k, ev))
      BY <1>6, <1>8, <2>2
    <3>2. Len(disk'.log) = Len(disk.log) + 1 /\ disk'.log[Len(disk.log) + 1] = Logged(k, ev)
      BY <1>1, <3>1
    <3>3. Len(disk.log) + 1 \in 1..Len(disk'.log)
      BY <1>1, <3>2
    <3>4. QED
      BY <3>2, <3>3
  <2>3. QED
    BY <2>1, <2>2
<1>9. QED
  BY <1>2, <1>3, <1>6, <1>7, <1>8

\* What a write of the snapshot does.
LEMMA SaveFacts ==
    ASSUME disk \in Disks, faults \in 0..MaxFaults, NEW m \in Runs, NEW w \in Writes, Save(w, m)
    PROVE  /\ disk' \in Disks /\ faults' \in 0..MaxFaults /\ disk'.log = disk.log
           /\ disk'.snap \in {disk.snap, Snap(m)}
<1>1. Snap(m) \in Snaps
  BY RunFields
<1>2. disk' = [disk EXCEPT !.snap = IF w = "nothing" THEN disk.snap ELSE Snap(m)]
  BY DEF Save, Disks
<1>3. faults' \in 0..MaxFaults
  BY DynamicAssumption DEF Save
<1>4. QED
  BY <1>1, <1>2, <1>3 DEF Disks

\* Growing keeps what the log has, and its last number is the greatest.
LEMMA GrownFacts ==
    ASSUME disk \in Disks, NEW k \in Nat, NEW ev \in LogEvents, Grown(k, ev)
    PROVE  /\ \A i \in 1..Len(disk.log) : i \in 1..Len(disk'.log) /\ disk'.log[i] = disk.log[i]
           /\ \A i \in 1..Len(disk'.log) :
                 \/ i \in 1..Len(disk.log)
                 \/ /\ disk'.log[i] = Logged(k, ev) /\ i = Len(disk.log) + 1
                    /\ LastSeq < k /\ LastSeq' = k
           /\ LastSeq <= LastSeq' /\ (LastSeq' = LastSeq \/ LastSeq' = k)
           /\ disk'.log = disk.log => LastSeq' = LastSeq
<1>1. disk.log \in Seq(Entries) /\ Len(disk.log) \in Nat /\ LastSeq \in Nat
  BY DiskFields
<1>2. CASE disk'.log = disk.log
  BY <1>1, <1>2 DEF LastSeq
<1>3. CASE Added(k, ev)
  <2>1. disk'.log = Append(disk.log, Logged(k, ev)) /\ k > LastSeq
    BY <1>3 DEF Added
  <2>2. /\ Len(disk'.log) = Len(disk.log) + 1 /\ disk'.log[Len(disk.log) + 1] = Logged(k, ev)
        /\ \A i \in 1..Len(disk.log) : disk'.log[i] = disk.log[i]
    BY <1>1, <2>1
  <2>3. disk'.log # <<>>
    BY <1>1, <2>1
  <2>4. LastSeq' = k
    BY <1>1, <2>2, <2>3 DEF LastSeq, Logged
  <2>5. QED
    BY <1>1, <2>1, <2>2, <2>4
<1>4. QED
  BY <1>2, <1>3 DEF Grown

\* The same for single entries, and for the finishes in the log.
LEMMA OnDiskFacts ==
    ASSUME disk \in Disks, NEW k \in Nat, NEW ev \in LogEvents, Grown(k, ev)
    PROVE  /\ \A j, e : OnDisk(j, e) => OnDisk(j, e)'
           /\ \A j, e : OnDisk(j, e)' => OnDisk(j, e) \/ (j = k /\ e = ev /\ LastSeq < k /\ LastSeq' = k)
           /\ \A t : FinishLogged(t) => FinishLogged(t)'
<1>1. \A j, e : OnDisk(j, e) => OnDisk(j, e)'
  BY GrownFacts DEF OnDisk
<1>2. \A j, e : OnDisk(j, e)' => OnDisk(j, e) \/ (j = k /\ e = ev /\ LastSeq < k /\ LastSeq' = k)
  <2> SUFFICES ASSUME NEW j, NEW e, OnDisk(j, e)'
               PROVE  OnDisk(j, e) \/ (j = k /\ e = ev /\ LastSeq < k /\ LastSeq' = k)
    OBVIOUS
  <2>1. PICK i \in 1..Len(disk'.log) : disk'.log[i] = Logged(j, e)
    BY DEF OnDisk
  <2>2. Logged(j, e) = Logged(k, ev) => j = k /\ e = ev
    BY DEF Logged
  <2>3. CASE i \in 1..Len(disk.log)
    BY <2>1, <2>3, GrownFacts DEF OnDisk
  <2>4. CASE i \notin 1..Len(disk.log)
    BY <2>1, <2>2, <2>4, GrownFacts
  <2>5. QED
    BY <2>3, <2>4
<1>3. \A t : FinishLogged(t) => FinishLogged(t)'
  BY GrownFacts DEF FinishLogged
<1>4. QED
  BY <1>1, <1>2, <1>3

-------------------------------------------------------------------------------
(* The log in memory and the log on disk. *)

\* The fields of a state in which the invariant holds.
LEMMA InvTypes ==
    ASSUME TypeInv
    PROVE  /\ mem \in Runs /\ disk \in Disks /\ faults \in 0..MaxFaults /\ calls \in 0..MaxCalls
           /\ dispatched \in Seq(Ids) /\ answered \subseteq Ids
           /\ mem.log \in Seq(LogEvents) /\ Len(mem.log) \in Nat /\ LastSeq \in Nat
           /\ \A k \in 1..Len(mem.log) : mem.log[k] \in LogEvents
BY Types1, RunFields, DiskFields DEF TypeInv

\* The event of the message reaches the log of the run: the events before stay.
LEMMA AppendedLog ==
    ASSUME TypeInv, NEW ev \in LogEvents, mem'.log = Append(mem.log, ev)
    PROVE  /\ Len(mem'.log) = Len(mem.log) + 1 /\ mem'.log[Len(mem.log) + 1] = ev
           /\ \A k \in 1..Len(mem.log) : k \in 1..Len(mem'.log) /\ mem'.log[k] = mem.log[k]
           /\ \A k \in 1..Len(mem'.log) : k \in 1..Len(mem.log) \/ k = Len(mem.log) + 1
BY InvTypes

\* An event is logged: of the ends, the run has those it had, or gets one now.
LEMMA MemEndsAppend ==
    ASSUME TypeInv, MemEnds, NEW ev \in LogEvents, mem'.log = Append(mem.log, ev),
           ev.type # "interrupt_dynamic_run", ev.status = mem'.status,
           ev.type \in Terminal => Ended(mem'), Ended(mem) => mem'.status = mem.status,
           Ended(mem') => Ended(mem) \/ ev.type \in Terminal
    PROVE  MemEnds'
<1>1. ASSUME NEW k \in 1..Len(mem'.log)
      PROVE  /\ mem'.log[k].type # "interrupt_dynamic_run"
             /\ mem'.log[k].type \in Terminal => Ended(mem') /\ mem'.log[k].status = mem'.status
  <2>1. CASE k \in 1..Len(mem.log)
    BY <2>1, AppendedLog DEF MemEnds, Ended
  <2>2. CASE k = Len(mem.log) + 1
    BY <2>2, AppendedLog
  <2>3. QED
    BY <2>1, <2>2, AppendedLog
<1>2. ASSUME Ended(mem') PROVE \E k \in 1..Len(mem'.log) : mem'.log[k].type \in Terminal
  <2>1. CASE Ended(mem)
    BY <2>1, AppendedLog DEF MemEnds
  <2>2. CASE ev.type \in Terminal
    <3>1. Len(mem.log) + 1 \in 1..Len(mem'.log)
      BY AppendedLog, InvTypes
    <3>2. QED
      BY <2>2, <3>1, AppendedLog
  <2>3. QED
    BY <1>2, <2>1, <2>2
<1>3. QED
  BY <1>1, <1>2 DEF MemEnds

\* The log of the run stays, and whether and how it has ended.
LEMMA MemEndsKept ==
    ASSUME MemEnds, mem'.log = mem.log, mem'.status = mem.status
    PROVE  MemEnds'
BY DEF MemEnds, Ended

\* The numbers on disk stay different and below the last one.
LEMMA NumbersStep ==
    ASSUME disk \in Disks, NEW k \in Nat, NEW ev \in LogEvents, Grown(k, ev),
           \A i \in 1..Len(disk.log) :
              /\ disk.log[i].seq \in 1..LastSeq
              /\ \A j \in 1..Len(disk.log) : disk.log[i].seq = disk.log[j].seq => i = j
    PROVE  \A i \in 1..Len(disk'.log) :
              /\ disk'.log[i].seq \in 1..LastSeq'
              /\ \A j \in 1..Len(disk'.log) : disk'.log[i].seq = disk'.log[j].seq => i = j
<1>1. LastSeq \in Nat /\ \A i \in 1..Len(disk.log) : disk.log[i].seq \in Nat
  BY DiskFields DEF Entries
<1>2. LastSeq' \in Nat /\ LastSeq <= LastSeq'
  BY <1>1, GrownFacts
<1>3. ASSUME NEW i \in 1..Len(disk'.log)
      PROVE  \/ i \in 1..Len(disk.log) /\ disk'.log[i].seq = disk.log[i].seq
             \/ i = Len(disk.log) + 1 /\ disk'.log[i].seq = k /\ LastSeq < k /\ LastSeq' = k
  <2>1. Logged(k, ev).seq = k
    BY DEF Logged
  <2>2. CASE i \in 1..Len(disk.log)
    BY <2>2, GrownFacts
  <2>3. CASE i \notin 1..Len(disk.log)
    BY <2>1, <2>3, GrownFacts
  <2>4. QED
    BY <2>2, <2>3
<1>4. ASSUME NEW i \in 1..Len(disk'.log) PROVE disk'.log[i].seq \in 1..LastSeq'
  BY <1>1, <1>2, <1>3
<1>5. ASSUME NEW i \in 1..Len(disk'.log), NEW j \in 1..Len(disk'.log),
             disk'.log[i].seq = disk'.log[j].seq
      PROVE  i = j
  <2>1. CASE i \in 1..Len(disk.log) /\ disk'.log[i].seq = disk.log[i].seq
    <3>1. disk'.log[i].seq <= LastSeq
      BY <1>1, <2>1
    <3>2. j \in 1..Len(disk.log) /\ disk'.log[j].seq = disk.log[j].seq
      BY <1>1, <1>3, <1>5, <3>1
    <3>3. QED
      BY <1>5, <2>1, <3>2
  <2>2. CASE i = Len(disk.log) + 1 /\ disk'.log[i].seq = k /\ LastSeq < k
    <3>1. ~(disk'.log[j].seq <= LastSeq)
      BY <1>1, <1>5, <2>2
    <3>2. ~(j \in 1..Len(disk.log) /\ disk'.log[j].seq = disk.log[j].seq)
      BY <1>1, <3>1
    <3>3. QED
      BY <1>3, <2>2, <3>2
  <2>3. QED
    BY <1>3, <2>1, <2>2
<1>6. QED
  BY <1>4, <1>5

\* A step of a process that is up, which may write an event: the logs agree as
\* before, what is lost stays lost, and the snapshot has only ends of the log.
LEMMA LogStep ==
    ASSUME TypeInv, mem' \in Runs, Logging, Ending, MemEnds', core = "up", core' = "up",
           NEW k \in Nat, NEW ev \in LogEvents, Grown(k, ev),
           \/ mem'.log = mem.log
           \/ mem'.log = Append(mem.log, ev) /\ k = Len(mem.log) + 1,
           k <= Len(mem'.log) \/ (~Ended(mem') /\ k = Len(mem'.log) + 1),
           k > Len(mem.log) \/ ev.type \notin Terminal,
           Ended(mem) => Ended(mem'), Ended(mem') /\ ~Ended(mem) => Len(mem'.log) = Len(mem.log) + 1,
           \A t \in Ids : \/ mem'.ready[t].seq = mem.ready[t].seq
                          \/ /\ mem'.ready[t].seq = k /\ ev.type = "task_ready"
                             /\ mem'.log = Append(mem.log, ev),
           \/ disk'.snap = disk.snap
           \/ disk'.snap.status = mem'.status
           \/ /\ disk'.snap.status \in Endings => ev.type \in Terminal /\ ev.status = disk'.snap.status
              /\ \E i \in 1..Len(disk'.log) : disk'.log[i] = Logged(k, ev)
    PROVE  Logging' /\ Ending' /\ (Lost => Lost')
<1>1. /\ mem \in Runs /\ disk \in Disks /\ Len(mem.log) \in Nat /\ LastSeq \in Nat
      /\ Len(mem'.log) \in Nat /\ LastSeq' \in Nat
  <2>1. mem \in Runs /\ disk \in Disks /\ Len(mem.log) \in Nat /\ LastSeq \in Nat
    BY InvTypes
  <2>2. mem'.log \in Seq(LogEvents)
    BY DEF Runs
  <2>3. LastSeq' \in {LastSeq, k}
    BY <2>1, GrownFacts
  <2>4. QED
    BY <2>1, <2>2, <2>3
<1>2. /\ Len(mem.log) <= Len(mem'.log)
      /\ \A j \in 1..Len(mem.log) : j \in 1..Len(mem'.log) /\ mem'.log[j] = mem.log[j]
  BY <1>1, AppendedLog
<1>3. LastSeq <= LastSeq' /\ (LastSeq' = LastSeq \/ LastSeq' = k)
  BY <1>1, GrownFacts
<1>4. Logging'
  <2>1. \A i \in 1..Len(disk'.log) :
           /\ disk'.log[i].seq \in 1..LastSeq'
           /\ \A j \in 1..Len(disk'.log) : disk'.log[i].seq = disk'.log[j].seq => i = j
    BY <1>1, NumbersStep DEF Logging
  <2>2. LastSeq <= Len(mem.log) + 1 /\ (Ended(mem) => LastSeq <= Len(mem.log))
    BY DEF Logging
  <2>3. LastSeq' <= Len(mem'.log) + 1 /\ (Ended(mem') => LastSeq' <= Len(mem'.log))
    BY <1>1, <1>2, <1>3, <2>2
  <2>4. ASSUME NEW t \in Ids, mem'.ready[t].seq # 0
        PROVE  /\ mem'.ready[t].seq \in 1..Len(mem'.log)
               /\ mem'.log[mem'.ready[t].seq].type = "task_ready"
    <3>1. CASE mem'.ready[t].seq = mem.ready[t].seq
      BY <1>2, <2>4, <3>1 DEF Logging
    <3>2. CASE mem'.ready[t].seq # mem.ready[t].seq
      <4>1. k = Len(mem.log) + 1 /\ mem'.log[k] = ev /\ Len(mem'.log) = k
        BY <1>1, <3>2, AppendedLog
      <4>2. k \in 1..Len(mem'.log)
        BY <1>1, <4>1
      <4>3. QED
        BY <3>2, <4>1, <4>2
    <3>3. QED
      BY <3>1, <3>2
  <2>5. QED
    BY <2>1, <2>3, <2>4 DEF Logging
<1>5. ASSUME Lost PROVE Lost'
  <2>1. PICK j \in 1..Len(mem.log) : j <= LastSeq /\ ~OnDisk(j, mem.log[j])
    BY <1>5 DEF Lost
  <2>2. ~OnDisk(j, mem.log[j])'
    <3>1. j \in 1..Len(mem'.log) /\ mem'.log[j] = mem.log[j]
      BY <1>2
    <3>2. ~(LastSeq < j)
      BY <1>1, <2>1
    <3>3. \A f : OnDisk(j, f)' => OnDisk(j, f)
      BY <1>1, <3>2, OnDiskFacts
    <3>4. QED
      BY <2>1, <3>1, <3>3 DEF OnDisk
  <2>3. QED
    BY <1>1, <1>2, <1>3, <2>1, <2>2 DEF Lost, OnDisk
<1>6. ASSUME Settled' PROVE Settled
  <2> SUFFICES ASSUME NEW j \in 1..Len(mem.log), mem.log[j].type \in Terminal
               PROVE  OnDisk(j, mem.log[j])
    BY DEF Settled
  <2>1. j \in 1..Len(mem'.log) /\ mem'.log[j] = mem.log[j]
    BY <1>2
  <2>2. \E i \in 1..Len(disk'.log) : disk'.log[i] = Logged(j, mem.log[j])
    BY <1>6, <2>1 DEF Settled, OnDisk
  <2>3. \A f : OnDisk(j, f)' => OnDisk(j, f) \/ (j = k /\ f = ev)
    BY <1>1, OnDiskFacts
  <2>4. OnDisk(j, mem.log[j]) \/ (j = k /\ mem.log[j] = ev)
    <3>1. PICK f : f = mem.log[j]
      OBVIOUS
    <3>2. OnDisk(j, f)'
      BY <2>2, <3>1 DEF OnDisk
    <3>3. QED
      BY <2>3, <3>1, <3>2
  <2>5. ~(j = k /\ mem.log[j] = ev)
    BY <1>1
  <2>6. QED
    BY <2>4, <2>5
<1>7. ASSUME Settled', disk'.snap.status \in Endings
      PROVE  \E i \in 1..Len(disk'.log) :
                disk'.log[i].event.type \in Terminal /\ disk'.log[i].event.status = disk'.snap.status
  <2>1. CASE disk'.snap = disk.snap
    <3>1. PICK i \in 1..Len(disk.log) :
             disk.log[i].event.type \in Terminal /\ disk.log[i].event.status = disk.snap.status
      BY <1>6, <1>7, <2>1 DEF Ending
    <3>2. i \in 1..Len(disk'.log) /\ disk'.log[i] = disk.log[i]
      BY <1>1, GrownFacts
    <3>3. QED
      BY <2>1, <3>1, <3>2
  <2>2. CASE disk'.snap.status = mem'.status
    <3>1. PICK j \in 1..Len(mem'.log) :
             mem'.log[j].type \in Terminal /\ mem'.log[j].status = mem'.status
      BY <1>7, <2>2 DEF MemEnds, Ended
    <3>2. PICK i \in 1..Len(disk'.log) : disk'.log[i] = Logged(j, mem'.log[j])
      BY <1>7, <3>1 DEF Settled, OnDisk
    <3>3. QED
      BY <2>2, <3>1, <3>2 DEF Logged
  <2>3. CASE /\ disk'.snap.status \in Endings => ev.type \in Terminal /\ ev.status = disk'.snap.status
             /\ \E i \in 1..Len(disk'.log) : disk'.log[i] = Logged(k, ev)
    BY <1>7, <2>3 DEF Logged
  <2>4. QED
    BY <2>1, <2>2, <2>3
<1>8. Ending'
  BY <1>7 DEF Ending
<1>9. QED
  BY <1>4, <1>5, <1>8

\* A step that leaves the log of the run and the log on disk alone.
LEMMA LogKept ==
    ASSUME TypeInv, Logging, Ending, MemEnds,
           mem'.log = mem.log, mem'.status = mem.status, disk'.log = disk.log,
           \A t \in Ids : mem'.ready[t].seq = mem.ready[t].seq,
           \/ core' = "up" /\ disk'.snap.status \in {disk.snap.status, mem.status}
           \/ core = "up" /\ core' = "down" /\ disk'.snap = disk.snap
           \/ /\ core # "up" /\ core' \in {core, "refused"} /\ disk'.snap = disk.snap
           \/ /\ core # "up" /\ core' = "recovered" /\ disk'.snap = disk.snap
              /\ disk.snap.status \in Endings,
           core' = "up" => core = "up"
    PROVE  Logging' /\ MemEnds' /\ Ending' /\ (Lost <=> Lost')
<1>1. LastSeq' = LastSeq /\ (\A j, e : OnDisk(j, e)' <=> OnDisk(j, e)) /\ (Ended(mem') <=> Ended(mem))
  BY DEF LastSeq, OnDisk, Ended
<1>2. MemEnds'
  BY MemEndsKept
<1>3. Logging'
  BY <1>1 DEF Logging
<1>4. Lost <=> Lost'
  BY <1>1 DEF Lost, OnDisk
<1>5. (Settled' <=> Settled) /\ (Intact' <=> Intact)
  BY DEF Settled, Intact, OnDisk
<1>6. ASSUME Settled', disk'.snap.status \in Endings
      PROVE  \E i \in 1..Len(disk'.log) :
                disk'.log[i].event.type \in Terminal /\ disk'.log[i].event.status = disk'.snap.status
  <2>1. CASE disk'.snap.status = disk.snap.status
    BY <1>5, <1>6, <2>1 DEF Ending
  <2>2. CASE disk'.snap.status = mem.status
    <3>1. PICK j \in 1..Len(mem.log) :
             mem.log[j].type \in Terminal /\ mem.log[j].status = mem.status
      BY <1>6, <2>2 DEF MemEnds, Ended
    <3>2. PICK i \in 1..Len(disk.log) : disk.log[i] = Logged(j, mem.log[j])
      BY <1>5, <1>6, <3>1 DEF Settled, OnDisk
    <3>3. QED
      BY <2>2, <3>1, <3>2 DEF Logged
  <2>3. QED
    BY <2>1, <2>2
<1>7. ASSUME core' # "up", Intact, Ended(mem), NEW i \in 1..Len(disk.log),
             disk.log[i].event.type \in Terminal
      PROVE  disk.log[i].event.status = mem.status
  <2>1. CASE core # "up"
    BY <1>7, <2>1 DEF Ending
  <2>2. CASE core = "up"
    <3>1. disk.log[i].seq \in 1..LastSeq /\ LastSeq <= Len(mem.log) /\ LastSeq \in Nat
      BY <1>7, <2>2, InvTypes DEF Logging
    <3>2. PICK k : k = disk.log[i].seq
      OBVIOUS
    <3>3. k \in 1..Len(mem.log)
      BY <3>1, <3>2, InvTypes
    <3>4. PICK j \in 1..Len(disk.log) : disk.log[j] = Logged(k, mem.log[k])
      BY <1>7, <3>3 DEF Intact, OnDisk
    <3>5. i = j
      BY <3>2, <3>4 DEF Logging, Logged
    <3>6. disk.log[i].event = mem.log[k]
      BY <3>4, <3>5 DEF Logged
    <3>7. QED
      BY <1>7, <3>3, <3>6 DEF MemEnds
  <2>3. QED
    BY <2>1, <2>2
<1>8. Ending'
  BY <1>1, <1>5, <1>6, <1>7 DEF Ending
<1>9. QED
  BY <1>2, <1>3, <1>4, <1>8

-------------------------------------------------------------------------------
(* The places of the tasks. *)

\* TypeInv of the next state by its parts.
LEMMA TypesNext ==
    ASSUME core' \in {"up", "down", "recovered", "refused"},
           monitor' \in {"idle", "handling", "sleeping"},
           mem' \in Runs, disk' \in Disks,
           dispatched' \in Seq(Ids), orders' \subseteq {"clear_workflow", "stop_workflow"},
           answered' \subseteq Ids, faults' \in 0..MaxFaults, calls' \in 0..MaxCalls,
           mem'.pending \cap mem'.submitted = {},
           ~Ended(mem') => mem'.tasks = mem'.pending \cup mem'.submitted,
           last' \in [Ids -> [kind : Stream!Kinds, n : Nat, known : BOOLEAN]],
           busy' \in Messages \cup {NoMsg}, (monitor' = "idle") <=> (busy' = NoMsg)
    PROVE  TypeInv'
<1>1. StreamOK' /\ BusyOK'
  BY DEF StreamOK, BusyOK
<1>2. TypeOK'
  BY DEF TypeOK, Runs, Disks, Entries, Snaps
<1>3. QED
  BY <1>1, <1>2 DEF TypeInv

\* TypeInv of this state by its parts.
LEMMA TypesNow ==
    ASSUME TypeInv
    PROVE  /\ core \in {"up", "down", "recovered", "refused"}
           /\ monitor \in {"idle", "handling", "sleeping"}
           /\ mem \in Runs /\ disk \in Disks
           /\ dispatched \in Seq(Ids) /\ orders \subseteq {"clear_workflow", "stop_workflow"}
           /\ answered \subseteq Ids /\ faults \in 0..MaxFaults /\ calls \in 0..MaxCalls
           /\ mem.pending \cap mem.submitted = {}
           /\ ~Ended(mem) => mem.tasks = mem.pending \cup mem.submitted
           /\ last \in [Ids -> [kind : Stream!Kinds, n : Nat, known : BOOLEAN]]
           /\ busy \in Messages \cup {NoMsg} /\ (monitor = "idle" <=> busy = NoMsg)
           /\ busy # NoMsg => busy \in Messages /\ busy.task \in Ids
BY Types1 DEF TypeInv, StreamOK, BusyOK, Messages

\* Every task stays where it is, or is dropped.
LEMMA PlacingKept ==
    ASSUME Placing, mem'.tasks = mem.tasks, mem'.parents = mem.parents,
           mem'.completed = mem.completed, mem'.pending \subseteq mem.pending,
           mem'.submitted \subseteq mem.submitted, dispatched' = dispatched,
           \A t \in Ids : /\ mem'.cont[t].todo = mem.cont[t].todo
                          /\ (mem'.cont[t].stage = "none") <=> (mem.cont[t].stage = "none"),
           \A t : FinishLogged(t) => FinishLogged(t)',
           busy' # NoMsg => busy'.task \in Sent
    PROVE  Placing'
<1>1. Sent' = Sent /\ \A t \in Ids : Todo(t)' = Todo(t)
  BY DEF Sent, Todo
<1>2. QED
  BY <1>1 DEF Placing

\* What was answered is still on its way.
LEMMA GoingKept ==
    ASSUME Going, Ended(mem) => Ended(mem'), dispatched' = dispatched,
           ~Ended(mem') => /\ mem'.failed = mem.failed /\ mem'.pending = mem.pending
                           /\ mem'.parents = mem.parents /\ mem'.completed = mem.completed
                           /\ answered' = answered,
           \A t \in Ids : mem'.cont[t].todo = mem.cont[t].todo
    PROVE  Going'
<1>1. Sent' = Sent /\ \A t \in Ids : Todo(t)' = Todo(t)
  BY DEF Sent, Todo
<1>2. QED
  BY <1>1 DEF Going

\* No child is added, and the message in hand stays.
LEMMA InHandKept ==
    ASSUME InHand, Lost => Lost', core' = "up" => core = "up",
           \A t \in Ids : mem'.cont[t].todo \subseteq mem.cont[t].todo,
           Lost' \/ busy = NoMsg \/ busy' = busy \/ mem'.cont[busy.task].todo = {}
    PROVE  InHand'
BY DEF InHand, Todo

\* A sequence with one more element, which it did not have.
LEMMA AppendSent ==
    ASSUME NEW s \in Seq(Ids), NEW t \in Ids
    PROVE  /\ Append(s, t) \in Seq(Ids) /\ ToSet(Append(s, t)) = ToSet(s) \cup {t}
           /\ IsInjective(s) /\ t \notin ToSet(s) => IsInjective(Append(s, t))
<1>1. Append(s, t) \in Seq(Ids) /\ Len(Append(s, t)) = Len(s) + 1 /\ Len(s) \in Nat
  OBVIOUS
<1>2. \A i \in 1..Len(s) + 1 : Append(s, t)[i] = IF i = Len(s) + 1 THEN t ELSE s[i]
  OBVIOUS
<1>3. \A q \in Seq(Ids) : DOMAIN q = 1..Len(q) /\ ToSet(q) = {q[i] : i \in 1..Len(q)}
  BY DEF ToSet
<1>4. ToSet(Append(s, t)) = ToSet(s) \cup {t}
  <2>1. ToSet(s) = {s[i] : i \in 1..Len(s)}
    BY <1>3
  <2>2. ToSet(Append(s, t)) = {Append(s, t)[i] : i \in 1..Len(s) + 1}
    BY <1>1, <1>3
  <2>3. 1..Len(s) + 1 = (1..Len(s)) \cup {Len(s) + 1} /\ Len(s) + 1 \notin 1..Len(s)
    BY <1>1
  <2>4. QED
    BY <1>2, <2>1, <2>2, <2>3
<1>5. ASSUME IsInjective(s), t \notin ToSet(s) PROVE IsInjective(Append(s, t))
  <2>1. \A i \in 1..Len(s) : s[i] # t
    BY <1>3, <1>5
  <2>2. \A i, j \in 1..Len(s) : s[i] = s[j] => i = j
    BY <1>3, <1>5 DEF IsInjective
  <2>3. DOMAIN Append(s, t) = 1..Len(s) + 1
    BY <1>1
  <2>4. \A i, j \in 1..Len(s) + 1 : Append(s, t)[i] = Append(s, t)[j] => i = j
    BY <1>1, <1>2, <2>1, <2>2
  <2>5. QED
    BY <2>3, <2>4 DEF IsInjective
<1>6. QED
  BY <1>1, <1>4, <1>5

-------------------------------------------------------------------------------
(* Requests and the deadline. *)

\* What a request of a run with the log m.log writes.
LEMMA EmitFacts ==
    ASSUME DInv, NEW m \in Runs, mem' = m, NEW ev \in LogEvents, m.log = Append(mem.log, ev),
           NEW w \in Writes, Emit(w, m), core = "up", core' = "up",
           ev.type # "interrupt_dynamic_run", ev.status = m.status,
           ev.type \in Terminal => Ended(m), Ended(mem) => m.status = mem.status,
           Ended(m) => Ended(mem) \/ ev.type \in Terminal,
           \A t \in Ids : \/ m.ready[t].seq = mem.ready[t].seq
                          \/ m.ready[t].seq = Len(mem.log) + 1 /\ ev.type = "task_ready"
    PROVE  /\ disk' \in Disks /\ faults' \in 0..MaxFaults
           /\ Logging' /\ MemEnds' /\ Ending' /\ (Lost => Lost')
           /\ \A t : FinishLogged(t) => FinishLogged(t)'
           /\ w = "conflict" => Lost'
           /\ w = "done" /\ ev.type = "finish_task" => FinishLogged(ev.task)'
<1>1. PICK k \in Nat : k = Len(mem.log) + 1
  BY InvTypes DEF DInv
<1>2. Len(m.log) = k /\ m.log[k] = ev /\ Len(mem.log) \in Nat
  BY <1>1, InvTypes, AppendedLog DEF DInv
<1>3. Outcome(w, k, ev) /\ Record(w, m, k, ev)
  BY <1>2 DEF Emit
<1>4. disk \in Disks /\ faults \in 0..MaxFaults /\ TypeInv
  BY InvTypes DEF DInv
<1>5. /\ disk' \in Disks /\ faults' \in 0..MaxFaults /\ Grown(k, ev)
      /\ w \in {"done", "event", "all"} => \E i \in 1..Len(disk'.log) : disk'.log[i] = Logged(k, ev)
      /\ w \in {"nothing", "conflict"} => disk'.log = disk.log
      /\ disk'.snap \in {disk.snap, Snap(m)}
      /\ (w = "conflict") <=> Conflict(k, ev)
  BY <1>2, <1>3, <1>4, RecordFacts
<1>6. MemEnds'
  BY <1>4, MemEndsAppend DEF DInv
<1>7. disk'.snap = disk.snap \/ disk'.snap.status = mem'.status
  BY <1>5, RunFields
<1>8. Logging' /\ Ending' /\ (Lost => Lost')
  <2>1. Ended(mem) => Ended(mem')
    BY DEF Ended
  <2>2. k <= Len(mem'.log) /\ k > Len(mem.log) /\ Len(mem'.log) = Len(mem.log) + 1
    BY <1>2, <1>1
  <2>3. \A t \in Ids : \/ mem'.ready[t].seq = mem.ready[t].seq
                       \/ /\ mem'.ready[t].seq = k /\ ev.type = "task_ready"
                          /\ mem'.log = Append(mem.log, ev)
    BY <1>1
  <2>4. QED
    BY <1>2, <1>4, <1>1, <1>5, <1>6, <1>7, <2>1, <2>2, <2>3, LogStep DEF DInv
<1>9. \A t : FinishLogged(t) => FinishLogged(t)'
  BY <1>2, <1>4, <1>5, OnDiskFacts
<1>10. w = "conflict" => Lost'
  <2> SUFFICES ASSUME w = "conflict" PROVE Lost'
    OBVIOUS
  <2>1. disk'.log = disk.log /\ ~OnDisk(k, ev) /\ k <= LastSeq
    BY <1>5 DEF Conflict
  <2>2. LastSeq' = LastSeq /\ ~OnDisk(k, mem.log[k])'
    BY <1>2, <2>1 DEF LastSeq, OnDisk
  <2>3. k \in 1..Len(mem'.log)
    BY <1>2
  <2>4. QED
    BY <2>1, <2>2, <2>3 DEF Lost
<1>11. w = "done" /\ ev.type = "finish_task" => FinishLogged(ev.task)'
  BY <1>5 DEF FinishLogged, Logged
<1>12. QED
  BY <1>5, <1>6, <1>8, <1>9, <1>10, <1>11

\* A request that moves no task keeps the invariant, or one that ends the run and
\* drops what waits.
LEMMA QuietRequest ==
    ASSUME DInv, NEW m \in Runs, mem' = m, NEW ev \in LogEvents, m.log = Append(mem.log, ev),
           NEW w \in Writes, Emit(w, m), core = "up", core' = "up",
           ev.type # "interrupt_dynamic_run", ev.status = m.status,
           ev.type \in Terminal => Ended(m), Ended(mem) => m.status = mem.status,
           Ended(m) => Ended(mem) \/ ev.type \in Terminal,
           m.ready = mem.ready, m.tasks = mem.tasks, m.parents = mem.parents,
           m.completed = mem.completed, m.cont = mem.cont,
           m.pending \subseteq mem.pending, m.submitted \subseteq mem.submitted,
           ~Ended(m) => /\ m.pending = mem.pending /\ m.submitted = mem.submitted
                        /\ m.failed = mem.failed,
           dispatched' = dispatched, orders' \subseteq {"clear_workflow", "stop_workflow"},
           UNCHANGED <<monitor, busy, last, answered>>, calls' \in 0..MaxCalls
    PROVE  DInv'
<1>1. /\ disk' \in Disks /\ faults' \in 0..MaxFaults
      /\ Logging' /\ MemEnds' /\ Ending' /\ (Lost => Lost')
      /\ \A t : FinishLogged(t) => FinishLogged(t)'
  BY EmitFacts
<1>2. Ended(mem) => Ended(m)
  BY DEF Ended
<1>3. TypeInv'
  BY <1>1, <1>2, TypesNow, TypesNext DEF DInv
<1>4. Placing'
  BY <1>1, PlacingKept DEF DInv, Placing
<1>5. Going'
  BY <1>2, GoingKept DEF DInv
<1>6. InHand'
  BY <1>1, InHandKept DEF DInv
<1>7. QED
  BY <1>1, <1>3, <1>4, <1>5, <1>6 DEF DInv

\* The client finalizes the run.
LEMMA FinalizeStep ==
    ASSUME DInv, Finalize
    PROVE  DInv'
<1> DEFINE b == [mem EXCEPT !.status = "finalized"]
           m == Log(b, "finish_workflow", NoTask)
<1>1. mem \in Runs
  BY InvTypes DEF DInv
<1>2. b \in Runs /\ SameTasks(mem, b) /\ b.status = "finalized" /\ b.log = mem.log /\ b.ready = mem.ready
  BY <1>1 DEF Runs, SameTasks, Statuses, Endings
<1>3. PICK w \in Writes : Emit(w, m) /\ (IF w = "done" THEN Order("clear_workflow") ELSE Quiet)
  BY DEF Finalize
<1>4. /\ mem' = m /\ core = "up" /\ core' = "up" /\ UNCHANGED <<monitor, busy, last, answered>>
      /\ calls' = calls + 1 /\ calls < MaxCalls
      /\ Ended(mem) => mem.status = "finalized"
  BY DEF Finalize, Free
<1>5. dispatched' = dispatched /\ orders' \subseteq {"clear_workflow", "stop_workflow"}
  BY <1>3, TypesNow DEF Order, Quiet, DInv
<1>6. "finish_workflow" \in Types /\ "finish_workflow" \in Terminal
      /\ "finish_workflow" # "interrupt_dynamic_run"
  BY DEF Types, Terminal
<1> HIDE DEF b
<1>7. PICK ev \in LogEvents : ev = Event(b, "finish_workflow", NoTask)
  BY <1>2, <1>6, LogFacts
<1>8. /\ m \in Runs /\ m.log = Append(mem.log, ev) /\ SameTasks(b, m) /\ m.status = "finalized"
      /\ m.ready = mem.ready
  BY <1>2, <1>6, <1>7, LogFacts
<1>9. ev.type = "finish_workflow" /\ ev.status = "finalized"
  BY <1>2, <1>7 DEF Event
<1>10. Ended(m)
  BY <1>8 DEF Ended, Endings
<1>11. calls' \in 0..MaxCalls
  BY <1>4, TypesNow, DynamicAssumption DEF DInv
<1> HIDE DEF m
<1>12. /\ m.tasks = mem.tasks /\ m.parents = mem.parents /\ m.completed = mem.completed
       /\ m.cont = mem.cont /\ m.pending = mem.pending /\ m.submitted = mem.submitted
  BY <1>2, <1>8 DEF SameTasks
<1>13. QED
  BY <1>3, <1>4, <1>5, <1>6, <1>8, <1>9, <1>10, <1>11, <1>12, QuietRequest

\* Canceling the run and its deadline.
LEMMA AbortStep ==
    ASSUME DInv, Cancel \/ Timeout
    PROVE  DInv'
<1>1. PICK end \in {"canceled", "timed_out"}, type \in {"cancel_dynamic_run", "timeout_dynamic_run"} :
         \E w \in Writes :
            /\ mem' = Log(Aborted(mem, end), type, NoTask) /\ Emit(w, mem')
            /\ IF w = "done" THEN Order("stop_workflow") ELSE Quiet
  BY DEF Cancel, Timeout
<1> DEFINE b == Aborted(mem, end)
           m == Log(b, type, NoTask)
<1>2. mem \in Runs
  BY InvTypes DEF DInv
<1>3. b \in Runs /\ b.status = end /\ b.tasks = mem.tasks /\ b.parents = mem.parents
      /\ b.pending = {} /\ b.submitted = {} /\ b.completed = mem.completed
      /\ b.log = mem.log /\ b.cont = mem.cont /\ b.ready = mem.ready
  BY <1>2, AbortedFacts DEF Endings
<1>4. PICK w \in Writes : mem' = m /\ Emit(w, mem')
                          /\ (IF w = "done" THEN Order("stop_workflow") ELSE Quiet)
  BY <1>1
<1>5. /\ core = "up" /\ core' = "up" /\ UNCHANGED <<monitor, busy, last, answered, calls>>
      /\ ~Ended(mem)
  BY DEF Cancel, Timeout, Free
<1>6. dispatched' = dispatched /\ orders' \subseteq {"clear_workflow", "stop_workflow"}
      /\ calls' \in 0..MaxCalls
  BY <1>4, <1>5, TypesNow DEF Order, Quiet, DInv
<1>7. type \in Types /\ type \in Terminal /\ type # "interrupt_dynamic_run"
  BY DEF Types, Terminal
<1> HIDE DEF b
<1>8. PICK ev \in LogEvents : ev = Event(b, type, NoTask)
  BY <1>3, <1>7, LogFacts
<1>9. /\ m \in Runs /\ m.log = Append(mem.log, ev) /\ SameTasks(b, m) /\ m.status = end
      /\ m.ready = mem.ready
  BY <1>3, <1>7, <1>8, LogFacts
<1>10. ev.type = type /\ ev.status = end
  BY <1>3, <1>8 DEF Event
<1>11. Ended(m)
  BY <1>9 DEF Ended, Endings
<1> HIDE DEF m
<1>12. /\ m.tasks = mem.tasks /\ m.parents = mem.parents /\ m.completed = mem.completed
       /\ m.cont = mem.cont /\ m.pending = {} /\ m.submitted = {}
  BY <1>3, <1>9 DEF SameTasks
<1>13. Emit(w, m) /\ mem' = m
  BY <1>4
<1>14. QED
  BY <1>5, <1>6, <1>7, <1>9, <1>10, <1>11, <1>12, <1>13, QuietRequest

\* An event of the client.
LEMMA EmitEventStep ==
    ASSUME DInv, EmitEvent
    PROVE  DInv'
<1> DEFINE m == Log(mem, "domain", NoTask)
<1>1. mem \in Runs
  BY InvTypes DEF DInv
<1>2. PICK w \in Writes : Emit(w, m)
  BY DEF EmitEvent
<1>3. /\ mem' = m /\ core = "up" /\ core' = "up" /\ UNCHANGED <<monitor, busy, last, answered>>
      /\ calls' = calls + 1 /\ calls < MaxCalls /\ ~Ended(mem)
      /\ dispatched' = dispatched /\ orders' = orders
  BY DEF EmitEvent, Free
<1>4. "domain" \in Types /\ "domain" \notin Terminal
      /\ "domain" # "interrupt_dynamic_run"
  BY DEF Types, Terminal
<1>5. PICK ev \in LogEvents : ev = Event(mem, "domain", NoTask)
  BY <1>1, <1>4, LogFacts
<1>6. /\ m \in Runs /\ m.log = Append(mem.log, ev) /\ SameTasks(mem, m) /\ m.status = mem.status
      /\ m.ready = mem.ready /\ m.failed = mem.failed
  BY <1>1, <1>4, <1>5, LogFacts
<1>7. ev.type = "domain" /\ ev.status = mem.status
  BY <1>5 DEF Event
<1>8. calls' \in 0..MaxCalls /\ orders' \subseteq {"clear_workflow", "stop_workflow"}
  BY <1>3, TypesNow, DynamicAssumption DEF DInv
<1> HIDE DEF m
<1>9. (Ended(m) <=> Ended(mem)) /\ (Ended(mem') <=> Ended(mem))
  BY <1>3, <1>6 DEF Ended
<1>10. QED
  BY <1>2, <1>3, <1>4, <1>6, <1>7, <1>8, <1>9, QuietRequest DEF SameTasks

\* A task is appended.
LEMMA AppendStep ==
    ASSUME DInv, NEW t \in Ids, NEW ps \in SUBSET Ids, AppendTask(t, ps)
    PROVE  DInv'
<1> DEFINE b == Joined(mem, t, ps)
           m == Log(b, "append_task", t)
<1>1. mem \in Runs /\ TypeInv
  BY InvTypes DEF DInv
<1>2. /\ b \in Runs /\ b.tasks = mem.tasks \cup {t} /\ b.status = "running"
      /\ b.parents = [mem.parents EXCEPT ![t] = ps]
      /\ b.log = mem.log /\ b.cont = mem.cont /\ b.completed = mem.completed /\ b.ready = mem.ready
      /\ b.failed = mem.failed
      /\ ps \subseteq mem.completed => /\ b.submitted = mem.submitted \cup {t}
                                       /\ b.pending = mem.pending
      /\ ~(ps \subseteq mem.completed) => /\ b.pending = mem.pending \cup {t}
                                          /\ b.submitted = mem.submitted
  BY <1>1, JoinedFacts
<1>3. /\ mem' = m /\ core = "up" /\ core' = "up" /\ UNCHANGED <<monitor, busy, last, calls>>
      /\ ~Ended(mem) /\ t \notin mem.tasks /\ ps \subseteq mem.tasks
  BY DEF AppendTask, Free
<1>4. PICK w \in Writes :
         /\ Emit(w, m)
         /\ answered' = IF w = "done" THEN answered \cup {t} ELSE answered
         /\ IF w = "done" /\ t \in m.submitted THEN Submit(t) ELSE Quiet
  BY DEF AppendTask
<1>5. "append_task" \in Types /\ "append_task" \notin Terminal
      /\ "append_task" # "interrupt_dynamic_run"
  BY DEF Types, Terminal
<1> HIDE DEF b
<1>6. PICK ev \in LogEvents : ev = Event(b, "append_task", t)
  BY <1>2, <1>5, LogFacts
<1>7. /\ m \in Runs /\ m.log = Append(mem.log, ev) /\ SameTasks(b, m) /\ m.status = "running"
      /\ m.ready = mem.ready /\ m.failed = mem.failed
  BY <1>2, <1>5, <1>6, LogFacts
<1>8. ev.type = "append_task" /\ ev.status = "running"
  BY <1>2, <1>6 DEF Event
<1> HIDE DEF m
<1>9. ~Ended(m) /\ ~Ended(mem')
  BY <1>3, <1>7 DEF Ended, Endings
<1>10. /\ disk' \in Disks /\ faults' \in 0..MaxFaults
       /\ Logging' /\ MemEnds' /\ Ending' /\ (Lost => Lost')
       /\ \A u : FinishLogged(u) => FinishLogged(u)'
  BY <1>3, <1>4, <1>5, <1>7, <1>8, <1>9, EmitFacts
<1>11. /\ mem'.tasks = mem.tasks \cup {t} /\ mem'.cont = mem.cont /\ mem'.completed = mem.completed
       /\ mem'.parents = [mem.parents EXCEPT ![t] = ps] /\ mem'.failed = mem.failed
       /\ mem'.pending \subseteq mem.pending \cup {t} /\ mem.pending \subseteq mem'.pending
       /\ ps \subseteq mem.completed => /\ mem'.submitted = mem.submitted \cup {t}
                                        /\ mem'.pending = mem.pending
       /\ ~(ps \subseteq mem.completed) => /\ mem'.pending = mem.pending \cup {t}
                                           /\ mem'.submitted = mem.submitted
  BY <1>2, <1>3, <1>7 DEF SameTasks
<1>12. t \notin mem.submitted /\ t \notin mem.pending /\ t \notin Sent /\ t \notin mem.completed
  BY <1>3 DEF DInv, Placing
<1>13. \/ dispatched' = dispatched
       \/ dispatched' = Append(dispatched, t) /\ ps \subseteq mem.completed
  BY <1>3, <1>4, <1>11, <1>12 DEF Submit, Quiet
<1>14. dispatched' \in Seq(Ids) /\ Sent' \subseteq Sent \cup {t} /\ Sent \subseteq Sent'
       /\ (t \in Sent' => ps \subseteq mem.completed) /\ IsInjective(dispatched')
  <2>1. dispatched \in Seq(Ids) /\ IsInjective(dispatched) /\ t \notin ToSet(dispatched)
    BY <1>1, <1>12, TypesNow DEF Sent, DInv, Placing
  <2>2. CASE dispatched' = dispatched
    BY <1>12, <2>1, <2>2 DEF Sent
  <2>3. CASE dispatched' = Append(dispatched, t) /\ ps \subseteq mem.completed
    <3>1. /\ dispatched' \in Seq(Ids) /\ ToSet(dispatched') = ToSet(dispatched) \cup {t}
          /\ IsInjective(dispatched')
      BY <2>1, <2>3, AppendSent
    <3>2. QED
      BY <2>3, <3>1 DEF Sent
  <2>4. QED
    BY <1>13, <2>2, <2>3
<1>15. orders' = orders /\ answered' \subseteq answered \cup {t}
  BY <1>4 DEF Submit, Quiet
<1>16. t \in answered' => t \in mem'.pending \cup Sent'
  <2>1. t \notin answered
    BY <1>3, <1>12 DEF DInv, Going, Placing, TypeInv
  <2>2. SUFFICES ASSUME w = "done" PROVE t \in mem'.pending \cup Sent'
    BY <1>4, <2>1
  <2>3. CASE ps \subseteq mem.completed
    <3>1. dispatched' = Append(dispatched, t)
      BY <1>3, <1>4, <1>11, <2>2, <2>3 DEF Submit
    <3>2. QED
      BY <1>1, <3>1, AppendSent, TypesNow DEF Sent
  <2>4. CASE ~(ps \subseteq mem.completed)
    BY <1>11, <2>4
  <2>5. QED
    BY <2>3, <2>4
<1>17. TypeInv'
  <2>1. mem'.pending \cap mem'.submitted = {} /\ mem'.tasks = mem'.pending \cup mem'.submitted
    BY <1>1, <1>3, <1>11, <1>12, TypesNow
  <2>2. answered' \subseteq Ids /\ orders' \subseteq {"clear_workflow", "stop_workflow"}
    BY <1>1, <1>15, TypesNow
  <2>3. QED
    BY <1>1, <1>3, <1>7, <1>10, <1>14, <2>1, <2>2, TypesNow, TypesNext
<1>18. \A u \in Ids : /\ Todo(u)' = Todo(u) /\ t \notin Todo(u)
                      /\ mem'.parents[u] = IF u = t THEN ps ELSE mem.parents[u]
  <2>1. \A u \in Ids : Todo(u)' = Todo(u) /\ t \notin Todo(u)
    BY <1>3, <1>11 DEF Todo, DInv, Placing
  <2>2. mem.parents \in [Ids -> SUBSET Ids]
    BY <1>1, RunFields
  <2>3. QED
    BY <1>11, <2>1, <2>2
<1>19. Placing'
  <2>1. mem'.pending \cup mem'.submitted \cup mem'.completed \cup Sent' \subseteq mem'.tasks
    BY <1>11, <1>14 DEF DInv, Placing
  <2>2. mem'.pending \cap Sent' = {}
    BY <1>11, <1>12, <1>14 DEF DInv, Placing
  <2>3. \A u \in Ids : Todo(u)' \subseteq mem'.tasks \ (mem'.pending \cup Sent')
    BY <1>11, <1>14, <1>18 DEF DInv, Placing
  <2>4. \A u \in Ids : (u \in Sent' \/ \E v \in Ids : u \in Todo(v)') =>
                          mem'.parents[u] \subseteq mem'.completed
    BY <1>11, <1>14, <1>18 DEF DInv, Placing
  <2>5. \A u \in mem'.completed : FinishLogged(u)'
    BY <1>10, <1>11 DEF DInv, Placing
  <2>6. busy' # NoMsg => busy'.task \in Sent'
    BY <1>3, <1>14 DEF DInv, Placing
  <2>7. \A u \in Ids : /\ \A v \in Ids : u # v => Todo(u)' \cap Todo(v)' = {}
                       /\ (mem'.cont[u].stage = "none") <=> (u \notin mem'.completed)
                       /\ mem'.cont[u].stage = "none" => Todo(u)' = {}
    BY <1>11, <1>18 DEF DInv, Placing
  <2>8. QED
    BY <1>14, <2>1, <2>2, <2>3, <2>4, <2>5, <2>6, <2>7 DEF Placing
<1>20. Going'
  <2>1. mem'.failed = {}
    BY <1>3, <1>11 DEF DInv, Going
  <2>2. \A u \in mem'.pending : ~(mem'.parents[u] \subseteq mem'.completed)
    <3>1. mem'.pending \subseteq Ids
      BY <1>3, <1>7, RunFields
    <3>2. QED
      BY <1>3, <1>11, <1>12, <1>18, <3>1 DEF DInv, Going
  <2>3. \A u \in answered' : u \in mem'.pending \cup Sent' \/ \E v \in Ids : u \in Todo(v)'
    BY <1>3, <1>11, <1>14, <1>15, <1>16, <1>18 DEF DInv, Going
  <2>4. QED
    BY <2>1, <2>2, <2>3 DEF Going
<1>21. InHand'
  BY <1>3, <1>10, <1>11, InHandKept DEF DInv
<1>22. QED
  BY <1>10, <1>17, <1>19, <1>20, <1>21 DEF DInv

-------------------------------------------------------------------------------
(* The snapshot alone, and the messages. *)

\* A write of the snapshot of a run whose log and end are what they were.
LEMMA SaveLogs ==
    ASSUME DInv, NEW m \in Runs, mem' = m, m.log = mem.log, m.status = mem.status,
           m.ready = mem.ready, core = "up", core' = "up", NEW w \in Writes, Save(w, m)
    PROVE  /\ disk' \in Disks /\ faults' \in 0..MaxFaults
           /\ Logging' /\ MemEnds' /\ Ending' /\ (Lost => Lost')
           /\ \A t : FinishLogged(t) => FinishLogged(t)'
<1>1. disk \in Disks /\ faults \in 0..MaxFaults /\ TypeInv
  BY InvTypes DEF DInv
<1>2. /\ disk' \in Disks /\ faults' \in 0..MaxFaults /\ disk'.log = disk.log
      /\ disk'.snap \in {disk.snap, Snap(m)}
  BY <1>1, SaveFacts
<1>3. disk'.snap.status \in {disk.snap.status, mem.status}
  BY <1>2, RunFields
<1>4. Logging' /\ MemEnds' /\ Ending' /\ (Lost => Lost')
  BY <1>1, <1>2, <1>3, LogKept DEF DInv
<1>5. \A t : FinishLogged(t) => FinishLogged(t)'
  BY <1>2 DEF FinishLogged
<1>6. QED
  BY <1>2, <1>4, <1>5

\* The metadata of the run are saved.
LEMMA UpdateMetadataStep ==
    ASSUME DInv, UpdateMetadata
    PROVE  DInv'
<1>1. PICK w \in Writes : Save(w, mem)
  BY DEF UpdateMetadata, Writes
<1>2. /\ mem' = mem /\ core = "up" /\ core' = "up" /\ calls' = calls + 1 /\ calls < MaxCalls
      /\ UNCHANGED <<monitor, busy, dispatched, orders, last, answered>>
  BY DEF UpdateMetadata, Free
<1>3. mem \in Runs
  BY InvTypes DEF DInv
<1>4. /\ disk' \in Disks /\ faults' \in 0..MaxFaults
      /\ Logging' /\ MemEnds' /\ Ending' /\ (Lost => Lost')
      /\ \A t : FinishLogged(t) => FinishLogged(t)'
  BY <1>1, <1>2, <1>3, SaveLogs
<1>5. calls' \in 0..MaxCalls
  BY <1>2, TypesNow, DynamicAssumption DEF DInv
<1>6. TypeInv'
  BY <1>2, <1>4, <1>5, TypesNow, TypesNext DEF DInv
<1>7. Placing' /\ Going' /\ InHand'
  BY <1>2, <1>4, PlacingKept, GoingKept, InHandKept DEF DInv, Placing
<1>8. QED
  BY <1>4, <1>6, <1>7 DEF DInv

\* A stream stays typed when it says something.
LEMMA StreamType ==
    ASSUME StreamOK, NEW t \in Ids,
           \/ Stream!Start(t) \/ Stream!Finish(t) \/ Stream!Retry(t)
           \/ Stream!Fail(t) \/ Stream!FailWaiting(t)
    PROVE  StreamOK'
<1>1. \A kind \in Stream!Kinds, n \in Nat, known \in BOOLEAN :
         Stream!Say(t, kind, n, known) => StreamOK'
  BY DEF StreamOK, Stream!Say
<1>2. last[t].n \in Nat /\ last[t].n + 1 \in Nat
  BY DEF StreamOK
<1>3. QED
  BY <1>1, <1>2 DEF Stream!Kinds, Stream!Start, Stream!Finish, Stream!Retry, Stream!Fail,
     Stream!FailWaiting

\* The Scheduler says something of a task that it has.
LEMMA ArriveStep ==
    ASSUME DInv, NEW t \in Ids, Arrive(t)
    PROVE  DInv'
<1>1. /\ core = "up" /\ core' = "up" /\ monitor = "idle" /\ monitor' = "handling" /\ t \in Sent
      /\ UNCHANGED <<mem, disk, dispatched, orders, answered, faults, calls>>
  BY DEF Arrive, Sent
<1>2. StreamOK'
  BY StreamType DEF Arrive, DInv, TypeInv
<1>3. busy' \in Messages /\ busy'.task = t
  <2>1. PICK end \in {"failed", "timed_out"} :
           busy' = [kind |-> last'[t].kind, task |-> t, end |-> end]
    BY DEF Arrive
  <2>2. last'[t].kind \in Stream!Kinds
    BY <1>2 DEF StreamOK
  <2>3. QED
    BY <2>1, <2>2 DEF Messages
<1>4. busy' # NoMsg /\ busy = NoMsg
  BY <1>1, <1>3, MessageAssumption, TypesNow DEF DInv
<1>5. TypeInv'
  BY <1>1, <1>2, <1>3, <1>4, TypesNow, TypesNext DEF DInv, StreamOK
<1>6. Logging' /\ MemEnds' /\ Ending' /\ (Lost => Lost')
  BY <1>1, LogKept DEF DInv
<1>7. \A u : FinishLogged(u) => FinishLogged(u)'
  BY <1>1 DEF FinishLogged
<1>8. Placing' /\ Going' /\ InHand'
  BY <1>1, <1>3, <1>4, <1>6, <1>7, PlacingKept, GoingKept, InHandKept DEF DInv
<1>9. QED
  BY <1>5, <1>6, <1>8 DEF DInv

\* The run has ended: the message is dropped.
LEMMA DropStep ==
    ASSUME DInv, Drop
    PROVE  DInv'
<1>1. /\ core = "up" /\ core' = "up" /\ monitor' = "idle" /\ busy # NoMsg /\ busy' = NoMsg
      /\ mem.cont[busy.task].stage = "none"
      /\ UNCHANGED <<mem, disk, dispatched, orders, last, answered, faults, calls>>
  BY DEF Drop
<1>2. busy.task \in Ids
  BY <1>1, TypesNow DEF DInv
<1>3. TypeInv'
  BY <1>1, TypesNow, TypesNext DEF DInv
<1>4. Logging' /\ MemEnds' /\ Ending' /\ (Lost => Lost')
  BY <1>1, LogKept DEF DInv
<1>5. \A u : FinishLogged(u) => FinishLogged(u)'
  BY <1>1 DEF FinishLogged
<1>6. mem'.cont[busy.task].todo = {}
  BY <1>1, <1>2 DEF DInv, Placing, Todo
<1>7. Placing' /\ Going' /\ InHand'
  BY <1>1, <1>4, <1>5, <1>6, PlacingKept, GoingKept, InHandKept DEF DInv
<1>8. QED
  BY <1>3, <1>4, <1>7 DEF DInv

\* A finish that was recorded: the children that have become ready are to be sent.
LEMMA FinishStep ==
    ASSUME DInv, core = "up", core' = "up", busy # NoMsg, busy.kind = "finish",
           mem.cont[busy.task].stage = "none", ~Ended(mem),
           NEW e \in LogEvents, IsMarked(mem, busy, e, mem'), Emit("done", mem'),
           monitor' = "handling", UNCHANGED <<busy, dispatched, orders, last, answered, calls>>
    PROVE  DInv'
<1>1. PICK t \in Ids : t = busy.task
  BY TypesNow DEF DInv
<1>2. PICK now : now = {c \in mem.pending : mem.parents[c] \subseteq mem.completed \cup {t}}
  OBVIOUS
<1>3. mem \in Runs /\ mem' \in Runs /\ busy \in Messages /\ TypeInv
  BY TypesNow DEF DInv, IsMarked
<1>4. /\ mem'.tasks = mem.tasks /\ mem'.parents = mem.parents
      /\ mem'.completed = mem.completed \cup {t} /\ mem'.pending = mem.pending \ now
      /\ mem'.submitted = mem.submitted \cup now
      /\ mem'.cont = [mem.cont EXCEPT ![t] = [stage |-> "notify", todo |-> now]]
  <2>1. SameTasks(Finished(mem, t), mem')
    BY <1>1 DEF IsMarked
  <2>2. QED
    BY <1>2, <1>3, <2>1, FinishedFacts DEF SameTasks
<1>5. /\ mem'.log = Append(mem.log, e) /\ mem'.ready = mem.ready /\ mem'.status = mem.status
      /\ e.type = "finish_task" /\ e.task = t /\ e.type \notin Terminal
      /\ e.type # "interrupt_dynamic_run" /\ e.status = mem'.status /\ mem'.failed = mem.failed
  BY <1>1 DEF IsMarked, Terminal
<1>6. ~Ended(mem')
  BY <1>5 DEF Ended
<1>7. /\ disk' \in Disks /\ faults' \in 0..MaxFaults
      /\ Logging' /\ MemEnds' /\ Ending' /\ (Lost => Lost')
      /\ \A u : FinishLogged(u) => FinishLogged(u)'
      /\ FinishLogged(t)'
  <2>1. PICK m : m = mem'
    OBVIOUS
  <2>2. m \in Runs /\ Emit("done", m) /\ "done" \in Writes
    BY <1>3, <2>1 DEF Writes
  <2>3. QED
    BY <1>5, <1>6, <2>1, <2>2, EmitFacts
<1>8. /\ \A u \in Ids : u # t => Todo(u)' = Todo(u) /\ mem'.cont[u] = mem.cont[u]
      /\ Todo(t)' = now /\ mem'.cont[t].stage = "notify"
  <2>1. mem.cont \in [Ids -> [stage : {"none", "notify", "ready", "completed"}, todo : SUBSET Ids]]
    BY <1>3, RunFields
  <2>2. QED
    BY <1>4, <2>1 DEF Todo
<1>9. now \subseteq mem.pending /\ Todo(t) = {} /\ t \in Sent /\ t \notin mem.completed
  BY <1>1, <1>2 DEF DInv, Placing
<1>10. Sent' = Sent /\ mem.pending \subseteq Ids /\ mem.tasks \subseteq Ids
  BY <1>3, RunFields DEF Sent
<1>11. TypeInv'
  <2>1. mem'.pending \cap mem'.submitted = {} /\ mem'.tasks = mem'.pending \cup mem'.submitted
    BY <1>3, <1>4, <1>9, TypesNow
  <2>2. monitor' # "idle" /\ busy' # NoMsg
    OBVIOUS
  <2>3. QED
    BY <1>3, <1>7, <2>1, <2>2, TypesNow, TypesNext
<1>12. Placing'
  <2>1. mem'.pending \cup mem'.submitted \cup mem'.completed \cup Sent' \subseteq mem'.tasks
    BY <1>4, <1>9, <1>10 DEF DInv, Placing
  <2>2. mem'.pending \cap Sent' = {} /\ IsInjective(dispatched')
    BY <1>4, <1>10 DEF DInv, Placing
  <2>3. \A u \in Ids : Todo(u)' \subseteq mem'.tasks \ (mem'.pending \cup Sent')
    BY <1>4, <1>8, <1>9, <1>10 DEF DInv, Placing
  <2>4. \A u, v \in Ids : u # v => Todo(u)' \cap Todo(v)' = {}
    <3>1. \A u \in Ids : Todo(u) \cap now = {}
      BY <1>9 DEF DInv, Placing
    <3>2. QED
      BY <1>8, <3>1 DEF DInv, Placing
  <2>5. \A u \in Ids : /\ (mem'.cont[u].stage = "none") <=> (u \notin mem'.completed)
                       /\ mem'.cont[u].stage = "none" => Todo(u)' = {}
    BY <1>4, <1>8 DEF DInv, Placing
  <2>6. \A u \in Ids : (u \in Sent' \/ \E v \in Ids : u \in Todo(v)') =>
                          mem'.parents[u] \subseteq mem'.completed
    <3>1. \A u \in now : mem'.parents[u] \subseteq mem'.completed
      BY <1>2, <1>4
    <3>2. QED
      BY <1>4, <1>8, <1>10, <3>1 DEF DInv, Placing
  <2>7. \A u \in mem'.completed : FinishLogged(u)'
    BY <1>4, <1>7 DEF DInv, Placing
  <2>8. busy' # NoMsg => busy'.task \in Sent'
    BY <1>1, <1>9, <1>10
  <2>9. QED
    BY <2>1, <2>2, <2>3, <2>4, <2>5, <2>6, <2>7, <2>8 DEF Placing
<1>13. Going'
  <2>1. mem'.failed = {}
    BY <1>5 DEF DInv, Going
  <2>2. \A u \in mem'.pending : ~(mem'.parents[u] \subseteq mem'.completed)
    BY <1>2, <1>4
  <2>3. \A u \in answered' : u \in mem'.pending \cup Sent' \/ \E v \in Ids : u \in Todo(v)'
    <3> SUFFICES ASSUME NEW u \in answered
                 PROVE  u \in mem'.pending \cup Sent' \/ \E v \in Ids : u \in Todo(v)'
      OBVIOUS
    <3>1. CASE u \in mem.pending
      BY <1>4, <1>8, <3>1
    <3>2. CASE u \in Sent
      BY <1>10, <3>2
    <3>3. CASE \E v \in Ids : u \in Todo(v)
      BY <1>8, <1>9, <3>3
    <3>4. QED
      BY <3>1, <3>2, <3>3 DEF DInv, Going
  <2>4. QED
    BY <2>1, <2>2, <2>3 DEF Going
<1>14. InHand'
  BY <1>1, <1>7, <1>8 DEF DInv, InHand
<1>15. QED
  BY <1>7, <1>11, <1>12, <1>13, <1>14 DEF DInv

\* Another message that was recorded: no task moves, but the run may have ended.
LEMMA MarkStep ==
    ASSUME DInv, core = "up", core' = "up", busy # NoMsg, busy.kind # "finish",
           mem.cont[busy.task].stage = "none", ~Ended(mem),
           NEW e \in LogEvents, IsMarked(mem, busy, e, mem'), Emit("done", mem'),
           monitor' = "idle", busy' = NoMsg,
           UNCHANGED <<dispatched, orders, last, answered, calls>>
    PROVE  DInv'
<1>1. mem \in Runs /\ mem' \in Runs /\ busy \in Messages /\ TypeInv /\ busy.task \in Ids
  BY TypesNow DEF DInv, IsMarked
<1>2. SameTasks(mem, mem') /\ mem'.log = Append(mem.log, e) /\ mem'.ready = mem.ready
  BY DEF IsMarked
<1>3. \/ mem'.status = mem.status /\ mem'.failed = mem.failed /\ e.type \notin Terminal
      \/ Ended(mem') /\ e.type \in Terminal
  BY <1>1 DEF IsMarked, Messages, Ended, Endings, Terminal
<1>4. /\ e.type # "interrupt_dynamic_run" /\ e.status = mem'.status
      /\ e.type \in Terminal => Ended(mem')
      /\ Ended(mem') => e.type \in Terminal
  BY <1>3 DEF IsMarked, Ended
<1>5. /\ disk' \in Disks /\ faults' \in 0..MaxFaults
      /\ Logging' /\ MemEnds' /\ Ending' /\ (Lost => Lost')
      /\ \A u : FinishLogged(u) => FinishLogged(u)'
  <2>1. PICK m : m = mem'
    OBVIOUS
  <2>2. m \in Runs /\ Emit("done", m) /\ "done" \in Writes
    BY <1>1, <2>1 DEF Writes
  <2>3. QED
    BY <1>2, <1>4, <2>1, <2>2, EmitFacts
<1>6. /\ mem'.tasks = mem.tasks /\ mem'.parents = mem.parents /\ mem'.pending = mem.pending
      /\ mem'.submitted = mem.submitted /\ mem'.completed = mem.completed /\ mem'.cont = mem.cont
  BY <1>2 DEF SameTasks
<1>7. TypeInv'
  BY <1>1, <1>5, <1>6, TypesNow, TypesNext
<1>8. mem'.cont[busy.task].todo = {}
  BY <1>1, <1>6 DEF DInv, Placing, Todo
<1>9. ~Ended(mem') => mem'.failed = mem.failed
  BY <1>3
<1>10. Placing'
  BY <1>5, <1>6, PlacingKept DEF DInv
<1>11. Going'
  BY <1>6, <1>9, GoingKept DEF DInv
<1>12. InHand'
  BY <1>5, <1>6, <1>8, InHandKept DEF DInv
<1>13. QED
  BY <1>5, <1>7, <1>10, <1>11, <1>12 DEF DInv

\* A transaction that failed, or whose number is taken: the run is what it was.
LEMMA UndoneStep ==
    ASSUME DInv, core = "up", core' = "up", busy # NoMsg,
           mem.cont[busy.task].stage = "none", ~Ended(mem),
           NEW e \in LogEvents, NEW m, IsMarked(mem, busy, e, m),
           NEW w \in Writes, w # "done", Emit(w, m), mem' = mem,
           \/ w = "conflict" /\ monitor' = "idle" /\ busy' = NoMsg
           \/ monitor' = "sleeping" /\ busy' = busy,
           UNCHANGED <<dispatched, orders, last, answered, calls>>
    PROVE  DInv'
<1>1. mem \in Runs /\ m \in Runs /\ busy \in Messages /\ TypeInv /\ busy.task \in Ids
      /\ Len(mem.log) \in Nat /\ disk \in Disks /\ faults \in 0..MaxFaults /\ mem.log \in Seq(LogEvents)
  BY TypesNow, InvTypes DEF DInv, IsMarked
<1>2. PICK k \in Nat : k = Len(mem.log) + 1
  BY <1>1
<1>3. Len(m.log) = k /\ m.log[k] = e
  <2>1. m.log = Append(mem.log, e)
    BY DEF IsMarked
  <2>2. QED
    BY <1>1, <1>2, <2>1
<1>4. Outcome(w, k, e) /\ Record(w, m, k, e)
  BY <1>3 DEF Emit
<1>5. /\ disk' \in Disks /\ faults' \in 0..MaxFaults /\ Grown(k, e)
      /\ w = "all" => \E i \in 1..Len(disk'.log) : disk'.log[i] = Logged(k, e)
      /\ w # "all" => disk'.snap = disk.snap
      /\ w = "all" => disk'.snap = Snap(m)
  BY <1>1, <1>4, RecordFacts
<1>6. MemEnds'
  BY MemEndsKept DEF DInv
<1>7. \/ disk'.snap = disk.snap
      \/ disk'.snap.status = mem'.status
      \/ /\ disk'.snap.status \in Endings => e.type \in Terminal /\ e.status = disk'.snap.status
         /\ \E i \in 1..Len(disk'.log) : disk'.log[i] = Logged(k, e)
  <2>1. CASE w = "all"
    <3>1. disk'.snap.status = m.status
      BY <1>1, <1>5, <2>1, RunFields
    <3>2. m.status = mem.status \/ (e.type \in Terminal /\ e.status = m.status)
      BY DEF IsMarked, Terminal
    <3>3. QED
      BY <1>5, <2>1, <3>1, <3>2
  <2>2. CASE w # "all"
    BY <1>5, <2>2
  <2>3. QED
    BY <2>1, <2>2
<1>8. ~Ended(mem') /\ k = Len(mem'.log) + 1 /\ k > Len(mem.log)
  BY <1>1, <1>2
<1>9. Logging' /\ Ending' /\ (Lost => Lost')
  BY <1>1, <1>5, <1>6, <1>7, <1>8, LogStep DEF DInv
<1>10. \A u : FinishLogged(u) => FinishLogged(u)'
  BY <1>1, <1>5, OnDiskFacts
<1>11. TypeInv'
  BY <1>1, <1>5, TypesNow, TypesNext
<1>12. mem'.cont[busy.task].todo = {}
  BY <1>1 DEF DInv, Placing, Todo
<1>13. Placing'
  BY <1>10, PlacingKept DEF DInv, Placing
<1>14. Going' /\ InHand'
  BY <1>9, <1>12, GoingKept, InHandKept DEF DInv
<1>15. QED
  BY <1>6, <1>9, <1>11, <1>13, <1>14 DEF DInv

\* The transaction of a message.
LEMMA HandleStep ==
    ASSUME DInv, Handle
    PROVE  DInv'
<1>1. /\ core = "up" /\ core' = "up" /\ busy # NoMsg /\ mem.cont[busy.task].stage = "none"
      /\ ~Ended(mem) /\ UNCHANGED <<dispatched, orders, last, answered, calls>>
  BY DEF Handle
<1>2. PICK m : m = Marked(mem, busy)
  OBVIOUS
<1>3. PICK e \in LogEvents : IsMarked(mem, busy, e, m)
  BY <1>1, <1>2, MarkedFacts, TypesNow DEF DInv
<1>4. PICK w \in Writes :
         /\ Emit(w, m)
         /\ CASE w = "done" /\ busy.kind = "finish" ->
                   mem' = m /\ monitor' = "handling" /\ UNCHANGED busy
              [] w = "done" /\ busy.kind # "finish" ->
                   mem' = m /\ monitor' = "idle" /\ busy' = NoMsg
              [] w = "conflict" -> monitor' = "idle" /\ busy' = NoMsg /\ UNCHANGED mem
              [] OTHER -> monitor' = "sleeping" /\ UNCHANGED <<mem, busy>>
  BY <1>2 DEF Handle
<1>5. CASE w = "done" /\ busy.kind = "finish"
  <2>1. mem' = m /\ monitor' = "handling" /\ busy' = busy /\ Emit("done", m)
    BY <1>4, <1>5
  <2>2. QED
    BY <1>1, <1>3, <1>5, <2>1, FinishStep
<1>6. CASE w = "done" /\ busy.kind # "finish"
  <2>1. mem' = m /\ monitor' = "idle" /\ busy' = NoMsg /\ Emit("done", m)
    BY <1>4, <1>6
  <2>2. QED
    BY <1>1, <1>3, <1>6, <2>1, MarkStep
<1>7. CASE w # "done"
  <2>1. /\ Emit(w, m) /\ mem' = mem
        /\ \/ w = "conflict" /\ monitor' = "idle" /\ busy' = NoMsg
           \/ monitor' = "sleeping" /\ busy' = busy
    BY <1>4, <1>7
  <2>2. QED
    BY <1>1, <1>3, <1>7, <2>1, UndoneStep
<1>8. QED
  BY <1>5, <1>6, <1>7

-------------------------------------------------------------------------------
(* The continuation of a finish. *)

\* A step of the continuation of t that saves the snapshot.
LEMMA StageFacts ==
    ASSUME DInv, NEW t \in Ids, core = "up", core' = "up",
           NEW stage \in {"ready", "completed"}, NEW todo \in SUBSET Todo(t),
           NEW m, m = [mem EXCEPT !.cont[t] = [stage |-> stage, todo |-> todo]],
           mem' = m, NEW w \in Writes, Save(w, m)
    PROVE  /\ mem' \in Runs
           /\ mem'.tasks = mem.tasks /\ mem'.parents = mem.parents /\ mem'.pending = mem.pending
           /\ mem'.submitted = mem.submitted /\ mem'.completed = mem.completed
           /\ mem'.failed = mem.failed /\ mem'.status = mem.status
           /\ \A u \in Ids : u # t => mem'.cont[u] = mem.cont[u]
           /\ mem'.cont[t].stage = stage /\ mem'.cont[t].todo = todo
           /\ disk' \in Disks /\ faults' \in 0..MaxFaults
           /\ Logging' /\ MemEnds' /\ Ending' /\ (Lost => Lost')
           /\ \A u : FinishLogged(u) => FinishLogged(u)'
<1>1. mem \in Runs /\ mem.cont \in [Ids -> [stage : {"none", "notify", "ready", "completed"}, todo : SUBSET Ids]]
  BY InvTypes, RunFields DEF DInv
<1>2. todo \subseteq Ids
  BY <1>1 DEF Todo
<1> DEFINE c == [stage |-> stage, todo |-> todo]
           f == [mem.cont EXCEPT ![t] = c]
<1>3. c \in [stage : {"none", "notify", "ready", "completed"}, todo : SUBSET Ids]
      /\ c.stage = stage /\ c.todo = todo
  BY <1>2
<1>4. m = [mem EXCEPT !.cont = f]
  BY <1>1 DEF Runs
<1> HIDE DEF c
<1>5. /\ f \in [Ids -> [stage : {"none", "notify", "ready", "completed"}, todo : SUBSET Ids]]
      /\ f[t] = c /\ \A u \in Ids : u # t => f[u] = mem.cont[u]
  BY <1>1, <1>3
<1> HIDE DEF f
<1>6. /\ m \in Runs /\ m.cont = f /\ m.log = mem.log /\ m.status = mem.status /\ m.ready = mem.ready
      /\ m.tasks = mem.tasks /\ m.parents = mem.parents /\ m.pending = mem.pending
      /\ m.submitted = mem.submitted /\ m.completed = mem.completed /\ m.failed = mem.failed
  BY <1>1, <1>4, <1>5 DEF Runs
<1>7. /\ disk' \in Disks /\ faults' \in 0..MaxFaults
      /\ Logging' /\ MemEnds' /\ Ending' /\ (Lost => Lost')
      /\ \A u : FinishLogged(u) => FinishLogged(u)'
  BY <1>6, SaveLogs
<1>8. QED
  BY <1>3, <1>5, <1>6, <1>7

\* A continuation step in which no child is sent.
LEMMA StageStep ==
    ASSUME DInv, NEW t \in Ids, core = "up", core' = "up", busy # NoMsg, busy.task = t,
           mem.cont[t].stage # "none", NEW stage \in {"ready", "completed"},
           NEW m, m = [mem EXCEPT !.cont[t] = [stage |-> stage, todo |-> Todo(t)]],
           mem' = m, NEW w \in Writes, Save(w, m),
           \/ monitor' \in {"handling", "sleeping"} /\ busy' = busy
           \/ monitor' = "idle" /\ busy' = NoMsg /\ Todo(t) = {},
           UNCHANGED <<dispatched, orders, last, answered, calls>>
    PROVE  DInv'
<1>1. Todo(t) \in SUBSET Todo(t) /\ TypeInv
  BY DEF DInv
<1>2. /\ mem' \in Runs
      /\ mem'.tasks = mem.tasks /\ mem'.parents = mem.parents /\ mem'.pending = mem.pending
      /\ mem'.submitted = mem.submitted /\ mem'.completed = mem.completed
      /\ mem'.failed = mem.failed /\ mem'.status = mem.status
      /\ \A u \in Ids : u # t => mem'.cont[u] = mem.cont[u]
      /\ mem'.cont[t].stage = stage /\ mem'.cont[t].todo = Todo(t)
      /\ disk' \in Disks /\ faults' \in 0..MaxFaults
      /\ Logging' /\ MemEnds' /\ Ending' /\ (Lost => Lost')
      /\ \A u : FinishLogged(u) => FinishLogged(u)'
  BY <1>1, StageFacts
<1>3. Ended(mem') <=> Ended(mem)
  BY <1>2 DEF Ended
<1>4. \A u \in Ids : /\ mem'.cont[u].todo = mem.cont[u].todo
                     /\ (mem'.cont[u].stage = "none") <=> (mem.cont[u].stage = "none")
  <2>1. mem'.cont[t].todo = mem.cont[t].todo
    BY <1>2 DEF Todo
  <2>2. stage # "none"
    OBVIOUS
  <2>3. QED
    BY <1>2, <2>1, <2>2
<1>5. TypeInv'
  <2>1. (monitor' = "idle") <=> (busy' = NoMsg)
    OBVIOUS
  <2>2. busy' \in Messages \cup {NoMsg}
    BY <1>1, TypesNow
  <2>3. monitor' \in {"idle", "handling", "sleeping"}
    OBVIOUS
  <2>4. QED
    BY <1>1, <1>2, <1>3, <2>1, <2>2, <2>3, TypesNow, TypesNext
<1>6. busy' # NoMsg => busy'.task \in Sent
  BY DEF DInv, Placing
<1>7. Placing'
  BY <1>2, <1>4, <1>6, PlacingKept DEF DInv
<1>8. Going'
  BY <1>2, <1>3, <1>4, GoingKept DEF DInv
<1>9. Lost' \/ busy = NoMsg \/ busy' = busy \/ mem'.cont[busy.task].todo = {}
  BY <1>2 DEF Todo
<1>10. InHand'
  BY <1>2, <1>4, <1>9, InHandKept DEF DInv
<1>11. QED
  BY <1>2, <1>5, <1>7, <1>8, <1>10 DEF DInv

\* Setting the stage or the children left is setting both.
LEMMA ContForms ==
    ASSUME NEW m \in Runs, NEW t \in Ids
    PROVE  /\ \A s : [m EXCEPT !.cont[t].stage = s] =
                     [m EXCEPT !.cont[t] = [stage |-> s, todo |-> m.cont[t].todo]]
           /\ \A d : [m EXCEPT !.cont[t].todo = d] =
                     [m EXCEPT !.cont[t] = [stage |-> m.cont[t].stage, todo |-> d]]
<1>1. /\ m.cont \in [Ids -> [stage : {"none", "notify", "ready", "completed"}, todo : SUBSET Ids]]
      /\ m.cont[t] \in [stage : {"none", "notify", "ready", "completed"}, todo : SUBSET Ids]
  BY RunFields
<1>2. \A s : [m.cont[t] EXCEPT !.stage = s] = [stage |-> s, todo |-> m.cont[t].todo]
  BY <1>1
<1>3. \A d : [m.cont[t] EXCEPT !.todo = d] = [stage |-> m.cont[t].stage, todo |-> d]
  BY <1>1
<1>4. \A s : [m EXCEPT !.cont[t].stage = s] = [m EXCEPT !.cont[t] = [m.cont[t] EXCEPT !.stage = s]]
  BY <1>1 DEF Runs
<1>5. \A d : [m EXCEPT !.cont[t].todo = d] = [m EXCEPT !.cont[t] = [m.cont[t] EXCEPT !.todo = d]]
  BY <1>1 DEF Runs
<1>6. QED
  BY <1>2, <1>3, <1>4, <1>5

\* The subscribers are notified.
LEMMA NotifyStep ==
    ASSUME DInv, NEW t \in Ids, Notify(t)
    PROVE  DInv'
<1>1. /\ core = "up" /\ core' = "up" /\ busy # NoMsg /\ busy.task = t /\ mem.cont[t].stage # "none"
      /\ UNCHANGED <<busy, dispatched, orders, last, answered, calls>>
  BY DEF Notify, At
<1>2. PICK m : m = [mem EXCEPT !.cont[t].stage = "ready"]
  OBVIOUS
<1>3. PICK w \in Writes : mem' = m /\ Save(w, m) /\ monitor' \in {"handling", "sleeping"}
  BY <1>2 DEF Notify, SaveStage, Writes
<1>4. m = [mem EXCEPT !.cont[t] = [stage |-> "ready", todo |-> Todo(t)]]
  <2>1. mem \in Runs
    BY InvTypes DEF DInv
  <2>2. m = [mem EXCEPT !.cont[t] = [stage |-> "ready", todo |-> mem.cont[t].todo]]
    BY <1>2, <2>1, ContForms
  <2>3. QED
    BY <2>2 DEF Todo
<1>5. QED
  BY <1>1, <1>3, <1>4, StageStep

\* The continuation is completed.
LEMMA CompleteStep ==
    ASSUME DInv, NEW t \in Ids, Complete(t)
    PROVE  DInv'
<1>1. /\ core = "up" /\ core' = "up" /\ busy # NoMsg /\ busy.task = t /\ mem.cont[t].stage # "none"
      /\ UNCHANGED <<dispatched, orders, last, answered, calls>> /\ Todo(t) = {}
  BY DEF Complete, At, Todo
<1>2. PICK m : m = [mem EXCEPT !.cont[t].stage = "completed"]
  OBVIOUS
<1>3. PICK w \in Writes :
         /\ mem' = m /\ Save(w, m)
         /\ IF w = "done" THEN monitor' = "idle" /\ busy' = NoMsg
            ELSE monitor' = "sleeping" /\ UNCHANGED busy
  BY <1>2 DEF Complete, Writes
<1>4. m = [mem EXCEPT !.cont[t] = [stage |-> "completed", todo |-> Todo(t)]]
  <2>1. mem \in Runs
    BY InvTypes DEF DInv
  <2>2. m = [mem EXCEPT !.cont[t] = [stage |-> "completed", todo |-> mem.cont[t].todo]]
    BY <1>2, <2>1, ContForms
  <2>3. QED
    BY <2>2 DEF Todo
<1>5. \/ monitor' \in {"handling", "sleeping"} /\ busy' = busy
      \/ monitor' = "idle" /\ busy' = NoMsg /\ Todo(t) = {}
  BY <1>1, <1>3
<1>6. QED
  BY <1>1, <1>3, <1>4, <1>5, StageStep

\* A child is sent: it leaves the children that are left.
LEMMA DispatchStep ==
    ASSUME DInv, NEW t \in Ids, NEW c \in Ids, Dispatch(t, c)
    PROVE  DInv'
<1>1. /\ core = "up" /\ core' = "up" /\ busy # NoMsg /\ busy.task = t /\ mem.cont[t].stage = "ready"
      /\ UNCHANGED <<busy, orders, last, answered, calls>> /\ c \in Todo(t)
      /\ dispatched' = Append(dispatched, c) /\ TypeInv
  BY DEF Dispatch, At, NextChildren, Todo, Submit, DInv
<1>2. PICK m : m = [mem EXCEPT !.cont[t].todo = mem.cont[t].todo \ {c}]
  OBVIOUS
<1>3. PICK w \in Writes : mem' = m /\ Save(w, m) /\ monitor' \in {"handling", "sleeping"}
  <2>1. m = [mem EXCEPT !.cont[t].todo = @ \ {c}]
    BY <1>2
  <2>2. SaveStage(m)
    BY <2>1 DEF Dispatch
  <2>3. QED
    BY <2>2 DEF SaveStage, Writes
<1>4. PICK rest : rest = Todo(t) \ {c}
  OBVIOUS
<1>5. m = [mem EXCEPT !.cont[t] = [stage |-> "ready", todo |-> rest]]
  <2>1. mem \in Runs
    BY <1>1, InvTypes
  <2>2. m = [mem EXCEPT !.cont[t].todo = rest]
    BY <1>2, <1>4 DEF Todo
  <2>3. m = [mem EXCEPT !.cont[t] = [stage |-> mem.cont[t].stage, todo |-> rest]]
    BY <2>1, <2>2, ContForms
  <2>4. QED
    BY <1>1, <2>3
<1>6. /\ mem' \in Runs
      /\ mem'.tasks = mem.tasks /\ mem'.parents = mem.parents /\ mem'.pending = mem.pending
      /\ mem'.submitted = mem.submitted /\ mem'.completed = mem.completed
      /\ mem'.failed = mem.failed /\ mem'.status = mem.status
      /\ \A u \in Ids : u # t => mem'.cont[u] = mem.cont[u]
      /\ mem'.cont[t].stage = "ready" /\ mem'.cont[t].todo = Todo(t) \ {c}
      /\ disk' \in Disks /\ faults' \in 0..MaxFaults
      /\ Logging' /\ MemEnds' /\ Ending' /\ (Lost => Lost')
      /\ \A u : FinishLogged(u) => FinishLogged(u)'
  <2>1. rest \in SUBSET Todo(t)
    BY <1>4
  <2>2. /\ mem' \in Runs
        /\ mem'.tasks = mem.tasks /\ mem'.parents = mem.parents /\ mem'.pending = mem.pending
        /\ mem'.submitted = mem.submitted /\ mem'.completed = mem.completed
        /\ mem'.failed = mem.failed /\ mem'.status = mem.status
        /\ \A u \in Ids : u # t => mem'.cont[u] = mem.cont[u]
        /\ mem'.cont[t].stage = "ready" /\ mem'.cont[t].todo = rest
        /\ disk' \in Disks /\ faults' \in 0..MaxFaults
        /\ Logging' /\ MemEnds' /\ Ending' /\ (Lost => Lost')
        /\ \A u : FinishLogged(u) => FinishLogged(u)'
    BY <1>1, <1>3, <1>5, <2>1, StageFacts
  <2>3. QED
    BY <1>4, <2>2
<1>7. Ended(mem') <=> Ended(mem)
  BY <1>6 DEF Ended
<1>8. /\ c \in mem.tasks \ (mem.pending \cup Sent) /\ mem.parents[c] \subseteq mem.completed
      /\ \A u \in Ids : u # t => c \notin Todo(u)
  BY <1>1 DEF DInv, Placing
<1>9. /\ dispatched' \in Seq(Ids) /\ Sent' = Sent \cup {c} /\ IsInjective(dispatched')
  <2>1. dispatched \in Seq(Ids) /\ IsInjective(dispatched) /\ c \notin ToSet(dispatched)
    BY <1>1, <1>8, TypesNow DEF DInv, Placing, Sent
  <2>2. QED
    BY <1>1, <2>1, AppendSent DEF Sent
<1>10. \A u \in Ids : Todo(u)' = Todo(u) \ {c} /\ ((mem'.cont[u].stage = "none") <=> (mem.cont[u].stage = "none"))
  BY <1>1, <1>6, <1>8 DEF Todo
<1>11. TypeInv'
  <2>1. ((monitor' = "idle") <=> (busy' = NoMsg)) /\ monitor' \in {"idle", "handling", "sleeping"}
    BY <1>1, <1>3
  <2>2. QED
    BY <1>1, <1>6, <1>7, <1>9, <2>1, TypesNow, TypesNext
<1>12. Placing'
  <2>1. /\ mem'.pending \cup mem'.submitted \cup mem'.completed \cup Sent' \subseteq mem'.tasks
        /\ mem'.pending \cap Sent' = {}
    BY <1>6, <1>8, <1>9 DEF DInv, Placing
  <2>2. \A u \in Ids : Todo(u)' \subseteq mem'.tasks \ (mem'.pending \cup Sent')
    BY <1>6, <1>9, <1>10 DEF DInv, Placing
  <2>3. \A u, v \in Ids : u # v => Todo(u)' \cap Todo(v)' = {}
    BY <1>10 DEF DInv, Placing
  <2>4. \A u \in Ids : /\ (mem'.cont[u].stage = "none") <=> (u \notin mem'.completed)
                       /\ mem'.cont[u].stage = "none" => Todo(u)' = {}
    BY <1>6, <1>10 DEF DInv, Placing
  <2>5. \A u \in Ids : (u \in Sent' \/ \E v \in Ids : u \in Todo(v)') =>
                          mem'.parents[u] \subseteq mem'.completed
    BY <1>6, <1>8, <1>9, <1>10 DEF DInv, Placing
  <2>6. \A u \in mem'.completed : FinishLogged(u)'
    BY <1>6 DEF DInv, Placing
  <2>7. busy' # NoMsg => busy'.task \in Sent'
    BY <1>1, <1>9 DEF DInv, Placing
  <2>8. QED
    BY <1>9, <2>1, <2>2, <2>3, <2>4, <2>5, <2>6, <2>7 DEF Placing
<1>13. Going'
  <2>1. ~Ended(mem) => \A u \in answered : u \in mem.pending \cup Sent' \/ \E v \in Ids : u \in Todo(v)'
    BY <1>9, <1>10 DEF DInv, Going
  <2>2. QED
    BY <1>1, <1>6, <1>7, <2>1 DEF DInv, Going
<1>14. \A u \in Ids : mem'.cont[u].todo \subseteq mem.cont[u].todo
  BY <1>10 DEF Todo
<1>15. InHand'
  BY <1>1, <1>6, <1>14, InHandKept DEF DInv
<1>16. QED
  BY <1>6, <1>11, <1>12, <1>13, <1>15 DEF DInv

\* The run n is m but for what has been announced of its children.
SameRun(m, n) ==
    n \in Runs /\ SameTasks(m, n) /\ n.status = m.status /\ n.failed = m.failed /\ n.log = m.log

\* Noting the number of an announcement, or that it was made.
LEMMA ReadyFacts ==
    ASSUME NEW m \in Runs, NEW c \in Ids, NEW k \in Nat
    PROVE  /\ SameRun(m, [m EXCEPT !.ready[c].seq = k])
           /\ SameRun(m, [m EXCEPT !.ready[c].sent = TRUE])
           /\ [m EXCEPT !.ready[c].seq = k].ready[c].seq = k
           /\ \A u \in Ids : u # c => [m EXCEPT !.ready[c].seq = k].ready[u].seq = m.ready[u].seq
           /\ \A u \in Ids : [m EXCEPT !.ready[c].sent = TRUE].ready[u].seq = m.ready[u].seq
<1>1. m.ready \in [Ids -> [seq : Nat, sent : BOOLEAN]] /\ m.ready[c] \in [seq : Nat, sent : BOOLEAN]
  BY RunFields
<1>2. \A f \in [Ids -> [seq : Nat, sent : BOOLEAN]] :
         SameRun(m, [m EXCEPT !.ready = f]) /\ [m EXCEPT !.ready = f].ready = f
  BY DEF SameRun, SameTasks, Runs
<1> DEFINE f == [m.ready EXCEPT ![c] = [m.ready[c] EXCEPT !.seq = k]]
           g == [m.ready EXCEPT ![c] = [m.ready[c] EXCEPT !.sent = TRUE]]
<1>3. /\ f \in [Ids -> [seq : Nat, sent : BOOLEAN]] /\ f[c].seq = k
      /\ \A u \in Ids : u # c => f[u].seq = m.ready[u].seq
  BY <1>1
<1>4. /\ g \in [Ids -> [seq : Nat, sent : BOOLEAN]]
      /\ \A u \in Ids : g[u].seq = m.ready[u].seq
  BY <1>1
<1>5. [m EXCEPT !.ready[c].seq = k] = [m EXCEPT !.ready = f]
  BY <1>1 DEF Runs
<1>6. [m EXCEPT !.ready[c].sent = TRUE] = [m EXCEPT !.ready = g]
  BY <1>1 DEF Runs
<1> HIDE DEF f, g
<1>7. QED
  BY <1>2, <1>3, <1>4, <1>5, <1>6

\* A child is announced, for the first time or again.
LEMMA AnnounceStep ==
    ASSUME DInv, NEW t \in Ids, NEW c \in Ids, Announce(t, c)
    PROVE  DInv'
<1>1. PICK m : m = IF mem.ready[c].seq # 0 THEN mem
                   ELSE [Log(mem, "task_ready", c) EXCEPT !.ready[c].seq = Len(mem.log) + 1]
  OBVIOUS
<1>2. PICK k : k = m.ready[c].seq
  OBVIOUS
<1>3. PICK said : said = [m EXCEPT !.ready[c].sent = TRUE]
  OBVIOUS
<1>4. PICK w \in Writes :
         /\ Outcome(w, k, m.log[k]) /\ Record(w, m, k, m.log[k])
         /\ CASE w = "done"     -> mem' = said /\ monitor' = "handling" /\ UNCHANGED busy
              [] w = "conflict" -> mem' = m /\ monitor' = "idle" /\ busy' = NoMsg
              [] w = "all"      -> mem' \in {m, said} /\ monitor' = "sleeping" /\ UNCHANGED busy
              [] OTHER          -> mem' = m /\ monitor' = "sleeping" /\ UNCHANGED busy
  BY <1>1, <1>2, <1>3 DEF Announce
<1>5. /\ core = "up" /\ core' = "up" /\ busy # NoMsg /\ busy.task = t
      /\ UNCHANGED <<dispatched, orders, last, answered, calls>>
  BY DEF Announce, At
<1>6. /\ mem \in Runs /\ TypeInv /\ disk \in Disks /\ faults \in 0..MaxFaults
      /\ mem.log \in Seq(LogEvents) /\ Len(mem.log) \in Nat
  BY InvTypes DEF DInv
<1>7. /\ mem' \in {m, said}
      /\ \/ monitor' \in {"handling", "sleeping"} /\ busy' = busy
         \/ w = "conflict" /\ monitor' = "idle" /\ busy' = NoMsg
  <2>1. CASE w \in {"done", "conflict", "all"}
    BY <1>4, <2>1
  <2>2. CASE w \notin {"done", "conflict", "all"}
    BY <1>4, <2>2
  <2>3. QED
    BY <2>1, <2>2
<1>8. PICK ev : ev = m.log[k]
  OBVIOUS
\* the run in which the announcement has its number
<1>9. /\ m \in Runs /\ SameTasks(mem, m) /\ m.status = mem.status /\ m.failed = mem.failed
      /\ k \in Nat /\ ev \in LogEvents /\ ev.type = "task_ready" /\ k \in 1..Len(m.log)
      /\ \/ m.log = mem.log
         \/ m.log = Append(mem.log, ev) /\ k = Len(mem.log) + 1 /\ ev.status = mem.status
      /\ \A u \in Ids : \/ m.ready[u].seq = mem.ready[u].seq
                        \/ m.ready[u].seq = k /\ m.log = Append(mem.log, ev)
  <2>1. CASE mem.ready[c].seq # 0
    <3>1. m = mem
      BY <1>1, <2>1
    <3>2. k \in 1..Len(mem.log) /\ mem.log[k].type = "task_ready"
      BY <1>2, <2>1, <3>1 DEF DInv, Logging
    <3>3. QED
      BY <1>6, <1>8, <3>1, <3>2 DEF SameTasks
  <2>2. CASE mem.ready[c].seq = 0
    <3>1. PICK b : b = Log(mem, "task_ready", c)
      OBVIOUS
    <3>2. PICK e \in LogEvents : e = Event(mem, "task_ready", c)
      BY <1>6, LogFacts DEF Types
    <3>3. /\ b \in Runs /\ b.log = Append(mem.log, e) /\ SameTasks(mem, b)
          /\ b.status = mem.status /\ b.ready = mem.ready /\ b.failed = mem.failed
      BY <1>6, <3>1, <3>2, LogFacts DEF Types
    <3>4. PICK n \in Nat : n = Len(mem.log) + 1
      BY <1>6
    <3>5. m = [b EXCEPT !.ready[c].seq = n]
      BY <1>1, <2>2, <3>1, <3>4
    <3>6. /\ SameRun(b, m) /\ k = n
          /\ \A u \in Ids : u # c => m.ready[u].seq = b.ready[u].seq
      BY <1>2, <3>3, <3>5, ReadyFacts
    <3>7. m.log = Append(mem.log, e)
      BY <3>3, <3>6 DEF SameRun
    <3>8. Len(m.log) = n /\ m.log[n] = e /\ n \in 1..n
      BY <1>6, <3>4, <3>7
    <3>9. ev = e /\ e.type = "task_ready" /\ e.status = mem.status
      BY <1>8, <3>2, <3>6, <3>8 DEF Event
    <3>10. \A u \in Ids : m.ready[u].seq = mem.ready[u].seq \/ m.ready[u].seq = k
      BY <1>2, <3>3, <3>6
    <3>11. m \in Runs /\ SameTasks(mem, m) /\ m.status = mem.status /\ m.failed = mem.failed
      BY <3>3, <3>6 DEF SameRun, SameTasks
    <3>12. QED
      BY <3>4, <3>6, <3>7, <3>8, <3>9, <3>10, <3>11
  <2>3. QED
    BY <2>1, <2>2
<1>10. SameRun(m, mem') /\ \A u \in Ids : mem'.ready[u].seq = m.ready[u].seq
  <2>1. SameRun(m, m)
    BY <1>9 DEF SameRun, SameTasks
  <2>2. SameRun(m, said) /\ \A u \in Ids : said.ready[u].seq = m.ready[u].seq
    BY <1>3, <1>9, ReadyFacts
  <2>3. QED
    BY <1>7, <2>1, <2>2
<1>11. /\ mem' \in Runs /\ mem'.log = m.log
       /\ mem'.tasks = mem.tasks /\ mem'.parents = mem.parents /\ mem'.pending = mem.pending
       /\ mem'.submitted = mem.submitted /\ mem'.completed = mem.completed
       /\ mem'.cont = mem.cont /\ mem'.failed = mem.failed /\ mem'.status = mem.status
  BY <1>9, <1>10 DEF SameRun, SameTasks
<1>12. /\ disk' \in Disks /\ faults' \in 0..MaxFaults /\ Grown(k, ev)
       /\ disk'.snap = disk.snap \/ disk'.snap = Snap(m)
       /\ w = "conflict" => disk'.log = disk.log /\ Conflict(k, ev)
  <2>1. Outcome(w, k, ev) /\ Record(w, m, k, ev)
    BY <1>4, <1>8
  <2>2. QED
    BY <1>6, <1>9, <2>1, RecordFacts
<1>13. Ended(mem') <=> Ended(mem)
  BY <1>11 DEF Ended
<1>14. ev.type \notin Terminal /\ ev.type # "interrupt_dynamic_run"
  BY <1>9 DEF Terminal
<1>15. MemEnds'
  <2>1. CASE m.log = mem.log
    BY <1>11, <2>1, MemEndsKept DEF DInv
  <2>2. CASE m.log = Append(mem.log, ev) /\ ev.status = mem.status
    <3>1. mem'.log = Append(mem.log, ev) /\ ev.status = mem'.status
      BY <1>11, <2>2
    <3>2. QED
      BY <1>6, <1>9, <1>11, <1>13, <1>14, <3>1, MemEndsAppend DEF DInv
  <2>3. QED
    BY <1>9, <2>1, <2>2
<1>16. Logging' /\ Ending' /\ (Lost => Lost')
  <2>1. disk'.snap = disk.snap \/ disk'.snap.status = mem'.status
    BY <1>9, <1>11, <1>12, RunFields
  <2>2. \/ mem'.log = mem.log
        \/ mem'.log = Append(mem.log, ev) /\ k = Len(mem.log) + 1
    BY <1>9, <1>11
  <2>3. k <= Len(mem'.log) /\ k \in Nat
    BY <1>9, <1>11
  <2>4. \A u \in Ids : \/ mem'.ready[u].seq = mem.ready[u].seq
                       \/ /\ mem'.ready[u].seq = k /\ ev.type = "task_ready"
                          /\ mem'.log = Append(mem.log, ev)
    BY <1>9, <1>10, <1>11
  <2>5. QED
    BY <1>5, <1>6, <1>9, <1>11, <1>12, <1>13, <1>14, <1>15, <2>1, <2>2, <2>3, <2>4, LogStep DEF DInv
<1>17. \A u : FinishLogged(u) => FinishLogged(u)'
  BY <1>6, <1>9, <1>12, OnDiskFacts
<1>18. w = "conflict" => Lost'
  <2> SUFFICES ASSUME w = "conflict" PROVE Lost'
    OBVIOUS
  <2>1. disk'.log = disk.log /\ ~OnDisk(k, ev) /\ k <= LastSeq
    BY <1>12 DEF Conflict
  <2>2. k \in 1..Len(mem'.log) /\ mem'.log[k] = ev
    BY <1>8, <1>9, <1>11
  <2>3. LastSeq' = LastSeq /\ ~\E i \in 1..Len(disk'.log) : disk'.log[i] = Logged(k, mem'.log[k])
    BY <2>1, <2>2 DEF LastSeq, OnDisk
  <2>4. QED
    BY <2>1, <2>2, <2>3 DEF Lost, OnDisk
<1>19. TypeInv'
  <2>1. ((monitor' = "idle") <=> (busy' = NoMsg)) /\ monitor' \in {"idle", "handling", "sleeping"}
        /\ busy' \in Messages \cup {NoMsg}
    BY <1>5, <1>6, <1>7, TypesNow
  <2>2. QED
    BY <1>5, <1>6, <1>11, <1>12, <1>13, <2>1, TypesNow, TypesNext
<1>20. busy' # NoMsg => busy'.task \in Sent
  BY <1>7 DEF DInv, Placing
<1>21. Placing'
  BY <1>5, <1>11, <1>17, <1>20, PlacingKept DEF DInv
<1>22. Going'
  BY <1>5, <1>11, <1>13, GoingKept DEF DInv
<1>23. InHand'
  BY <1>5, <1>7, <1>11, <1>16, <1>18, InHandKept DEF DInv
<1>24. QED
  BY <1>15, <1>16, <1>19, <1>21, <1>22, <1>23 DEF DInv

-------------------------------------------------------------------------------
(* Crash and recovery. *)

\* A step that changes neither the run nor its files.
LEMMA ProcessStep ==
    ASSUME DInv, UNCHANGED <<mem, disk, dispatched, orders, answered, faults, calls>>,
           last' = last, core' \in {"up", "down", "recovered", "refused"},
           \/ core = "up" /\ core' = "down" /\ monitor' = "idle" /\ busy' = NoMsg
           \/ /\ core # "up" /\ core' = "refused" /\ UNCHANGED <<monitor, busy>>
           \/ /\ core # "up" /\ core' = "recovered" /\ UNCHANGED <<monitor, busy>>
              /\ disk.snap.status \in Endings
    PROVE  DInv'
<1>1. TypeInv'
  BY TypesNow, TypesNext DEF DInv
<1>2. Logging' /\ MemEnds' /\ Ending' /\ (Lost => Lost')
  BY LogKept DEF DInv
<1>3. \A u : FinishLogged(u) => FinishLogged(u)'
  BY DEF FinishLogged
<1>4. Placing'
  BY <1>3, PlacingKept DEF DInv, Placing
<1>5. Going'
  BY GoingKept DEF DInv
<1>6. InHand'
  BY DEF InHand
<1>7. QED
  BY <1>1, <1>2, <1>4, <1>5, <1>6 DEF DInv

\* The snapshot, with the end of the log.
LEMMA AppliedFacts ==
    ASSUME disk \in Disks, Ends # {}, Readable
    PROVE  /\ Applied(disk.snap, LastEvent) \in Snaps /\ LastEvent \in LogEvents
           /\ Applied(disk.snap, LastEvent).status = LastEvent.status
           /\ LastEvent.type \in Terminal /\ LastEvent.status \in Endings
           /\ Len(disk.log) \in 1..Len(disk.log) /\ disk.log[Len(disk.log)].event = LastEvent
           /\ OnDisk(LastSeq, LastEvent)
<1>1. /\ disk.log \in Seq(Entries) /\ disk.snap \in Snaps /\ Len(disk.log) \in Nat
      /\ \A i \in 1..Len(disk.log) : disk.log[i] \in Entries
  BY DiskFields
<1>2. Len(disk.log) \in Ends
  BY DEF Readable
<1>3. Len(disk.log) \in 1..Len(disk.log) /\ LastEvent.type \in Terminal
  BY <1>2 DEF Ends, LastEvent
<1>4. LastEvent \in LogEvents
  BY <1>1, <1>3 DEF LastEvent, Entries
<1>5. LastEvent.status = EndOf(LastEvent.type)
  BY DEF Readable
<1>6. /\ LastEvent.status \in Endings /\ LastEvent.status \in Statuses
      /\ LastEvent.status = "failed" => LastEvent.type = "task_exception"
  BY <1>3, <1>5 DEF EndOf, Endings, Statuses
<1>7. LastEvent.status = "failed" => LastEvent.task \in Ids
  BY <1>4, <1>6 DEF LogEvents
<1>8. PICK end : end = [disk.snap EXCEPT !.status = LastEvent.status]
  OBVIOUS
<1>9. end \in Snaps /\ end.status = LastEvent.status /\ end.open = disk.snap.open
  BY <1>1, <1>6, <1>8 DEF Snaps
<1>10. \A ts \in SUBSET Ids : FailOpen(end, ts) \in Snaps /\ FailOpen(end, ts).status = LastEvent.status
  BY <1>9 DEF FailOpen, Snaps
<1>11. disk.snap.open \in SUBSET Ids
  BY <1>1 DEF Snaps
<1>12. Applied(disk.snap, LastEvent) \in Snaps /\ Applied(disk.snap, LastEvent).status = LastEvent.status
  <2>1. CASE LastEvent.status = "failed"
    <3>1. Applied(disk.snap, LastEvent) = FailOpen(end, {LastEvent.task})
      BY <1>8, <2>1 DEF Applied
    <3>2. {LastEvent.task} \in SUBSET Ids
      BY <1>7, <2>1
    <3>3. QED
      BY <1>10, <3>1, <3>2
  <2>2. CASE LastEvent.status \in {"timed_out", "interrupted"}
    <3>1. Applied(disk.snap, LastEvent) = FailOpen(end, disk.snap.open)
      BY <1>8, <2>2 DEF Applied
    <3>2. QED
      BY <1>10, <1>11, <3>1
  <2>3. CASE LastEvent.status \notin {"failed", "timed_out", "interrupted"}
    <3>1. Applied(disk.snap, LastEvent) = end
      BY <1>8, <2>3 DEF Applied
    <3>2. QED
      BY <1>9, <3>1
  <2>4. QED
    BY <2>1, <2>2, <2>3
<1>13. OnDisk(LastSeq, LastEvent)
  <2>1. disk.log # <<>> /\ LastSeq = disk.log[Len(disk.log)].seq
    BY <1>1, <1>3 DEF LastSeq
  <2>2. disk.log[Len(disk.log)] = Logged(LastSeq, LastEvent)
    BY <1>1, <1>3, <2>1 DEF Logged, LastEvent, Entries
  <2>3. QED
    BY <1>3, <2>2 DEF OnDisk
<1>14. disk.log[Len(disk.log)].event = LastEvent
  BY DEF LastEvent
<1>15. QED
  BY <1>3, <1>4, <1>6, <1>12, <1>13, <1>14

\* The next process brings the end of the log to the snapshot, or logs that the
\* run was interrupted.
LEMMA RecoverStep ==
    ASSUME DInv, Recover
    PROVE  DInv'
<1>1. PICK ev : ev = IF Ends = {} THEN Interruption ELSE LastEvent
  OBVIOUS
<1>2. PICK k : k = IF Ends = {} THEN LastSeq + 1 ELSE LastSeq
  OBVIOUS
<1>3. PICK s : s = IF Ends = {} THEN [disk.snap EXCEPT !.status = "interrupted"]
                   ELSE Applied(disk.snap, ev)
  OBVIOUS
<1>4. PICK w \in Failures \cup {"done"} :
         /\ w = "done" \/ faults < MaxFaults
         /\ disk' = [log  |-> IF w = "nothing" \/ OnDisk(k, ev) THEN disk.log
                              ELSE Append(disk.log, Logged(k, ev)),
                     snap |-> IF w \in {"done", "all"} THEN s ELSE disk.snap]
         /\ faults' = IF w = "done" THEN faults ELSE faults + 1
         /\ core' = IF w = "done" THEN "recovered" ELSE "down"
  BY <1>1, <1>2, <1>3 DEF Recover
<1>5. /\ core = "down" /\ disk.snap.status \in Active /\ (Ends = {} \/ Readable)
      /\ UNCHANGED <<mem, monitor, busy, dispatched, orders, last, answered, calls>>
  BY DEF Recover
<1>6. /\ mem \in Runs /\ TypeInv /\ disk \in Disks /\ faults \in 0..MaxFaults /\ LastSeq \in Nat
      /\ disk.snap \in Snaps /\ disk.log \in Seq(Entries)
  BY InvTypes, DiskFields DEF DInv
<1>7. /\ s \in Snaps /\ ev \in LogEvents /\ k \in Nat /\ s.status = ev.status /\ s.status \in Endings
      /\ ev.type \in Terminal
      /\ Ends # {} => OnDisk(k, ev)
  <2>1. CASE Ends = {}
    <3>1. ev = [type |-> "interrupt_dynamic_run", task |-> NoTask, status |-> "interrupted"]
          /\ s = [disk.snap EXCEPT !.status = "interrupted"] /\ k = LastSeq + 1
      BY <1>1, <1>2, <1>3, <2>1 DEF Interruption
    <3>2. QED
      BY <1>6, <2>1, <3>1 DEF Snaps, LogEvents, Types, Terminal, Statuses, Endings
  <2>2. CASE Ends # {}
    BY <1>1, <1>2, <1>3, <1>5, <1>6, <2>2, AppliedFacts
  <2>3. QED
    BY <2>1, <2>2
<1>8. Logged(k, ev) \in Entries
  BY <1>7 DEF Logged, Entries
<1>9. disk' \in Disks
      /\ disk'.log = (IF w = "nothing" \/ OnDisk(k, ev) THEN disk.log ELSE Append(disk.log, Logged(k, ev)))
      /\ disk'.snap = (IF w \in {"done", "all"} THEN s ELSE disk.snap)
  BY <1>4, <1>6, <1>7, <1>8 DEF Disks
<1>10. faults' \in 0..MaxFaults
  BY <1>4, <1>6, DynamicAssumption
<1>11. Grown(k, ev)
  <2>1. CASE Ends = {}
    BY <1>2, <1>6, <1>9, <2>1 DEF Grown, Added
  <2>2. CASE Ends # {}
    BY <1>7, <1>9, <2>2 DEF Grown
  <2>3. QED
    BY <2>1, <2>2
<1>12. core' \in {"down", "recovered"} /\ (core' = "recovered" => disk'.snap = s)
  BY <1>4, <1>9
<1>13. TypeInv'
  BY <1>5, <1>6, <1>9, <1>10, <1>12, TypesNow, TypesNext
<1>14. \A u : FinishLogged(u) => FinishLogged(u)'
  BY <1>6, <1>7, <1>11, OnDiskFacts
<1>15. Placing' /\ Going' /\ InHand'
  <2>1. Placing'
    BY <1>5, <1>14, PlacingKept DEF DInv, Placing
  <2>2. Going'
    BY <1>5, GoingKept DEF DInv
  <2>3. InHand'
    BY <1>12 DEF InHand
  <2>4. QED
    BY <2>1, <2>2, <2>3
<1>16. Logging' /\ MemEnds'
  <2>1. MemEnds'
    BY <1>5, MemEndsKept DEF DInv
  <2>2. \A i \in 1..Len(disk'.log) :
           /\ disk'.log[i].seq \in 1..LastSeq'
           /\ \A j \in 1..Len(disk'.log) : disk'.log[i].seq = disk'.log[j].seq => i = j
    BY <1>6, <1>7, <1>11, NumbersStep DEF DInv, Logging
  <2>3. QED
    BY <1>5, <1>12, <2>1, <2>2 DEF DInv, Logging
<1>17. ASSUME Intact', Ended(mem'), NEW i \in 1..Len(disk'.log), disk'.log[i].event.type \in Terminal
       PROVE  disk'.log[i].event.status = mem'.status
  <2>1. Ended(mem) /\ Intact
    <3>1. Ended(mem)
      BY <1>5, <1>17 DEF Ended
    <3>2. ASSUME NEW j \in 1..Len(mem.log) PROVE OnDisk(j, mem.log[j])
      <4>1. PICK f : f = mem.log[j]
        OBVIOUS
      <4>2. OnDisk(j, f)'
        BY <1>5, <1>17, <4>1 DEF Intact, OnDisk
      <4>3. OnDisk(j, f) \/ (j = k /\ f = ev /\ LastSeq < k)
        BY <1>6, <1>7, <1>11, <4>2, OnDiskFacts
      <4>4. Ends # {} => k = LastSeq
        BY <1>2
      <4>5. Ends = {} => ev.type = "interrupt_dynamic_run"
        BY <1>1 DEF Interruption
      <4>6. f.type # "interrupt_dynamic_run"
        BY <4>1 DEF DInv, MemEnds
      <4>7. QED
        BY <1>6, <4>1, <4>3, <4>4, <4>5, <4>6
    <3>3. QED
      BY <3>1, <3>2 DEF Intact
  <2>2. Ends # {}
    <3>1. PICK j \in 1..Len(mem.log) : mem.log[j].type \in Terminal
      BY <2>1 DEF DInv, MemEnds
    <3>2. PICK n \in 1..Len(disk.log) : disk.log[n] = Logged(j, mem.log[j])
      BY <2>1, <3>1 DEF Intact, OnDisk
    <3>3. disk.log[n].event = mem.log[j]
      BY <3>2 DEF Logged
    <3>4. n \in Ends
      BY <3>1, <3>3 DEF Ends
    <3>5. QED
      BY <3>4
  <2>3. disk'.log = disk.log
    BY <1>7, <1>9, <2>2
  <2>4. QED
    BY <1>5, <1>17, <2>1, <2>3 DEF DInv, Ending
<1>18. ASSUME Settled', disk'.snap.status \in Endings
       PROVE  \E i \in 1..Len(disk'.log) :
                 disk'.log[i].event.type \in Terminal /\ disk'.log[i].event.status = disk'.snap.status
  <2>1. disk.snap.status \notin Endings
    BY <1>5 DEF Active, Endings
  <2>2. disk'.snap = s /\ w # "nothing"
    BY <1>9, <1>18, <2>1
  <2>3. CASE OnDisk(k, ev)
    <3>1. PICK i \in 1..Len(disk.log) : disk.log[i] = Logged(k, ev)
      BY <2>3 DEF OnDisk
    <3>2. disk'.log = disk.log
      BY <1>9, <2>3
    <3>3. QED
      BY <1>7, <2>2, <3>1, <3>2 DEF Logged
  <2>4. CASE ~OnDisk(k, ev)
    <3>1. disk'.log = Append(disk.log, Logged(k, ev))
      BY <1>9, <2>2, <2>4
    <3>2. /\ Len(disk.log) + 1 \in 1..Len(disk'.log)
          /\ disk'.log[Len(disk.log) + 1] = Logged(k, ev)
      BY <1>6, <1>8, <3>1
    <3>3. QED
      BY <1>7, <2>2, <3>2 DEF Logged
  <2>5. QED
    BY <2>3, <2>4
<1>19. Ending'
  BY <1>7, <1>12, <1>17, <1>18 DEF Ending
<1>20. QED
  BY <1>13, <1>15, <1>16, <1>19 DEF DInv

\* The three other steps of a process.
LEMMA OtherSteps ==
    ASSUME DInv, Crash \/ Recovered \/ Refuse
    PROVE  DInv'
<1>1. disk.snap.status \notin Active => disk.snap.status \in Endings
  <2>1. disk.snap.status \in Statuses
    BY InvTypes DEF DInv, Disks, Snaps
  <2>2. QED
    BY <2>1 DEF Statuses
<1>2. CASE Crash
  BY <1>2, ProcessStep DEF Crash
<1>3. CASE Recovered
  BY <1>1, <1>3, ProcessStep DEF Recovered
<1>4. CASE Refuse
  BY <1>4, ProcessStep DEF Refuse
<1>5. QED
  BY <1>2, <1>3, <1>4

-------------------------------------------------------------------------------
(* The invariant, and what follows from it. *)

\* The initial state.
LEMMA InitInv == Init => DInv
<1> SUFFICES ASSUME Init PROVE DInv
  OBVIOUS
<1>1. First \in LogEvents /\ First.type = "start_dynamic_run"
  BY DEF First, LogEvents, Types, Statuses, Active
<1>2. PICK par : par = [t \in Ids |-> {}]
  OBVIOUS
<1>3. PICK cont : cont = [t \in Ids |-> [stage |-> "none", todo |-> {}]]
  OBVIOUS
<1>4. PICK ready : ready = [t \in Ids |-> [seq |-> 0, sent |-> FALSE]]
  OBVIOUS
<1>5. /\ par \in [Ids -> SUBSET Ids]
      /\ cont \in [Ids -> [stage : {"none", "notify", "ready", "completed"}, todo : SUBSET Ids]]
      /\ ready \in [Ids -> [seq : Nat, sent : BOOLEAN]]
  BY <1>2, <1>3, <1>4
<1>6. mem = [status |-> "created", tasks |-> {}, parents |-> par, pending |-> {},
             submitted |-> {}, running |-> {}, completed |-> {}, failed |-> {}, log |-> <<First>>,
             cont |-> cont, ready |-> ready]
  BY <1>2, <1>3, <1>4 DEF Init
<1>7. <<First>> \in Seq(LogEvents) /\ Len(<<First>>) = 1 /\ <<First>>[1] = First
  BY <1>1
<1>8. mem \in Runs
  BY <1>5, <1>6, <1>7 DEF Runs, Statuses, Active
<1>9. /\ mem.status = "created" /\ mem.tasks = {} /\ mem.parents = par /\ mem.pending = {}
      /\ mem.submitted = {} /\ mem.completed = {} /\ mem.failed = {} /\ mem.log = <<First>>
      /\ mem.cont = cont /\ mem.ready = ready
  BY <1>6
<1>10. ~Ended(mem)
  BY <1>9 DEF Ended, Endings
<1>11. PICK s \in Snaps : s = Snap(mem) /\ s.status = "created"
  BY <1>8, <1>9, RunFields
<1>12. disk = [log |-> <<Logged(1, First)>>, snap |-> s]
  <2>1. disk.log = <<Logged(1, First)>> /\ disk.snap = Snap(mem) /\ disk = [log |-> disk.log, snap |-> disk.snap]
    BY DEF Init
  <2>2. QED
    BY <1>11, <2>1
<1>13. /\ <<Logged(1, First)>> \in Seq(Entries) /\ Len(<<Logged(1, First)>>) = 1
       /\ <<Logged(1, First)>>[1] = Logged(1, First) /\ Logged(1, First).seq = 1
       /\ Logged(1, First).event = First
  BY <1>1 DEF Logged, Entries
<1>14. disk \in Disks /\ disk.log = <<Logged(1, First)>> /\ disk.snap.status = "created"
  BY <1>11, <1>12, <1>13 DEF Disks
<1>15. /\ core = "up" /\ monitor = "idle" /\ busy = NoMsg /\ dispatched = <<>> /\ orders = {}
       /\ answered = {} /\ faults = 0 /\ calls = 0 /\ Stream!Init
  BY DEF Init
<1>16. dispatched \in Seq(Ids) /\ Sent = {} /\ IsInjective(dispatched)
  BY <1>15 DEF Sent, ToSet, IsInjective
<1>17. LastSeq = 1
  BY <1>13, <1>14 DEF LastSeq
<1>18. TypeInv
  <2>1. StreamOK
    BY <1>15 DEF StreamOK, Stream!Init, Stream!Kinds
  <2>2. TypeOK
    BY <1>8, <1>9, <1>14, <1>15, <1>16, DynamicAssumption, Types1
  <2>3. QED
    BY <1>15, <2>1, <2>2 DEF TypeInv, BusyOK
<1>19. \A t \in Ids : Todo(t) = {} /\ mem.cont[t].stage = "none" /\ mem.ready[t].seq = 0
  BY <1>3, <1>4, <1>9 DEF Todo
<1>20. Placing
  BY <1>9, <1>15, <1>16, <1>19 DEF Placing
<1>21. Going /\ InHand
  BY <1>9, <1>15, <1>19 DEF Going, InHand
<1>22. \A i \in 1..Len(disk.log) : i = 1 /\ disk.log[i] = Logged(1, First)
  BY <1>13, <1>14
<1>23. \A k \in 1..Len(mem.log) : mem.log[k] = First
  BY <1>7, <1>9
<1>24. Logging
  BY <1>7, <1>9, <1>10, <1>13, <1>17, <1>19, <1>22 DEF Logging
<1>25. "start_dynamic_run" \notin Terminal
  BY DEF Terminal
<1>26. MemEnds
  BY <1>1, <1>10, <1>23, <1>25 DEF MemEnds, Terminal
<1>27. Ending
  BY <1>14, <1>15 DEF Ending, Endings
<1>28. QED
  BY <1>18, <1>20, <1>21, <1>24, <1>26, <1>27 DEF DInv

\* Every step keeps the invariant.
LEMMA NextInv == DInv /\ [Next]_vars => DInv'
<1> SUFFICES ASSUME DInv, [Next]_vars PROVE DInv'
  OBVIOUS
<1>1. CASE Next
  <2>1. ASSUME NEW t \in Ids, Arrive(t) PROVE DInv'
    BY <2>1, ArriveStep
  <2>2. ASSUME NEW t \in Ids, NEW ps \in SUBSET Ids, AppendTask(t, ps) PROVE DInv'
    BY <2>2, AppendStep
  <2>3. CASE Finalize
    BY <2>3, FinalizeStep
  <2>4. CASE Cancel \/ Timeout
    BY <2>4, AbortStep
  <2>5. CASE EmitEvent
    BY <2>5, EmitEventStep
  <2>6. CASE UpdateMetadata
    BY <2>6, UpdateMetadataStep
  <2>7. CASE Monitor
    <3>1. CASE Drop
      BY <3>1, DropStep
    <3>2. CASE Handle
      BY <3>2, HandleStep
    <3>3. ASSUME NEW t \in Ids, Notify(t) PROVE DInv'
      BY <3>3, NotifyStep
    <3>4. ASSUME NEW t \in Ids, Complete(t) PROVE DInv'
      BY <3>4, CompleteStep
    <3>5. ASSUME NEW t \in Ids, NEW c \in Ids, Announce(t, c) PROVE DInv'
      BY <3>5, AnnounceStep
    <3>6. ASSUME NEW t \in Ids, NEW c \in Ids, Dispatch(t, c) PROVE DInv'
      BY <3>6, DispatchStep
    <3>7. QED
      BY <2>7, <3>1, <3>2, <3>3, <3>4, <3>5, <3>6 DEF Monitor
  <2>8. CASE Recover
    BY <2>8, RecoverStep
  <2>9. CASE Crash \/ Recovered \/ Refuse
    BY <2>9, OtherSteps
  <2>10. QED
    BY <1>1, <2>1, <2>2, <2>3, <2>4, <2>5, <2>6, <2>7, <2>8, <2>9 DEF Next
<1>2. CASE UNCHANGED vars
  <2>1. /\ core' = core /\ monitor' = monitor /\ mem' = mem /\ disk' = disk /\ busy' = busy
        /\ UNCHANGED <<dispatched, orders, last, answered, faults, calls>>
    BY <1>2 DEF vars
  <2>2. TypeInv'
    BY <2>1, TypesNow, TypesNext DEF DInv
  <2>3. Logging' /\ MemEnds' /\ (Lost <=> Lost') /\ Ending'
    BY <2>1 DEF DInv, Logging, MemEnds, Lost, Ending, Settled, Intact, OnDisk, LastSeq, Ended
  <2>4. \A u : FinishLogged(u) => FinishLogged(u)'
    BY <2>1 DEF FinishLogged
  <2>5. Placing'
    BY <2>1, <2>4, PlacingKept DEF DInv, Placing
  <2>6. Going' /\ InHand'
    BY <2>1, <2>3, GoingKept, InHandKept DEF DInv
  <2>7. QED
    BY <2>2, <2>3, <2>5, <2>6 DEF DInv
<1>3. QED
  BY <1>1, <1>2

\* The invariant holds whatever the clients do, whatever is lost and wherever the
\* process stops.
THEOREM DynamicInvariance == Spec => []DInv
BY InitInv, NextInv, PTL DEF Spec

\* The values of the variables, the place of every task among them.
THEOREM DynamicTypes == Spec => []TypeOK
<1>1. DInv => TypeOK
  BY DEF DInv, TypeInv
<1>2. QED
  BY <1>1, DynamicInvariance, PTL

\* A task is sent once, and only when the finishes of its parents are in the log.
THEOREM SentOnceAfterParents == Spec => []DispatchSound
<1>1. DInv => DispatchSound
  <2> SUFFICES ASSUME DInv PROVE DispatchSound
    OBVIOUS
  <2>1. IsInjective(dispatched)
    BY DEF DInv, Placing
  <2>2. \A t \in ToSet(dispatched) : t \in Ids
    <3>1. mem.tasks \subseteq Ids
      BY InvTypes, RunFields DEF DInv
    <3>2. QED
      BY <3>1 DEF DInv, Placing, Sent
  <2>3. \A t \in ToSet(dispatched) : mem.parents[t] \subseteq mem.completed
    BY <2>2 DEF DInv, Placing, Sent
  <2>4. \A p \in mem.completed : FinishLogged(p)
    BY DEF DInv, Placing
  <2>5. QED
    BY <2>1, <2>3, <2>4 DEF DispatchSound
<1>2. QED
  BY <1>1, DynamicInvariance, PTL

\* A task whose append was answered is with the Scheduler, between two messages,
\* as soon as its parents have completed, unless an event of the run was lost.
THEOREM AnsweredIsSent == Spec => []NoneForgotten
<1>1. DInv => NoneForgotten
  <2> SUFFICES ASSUME DInv, core = "up", monitor = "idle", ~Ended(mem), Intact,
                      NEW t \in answered, mem.parents[t] \subseteq mem.completed
               PROVE  t \in ToSet(dispatched)
    BY DEF NoneForgotten
  <2>1. busy = NoMsg
    BY TypesNow DEF DInv
  <2>2. ~Lost
    BY DEF Lost, Intact
  <2>3. \A u \in Ids : Todo(u) = {}
    BY <2>1, <2>2 DEF DInv, InHand
  <2>4. t \in mem.pending \cup Sent
    BY <2>3 DEF DInv, Going
  <2>5. t \notin mem.pending
    BY DEF DInv, Going
  <2>6. QED
    BY <2>4, <2>5 DEF Sent
<1>2. QED
  BY <1>1, DynamicInvariance, PTL

\* Recovery shows an end, and the one that the clients have read, unless an event
\* of the run was lost.
THEOREM RecoveryKeepsEnd == Spec => []EndRecovered
<1>1. DInv => EndRecovered
  <2> SUFFICES ASSUME DInv, core = "recovered", Intact
               PROVE  /\ disk.snap.status \in Endings
                      /\ Ended(mem) => disk.snap.status = mem.status
    BY DEF EndRecovered
  <2>1. disk.snap.status \in Endings
    BY DEF DInv, Ending
  <2>2. Settled
    BY DEF Settled, Intact
  <2>3. PICK i \in 1..Len(disk.log) :
           disk.log[i].event.type \in Terminal /\ disk.log[i].event.status = disk.snap.status
    BY <2>1, <2>2 DEF DInv, Ending
  <2>4. Ended(mem) => disk.log[i].event.status = mem.status
    BY <2>3 DEF DInv, Ending
  <2>5. QED
    BY <2>1, <2>3, <2>4
<1>2. QED
  BY <1>1, DynamicInvariance, PTL

-------------------------------------------------------------------------------
(* The run keeps the promises of GrowingRun. *)

\* Nothing that the clients rely on changes.
Unseen == /\ mem'.status = mem.status /\ mem'.tasks = mem.tasks /\ mem'.parents = mem.parents
          /\ mem'.completed = mem.completed /\ dispatched' = dispatched

\* What a client sees of a run that logs an event.
LEMMA LogSeen ==
    ASSUME NEW m \in Runs, NEW type \in Types, NEW t \in Ids \cup {NoTask},
           t \in Ids \/ type # "task_exception", mem' = Log(m, type, t)
    PROVE  /\ mem'.status = m.status /\ mem'.tasks = m.tasks /\ mem'.parents = m.parents
           /\ mem'.completed = m.completed
BY LogFacts DEF SameTasks

\* A task that the abstract run has not sent.
LEMMA SentMeaning ==
    ASSUME dispatched \in Seq(Ids), NEW t
    PROVE  Promise!IsDispatched(t) <=> t \in Sent
BY DEF Promise!IsDispatched, Sent, ToSet

\* Appending a task.
LEMMA AppendPromise ==
    ASSUME DInv, NEW t \in Ids, NEW ps \in SUBSET Ids, AppendTask(t, ps)
    PROVE  Promise!Append1(t, ps)
<1>1. PICK b : b = Joined(mem, t, ps)
  OBVIOUS
<1>2. /\ b \in Runs /\ b.tasks = mem.tasks \cup {t} /\ b.status = "running"
      /\ b.parents = [mem.parents EXCEPT ![t] = ps] /\ b.completed = mem.completed
      /\ ps \subseteq mem.completed => b.submitted = mem.submitted \cup {t}
      /\ ~(ps \subseteq mem.completed) => b.submitted = mem.submitted
  BY <1>1, JoinedFacts, InvTypes DEF DInv
<1>3. /\ mem' = Log(b, "append_task", t) /\ ~Ended(mem) /\ t \notin mem.tasks /\ ps \subseteq mem.tasks
  BY <1>1 DEF AppendTask
<1>4. /\ mem'.status = "running" /\ mem'.tasks = mem.tasks \cup {t}
      /\ mem'.parents = [mem.parents EXCEPT ![t] = ps] /\ mem'.completed = mem.completed
  BY <1>2, <1>3, LogSeen DEF Types
<1>5. mem'.submitted = b.submitted
  <2>1. SameTasks(b, Log(b, "append_task", t))
    BY <1>2, LogFacts DEF Types
  <2>2. QED
    BY <1>3, <2>1 DEF SameTasks
<1>6. \/ dispatched' = dispatched
      \/ dispatched' = Append(dispatched, t) /\ t \in mem'.submitted
  BY <1>1, <1>3 DEF AppendTask, Submit, Quiet
<1>7. t \notin mem.submitted
  BY <1>3 DEF DInv, Placing
<1>8. t \in mem'.submitted => ps \subseteq mem.completed
  BY <1>2, <1>5, <1>7
<1>9. mem.status \in Promise!Active
  <2>1. mem.status \in Statuses
    BY InvTypes, RunFields DEF DInv
  <2>2. QED
    BY <1>3, <2>1 DEF Ended, Statuses, Active, Promise!Active
<1>10. QED
  BY <1>3, <1>4, <1>6, <1>8, <1>9 DEF Promise!Append1

\* Ending the run.
LEMMA EndPromise ==
    ASSUME DInv, NEW s \in Promise!Endings, ~Ended(mem),
           s = "finalized" => mem.completed = mem.tasks,
           mem'.status = s, mem'.tasks = mem.tasks, mem'.parents = mem.parents,
           mem'.completed = mem.completed, dispatched' = dispatched
    PROVE  Promise!End(s)
<1>1. mem.status \in Statuses
  BY InvTypes, RunFields DEF DInv
<1>2. mem.status \in Promise!Active
  BY <1>1 DEF Ended, Statuses, Active, Promise!Active
<1>3. QED
  BY <1>2 DEF Promise!End

\* The requests.
LEMMA RequestPromise ==
    ASSUME DInv, Finalize \/ Cancel \/ Timeout \/ EmitEvent \/ UpdateMetadata
    PROVE  Unseen \/ \E s \in Promise!Endings : Promise!End(s)
<1>1. mem \in Runs
  BY InvTypes DEF DInv
<1>2. CASE Finalize
  <2>1. PICK b : b = [mem EXCEPT !.status = "finalized"]
    OBVIOUS
  <2>2. /\ b \in Runs /\ b.status = "finalized" /\ b.tasks = mem.tasks
        /\ b.parents = mem.parents /\ b.completed = mem.completed
    BY <1>1, <2>1 DEF Runs, Statuses, Endings
  <2>3. /\ mem' = Log(b, "finish_workflow", NoTask)
        /\ mem.status = "finalized" \/ (~Ended(mem) /\ CanFinalize(mem))
        /\ dispatched' = dispatched
    BY <1>2, <2>1 DEF Finalize, Order, Quiet
  <2>4. /\ mem'.status = "finalized" /\ mem'.tasks = mem.tasks
        /\ mem'.parents = mem.parents /\ mem'.completed = mem.completed
    BY <2>2, <2>3, LogSeen DEF Types, Terminal
  <2>5. CASE mem.status = "finalized"
    BY <2>3, <2>4, <2>5 DEF Unseen
  <2>6. CASE ~Ended(mem) /\ CanFinalize(mem)
    <3>1. mem.completed = mem.tasks
      BY <2>6 DEF CanFinalize, DInv, Going, Placing
    <3>2. Promise!End("finalized")
      BY <2>3, <2>4, <2>6, <3>1, EndPromise DEF Promise!Endings
    <3>3. QED
      BY <3>2 DEF Promise!Endings
  <2>7. QED
    BY <2>3, <2>5, <2>6
<1>3. ASSUME NEW end \in {"canceled", "timed_out"}, NEW type \in Types, type # "task_exception",
             mem' = Log(Aborted(mem, end), type, NoTask), ~Ended(mem), dispatched' = dispatched
      PROVE  Promise!End(end) /\ end \in Promise!Endings
  <2>1. PICK b : b = Aborted(mem, end)
    OBVIOUS
  <2>2. end \in Endings
    BY DEF Endings
  <2>3. b \in Runs /\ b.status = end /\ b.tasks = mem.tasks /\ b.parents = mem.parents
        /\ b.completed = mem.completed
    BY <1>1, <2>1, <2>2, AbortedFacts
  <2>4. /\ mem'.status = end /\ mem'.tasks = mem.tasks
        /\ mem'.parents = mem.parents /\ mem'.completed = mem.completed
    BY <1>3, <2>1, <2>3, LogSeen
  <2>5. end \in Promise!Endings
    BY DEF Promise!Endings
  <2>6. QED
    BY <1>3, <2>4, <2>5, EndPromise
<1>4. CASE Cancel
  <2>1. "cancel_dynamic_run" \in Types /\ dispatched' = dispatched
    BY <1>4 DEF Types, Terminal, Cancel, Order, Quiet
  <2>2. Promise!End("canceled") /\ "canceled" \in Promise!Endings
    BY <1>3, <1>4, <2>1 DEF Cancel
  <2>3. QED
    BY <2>2
<1>5. CASE Timeout
  <2>1. "timeout_dynamic_run" \in Types /\ dispatched' = dispatched
    BY <1>5 DEF Types, Terminal, Timeout, Order, Quiet
  <2>2. Promise!End("timed_out") /\ "timed_out" \in Promise!Endings
    BY <1>3, <1>5, <2>1 DEF Timeout
  <2>3. QED
    BY <2>2
<1>6. CASE EmitEvent
  <2>1. mem' = Log(mem, "domain", NoTask) /\ dispatched' = dispatched
    BY <1>6 DEF EmitEvent
  <2>2. QED
    BY <1>1, <2>1, LogSeen DEF Unseen, Types
<1>7. CASE UpdateMetadata
  BY <1>7 DEF UpdateMetadata, Unseen
<1>8. QED
  BY <1>2, <1>4, <1>5, <1>6, <1>7

\* The transaction of a message.
LEMMA HandlePromise ==
    ASSUME DInv, Handle
    PROVE  \/ Unseen
           \/ \E t \in Ids : Promise!Finish(t)
           \/ \E s \in Promise!Endings : Promise!End(s)
<1>1. /\ busy \in Messages /\ busy.task \in Ids /\ busy.task \in Sent /\ ~Ended(mem)
      /\ mem.cont[busy.task].stage = "none" /\ mem \in Runs /\ dispatched' = dispatched
      /\ dispatched \in Seq(Ids)
  BY TypesNow DEF Handle, DInv, Placing
<1>2. PICK m : m = Marked(mem, busy)
  OBVIOUS
<1>3. PICK e \in LogEvents : IsMarked(mem, busy, e, m)
  BY <1>1, <1>2, MarkedFacts
<1>4. mem' \in {mem, m}
  <2>1. PICK w \in Writes :
           CASE w = "done" /\ busy.kind = "finish" ->
                   mem' = m /\ monitor' = "handling" /\ UNCHANGED busy
             [] w = "done" /\ busy.kind # "finish" ->
                   mem' = m /\ monitor' = "idle" /\ busy' = NoMsg
             [] w = "conflict" -> monitor' = "idle" /\ busy' = NoMsg /\ UNCHANGED mem
             [] OTHER -> monitor' = "sleeping" /\ UNCHANGED <<mem, busy>>
    BY <1>2 DEF Handle
  <2>2. CASE w = "done"
    BY <2>1, <2>2
  <2>3. CASE w # "done"
    BY <2>1, <2>3
  <2>4. QED
    BY <2>2, <2>3
<1>5. CASE mem' = mem
  BY <1>1, <1>5 DEF Unseen
<1>6. CASE mem' = m /\ busy.kind = "finish"
  <2>1. PICK t \in Ids : t = busy.task
    BY <1>1
  <2>2. SameTasks(Finished(mem, t), m) /\ m.status = mem.status
    BY <1>3, <1>6, <2>1 DEF IsMarked
  <2>3. /\ mem'.status = mem.status /\ mem'.tasks = mem.tasks /\ mem'.parents = mem.parents
        /\ mem'.completed = mem.completed \cup {t}
    BY <1>1, <1>6, <2>2, FinishedFacts DEF SameTasks
  <2>4. t \notin mem.completed
    BY <1>1, <2>1 DEF DInv, Placing
  <2>5. Promise!IsDispatched(t)
    BY <1>1, <2>1, SentMeaning
  <2>6. mem.status \in Promise!Active
    BY <1>1, RunFields DEF Ended, Statuses, Active, Promise!Active
  <2>7. QED
    BY <1>1, <2>3, <2>4, <2>5, <2>6 DEF Promise!Finish
<1>7. CASE mem' = m /\ busy.kind # "finish"
  <2>1. SameTasks(mem, m) /\ (m.status = mem.status \/ m.status = busy.end)
    BY <1>3, <1>7 DEF IsMarked
  <2>2. /\ mem'.tasks = mem.tasks /\ mem'.parents = mem.parents /\ mem'.completed = mem.completed
    BY <1>7, <2>1 DEF SameTasks
  <2>3. CASE m.status = mem.status
    BY <1>1, <1>7, <2>2, <2>3 DEF Unseen
  <2>4. CASE m.status = busy.end
    <3>1. busy.end \in {"failed", "timed_out"}
      BY <1>1 DEF Messages
    <3>2. PICK s \in Promise!Endings : s = busy.end /\ s # "finalized"
      BY <3>1 DEF Promise!Endings
    <3>3. Promise!End(s)
      BY <1>1, <1>7, <2>2, <2>4, <3>2, EndPromise
    <3>4. QED
      BY <3>3
  <2>5. QED
    BY <2>1, <2>3, <2>4
<1>8. QED
  BY <1>4, <1>5, <1>6, <1>7

\* A child is sent.
LEMMA DispatchPromise ==
    ASSUME DInv, NEW t \in Ids, NEW c \in Ids, Dispatch(t, c)
    PROVE  Promise!Dispatch(c)
<1>1. /\ c \in Todo(t) /\ dispatched' = Append(dispatched, c)
      /\ mem' = [mem EXCEPT !.cont[t].todo = @ \ {c}]
  BY DEF Dispatch, NextChildren, Todo, Submit, SaveStage
<1>2. mem \in Runs /\ dispatched \in Seq(Ids)
  BY InvTypes DEF DInv
<1>3. /\ mem'.status = mem.status /\ mem'.tasks = mem.tasks /\ mem'.parents = mem.parents
      /\ mem'.completed = mem.completed
  BY <1>1, <1>2 DEF Runs
<1>4. c \in mem.tasks /\ c \notin Sent /\ mem.parents[c] \subseteq mem.completed
  BY <1>1 DEF DInv, Placing
<1>5. ~Promise!IsDispatched(c)
  BY <1>2, <1>4, SentMeaning
<1>6. QED
  BY <1>1, <1>3, <1>4, <1>5 DEF Promise!Dispatch

\* The other steps of the monitor and of the process: the clients see no change.
LEMMA OtherUnseen ==
    ASSUME DInv, \/ Drop \/ Crash \/ Recover \/ Recovered \/ Refuse
                 \/ \E t \in Ids : Arrive(t) \/ Notify(t) \/ Complete(t) \/ \E c \in Ids : Announce(t, c)
    PROVE  Unseen
<1>1. mem \in Runs
  BY InvTypes DEF DInv
<1>2. CASE \/ Drop \/ Crash \/ Recover \/ Recovered \/ Refuse \/ \E t \in Ids : Arrive(t)
  BY <1>2 DEF Drop, Crash, Recover, Recovered, Refuse, Arrive, Unseen
<1>3. ASSUME NEW t \in Ids, Notify(t) PROVE Unseen
  BY <1>1, <1>3 DEF Notify, SaveStage, Unseen, Runs
<1>4. ASSUME NEW t \in Ids, Complete(t) PROVE Unseen
  BY <1>1, <1>4 DEF Complete, Unseen, Runs
<1>5. ASSUME NEW t \in Ids, NEW c \in Ids, Announce(t, c) PROVE Unseen
  <2>1. PICK m : m = IF mem.ready[c].seq # 0 THEN mem
                     ELSE [Log(mem, "task_ready", c) EXCEPT !.ready[c].seq = Len(mem.log) + 1]
    OBVIOUS
  <2>2. mem' \in {m, [m EXCEPT !.ready[c].sent = TRUE]} /\ dispatched' = dispatched
    <3>1. PICK w \in Writes :
             CASE w = "done"     -> mem' = [m EXCEPT !.ready[c].sent = TRUE] /\ monitor' = "handling" /\ UNCHANGED busy
               [] w = "conflict" -> mem' = m /\ monitor' = "idle" /\ busy' = NoMsg
               [] w = "all"      -> mem' \in {m, [m EXCEPT !.ready[c].sent = TRUE]} /\ monitor' = "sleeping" /\ UNCHANGED busy
               [] OTHER          -> mem' = m /\ monitor' = "sleeping" /\ UNCHANGED busy
      BY <1>5, <2>1 DEF Announce
    <3>2. CASE w \in {"done", "conflict", "all"}
      BY <3>1, <3>2, <1>5 DEF Announce
    <3>3. CASE w \notin {"done", "conflict", "all"}
      BY <3>1, <3>3, <1>5 DEF Announce
    <3>4. QED
      BY <3>2, <3>3
  <2>3. SameTasks(mem, m) /\ m \in Runs /\ m.status = mem.status
    <3>1. CASE mem.ready[c].seq # 0
      BY <1>1, <2>1, <3>1 DEF SameTasks
    <3>2. CASE mem.ready[c].seq = 0
      <4>1. PICK b : b = Log(mem, "task_ready", c)
        OBVIOUS
      <4>2. b \in Runs /\ SameTasks(mem, b) /\ b.status = mem.status
        BY <1>1, <4>1, LogFacts DEF Types
      <4>3. PICK n \in Nat : n = Len(mem.log) + 1
        BY InvTypes DEF DInv
      <4>4. SameRun(b, m)
        BY <2>1, <3>2, <4>1, <4>2, <4>3, ReadyFacts
      <4>5. QED
        BY <4>2, <4>4 DEF SameRun, SameTasks
    <3>3. QED
      BY <3>1, <3>2
  <2>4. m \in Runs /\ SameRun(m, [m EXCEPT !.ready[c].sent = TRUE])
    BY <2>3, ReadyFacts DEF SameRun
  <2>5. QED
    BY <2>2, <2>3, <2>4 DEF Unseen, SameRun, SameTasks
<1>6. QED
  BY <1>2, <1>3, <1>4, <1>5

\* Every step of the run is a step of GrowingRun, or none.
LEMMA StepPromise ==
    ASSUME DInv, [Next]_vars
    PROVE  [Promise!Next]_(Promise!vars)
<1>1. CASE Unseen
  BY <1>1 DEF Unseen, Promise!vars
<1>2. CASE UNCHANGED vars
  BY <1>2 DEF vars, Promise!vars
<1>3. ASSUME NEW t \in Ids, NEW ps \in SUBSET Ids, AppendTask(t, ps) PROVE Promise!Next
  BY <1>3, AppendPromise DEF Promise!Next
<1>4. ASSUME NEW t \in Ids, NEW c \in Ids, Dispatch(t, c) PROVE Promise!Next
  BY <1>4, DispatchPromise DEF Promise!Next
<1>5. CASE Handle
  BY <1>1, <1>5, HandlePromise DEF Promise!Next
<1>6. CASE Finalize \/ Cancel \/ Timeout \/ EmitEvent \/ UpdateMetadata
  BY <1>1, <1>6, RequestPromise DEF Promise!Next
<1>7. CASE \/ Drop \/ Crash \/ Recover \/ Recovered \/ Refuse
           \/ \E t \in Ids : Arrive(t) \/ Notify(t) \/ Complete(t) \/ \E c \in Ids : Announce(t, c)
  BY <1>1, <1>7, OtherUnseen
<1>8. QED
  BY <1>2, <1>3, <1>4, <1>5, <1>6, <1>7 DEF Next, Monitor

\* The run implements GrowingRun: what was read is never taken back, tasks join
\* with known parents and are sent once, after them, a finalized run is complete,
\* and its end is its last.
THEOREM DynamicRunKeepsPromise == Spec => Promise!Spec
<1>1. Init => Promise!Init
  BY DEF Init, Promise!Init
<1>2. DInv /\ [Next]_vars => [Promise!Next]_(Promise!vars)
  BY StepPromise
<1>3. QED
  BY <1>1, <1>2, DynamicInvariance, PTL DEF Spec, Promise!Spec
===============================================================================
