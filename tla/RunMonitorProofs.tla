--------------------------- MODULE RunMonitorProofs ---------------------------
(***************************************************************************)
(* Theorems about RunMonitor, for every graph of tasks and any number of   *)
(* retries, failed writes and stop requests.                               *)
(***************************************************************************)
EXTENDS RunMonitor, FiniteSetTheorems, TLAPS

Kinds == {"none", "start", "retry", "finish", "exception"}

\* The event streams, and the message in hand.
StreamOK == last \in [Tasks -> [kind : Kinds, n : Nat, known : BOOLEAN]]
BusyOK ==
    busy # NoMsg =>
       /\ busy.task \in Tasks
       /\ busy.event \in [kind : Kinds, n : Nat, known : BOOLEAN]
       /\ busy.end \in {"succeeded", "failed", "timed_out"}
       /\ busy.end # "succeeded" => busy.event.kind \in {"finish", "exception"}
       /\ busy.event.kind = "exception" => busy.end # "succeeded"
       /\ busy.event.kind # "none"

\* What the Scheduler was sent, and the rest of TypeOK.
SentOK == dispatched \in Seq(Tasks) /\ orders \subseteq {"clear_workflow", "stop_workflow"}
RunOK ==
    /\ core \in {"up", "down", "recovered"} /\ monitor \in {"idle", "handling", "sleeping"}
    /\ mem \in [status : Statuses, task : TaskStates, log : Seq(LogEvents),
                cont : [Tasks -> [stage : Stages, todo : SUBSET Tasks]]]
    /\ acc \in [Tasks -> [n : Nat, state : {"none", "running", "retrying", "terminal",
                                            "rejected"}]]
    /\ disk \in [log : Seq([seq : Nat, event : LogEvents]),
                 snap : [status : Statuses, task : TaskStates]]
    /\ told \in Seq([seq : Nat, event : LogEvents])
    /\ open \in BOOLEAN /\ faults \in 0..MaxFaults /\ stops \in 0..MaxStops

TypeInv == RunOK /\ StreamOK /\ BusyOK

\* The numbers of the events on disk grow.
LogGrows == \A i, j \in 1..Len(disk.log) : i < j => disk.log[i].seq < disk.log[j].seq

Runs  == [status : Statuses, task : TaskStates, log : Seq(LogEvents),
          cont : [Tasks -> [stage : Stages, todo : SUBSET Tasks]]]
Entries == [seq : Nat, event : LogEvents]
Disks == [log : Seq(Entries),
          snap : [status : Statuses, task : TaskStates]]

-------------------------------------------------------------------------------
(* Types. *)

\* Taking an event out of a stream keeps the streams typed.
LEMMA StreamType ==
    ASSUME StreamOK, NEW t \in Tasks,
           \/ Stream!Start(t) \/ Stream!Finish(t) \/ Stream!Retry(t)
           \/ Stream!Fail(t) \/ Stream!FailWaiting(t)
    PROVE  StreamOK' /\ last'[t].kind # "none"
<1>1. \A kind \in Kinds, n \in Nat, known \in BOOLEAN :
         Stream!Say(t, kind, n, known) => StreamOK' /\ last'[t].kind = kind
  BY DEF StreamOK, Stream!Say
<1>2. last[t].n \in Nat /\ last[t].n + 1 \in Nat
  BY DEF StreamOK
<1>3. QED
  BY <1>1, <1>2 DEF Kinds, Stream!Start, Stream!Finish, Stream!Retry, Stream!Fail,
     Stream!FailWaiting

\* Logging an event gives a run again.
LEMMA LogType ==
    ASSUME NEW m \in Runs, NEW ev \in LogEvents
    PROVE  /\ Log(m, ev) \in Runs /\ Log(m, ev).log = Append(m.log, ev)
           /\ Log(m, ev).cont = m.cont /\ Log(m, ev).status = m.status
<1>1. m.log \in Seq(LogEvents)
  BY DEF Runs
<1>2. Append(m.log, ev) \in Seq(LogEvents)
  BY <1>1
<1>3. QED
  BY <1>2 DEF Log, Runs

\* The events that the run logs are typed.
LEMMA EventTypes ==
    /\ \A type \in Types, t \in Tasks, k \in Nat : Event(type, t, k) \in LogEvents
    /\ \A type \in Types : RunEvent(type) \in LogEvents
BY DEF Event, RunEvent, LogEvents

\* Moving a continuation to another stage changes nothing else.
LEMMA StageType ==
    ASSUME NEW m \in Runs, NEW t \in Tasks, NEW stage \in Stages
    PROVE  /\ Stage(m, t, stage) \in Runs
           /\ Stage(m, t, stage).log = m.log /\ Stage(m, t, stage).status = m.status
           /\ Stage(m, t, stage).task = m.task
           /\ Stage(m, t, stage).cont[t].stage = stage
           /\ \A u \in Tasks \ {t} : Stage(m, t, stage).cont[u] = m.cont[u]
<1> DEFINE c == [m.cont EXCEPT ![t].stage = stage]
<1>1. m.cont \in [Tasks -> [stage : Stages, todo : SUBSET Tasks]]
  BY DEF Runs
<1>2. c = [m.cont EXCEPT ![t] = [m.cont[t] EXCEPT !.stage = stage]]
  OBVIOUS
<1>3. [m.cont[t] EXCEPT !.stage = stage] \in [stage : Stages, todo : SUBSET Tasks]
      /\ [m.cont[t] EXCEPT !.stage = stage].stage = stage
  BY <1>1
<1>4. /\ c \in [Tasks -> [stage : Stages, todo : SUBSET Tasks]]
      /\ c[t].stage = stage /\ \A u \in Tasks \ {t} : c[u] = m.cont[u]
  BY <1>1, <1>2, <1>3
<1>5. Stage(m, t, stage) = [m EXCEPT !.cont = c]
  BY DEF Stage
<1> HIDE DEF c
<1>6. QED
  BY <1>4, <1>5 DEF Runs

\* The marks of an event, before it is written, are a run with one more event,
\* and a new continuation if the task has finished.
LEMMA MarkedType ==
    ASSUME TypeInv, busy # NoMsg
    PROVE  LET t == busy.task
               e == busy.event
               m == Marked(t, e)
           IN  /\ m \in Runs
               /\ \A u \in Tasks \ {t} : m.cont[u].stage = mem.cont[u].stage
               /\ \E ev \in LogEvents :
                     /\ m.log = Append(mem.log, ev)
                     /\ \/ /\ ev.type = "finish_task" /\ ev.task = t /\ e.kind = "finish"
                           /\ m.cont[t].stage = "notify"
                        \/ /\ ev.type \in {"start_task", "task_retry", "task_exception"}
                           /\ m.cont[t].stage = mem.cont[t].stage
<1> DEFINE t == busy.task
           e == busy.event
           Good(m) == /\ m \in Runs
                      /\ \A u \in Tasks \ {t} : m.cont[u].stage = mem.cont[u].stage
                      /\ \E ev \in LogEvents :
                            /\ m.log = Append(mem.log, ev)
                            /\ \/ /\ ev.type = "finish_task" /\ ev.task = t /\ e.kind = "finish"
                                  /\ m.cont[t].stage = "notify"
                               \/ /\ ev.type \in {"start_task", "task_retry", "task_exception"}
                                  /\ m.cont[t].stage = mem.cont[t].stage
<1>1. mem \in Runs /\ t \in Tasks /\ e.n \in Nat /\ e.kind \in Kinds
      /\ busy.end \in {"succeeded", "failed", "timed_out"}
      /\ (busy.end # "succeeded" => e.kind \in {"finish", "exception"})
      /\ (e.kind = "exception" => busy.end # "succeeded") /\ e.kind # "none"
  BY DEF TypeInv, RunOK, BusyOK, Runs
<1>2. MarkStarted(mem, t) \in Runs /\ MarkStarted(mem, t).log = mem.log
      /\ MarkStarted(mem, t).cont = mem.cont
  BY <1>1 DEF MarkStarted, Runs, Statuses, TaskStates, Active, Pending
<1>3. MarkRetry(mem, t) \in Runs /\ MarkRetry(mem, t).log = mem.log
      /\ MarkRetry(mem, t).cont = mem.cont
  BY <1>1 DEF MarkRetry, Runs, TaskStates, Pending
<1>4. busy.end # "succeeded" => /\ MarkFailed(mem, t, busy.end) \in Runs
                                /\ MarkFailed(mem, t, busy.end).log = mem.log
                                /\ MarkFailed(mem, t, busy.end).cont = mem.cont
  BY <1>1 DEF MarkFailed, Runs, Statuses, TaskStates, Endings
<1> DEFINE fin  == MarkFinished(mem, t)
           done == Stage(fin, t, "notify")
<1>5. /\ done \in Runs /\ done.log = mem.log /\ done.cont[t].stage = "notify"
      /\ \A u \in Tasks \ {t} : done.cont[u] = mem.cont[u]
  <2>1. fin \in Runs /\ fin.log = mem.log /\ fin.cont = mem.cont
    BY <1>1 DEF MarkFinished, Runs, Statuses, TaskStates, Endings, Pending
  <2>2. "notify" \in Stages /\ t \in Tasks
    BY <1>1 DEF Stages
  <2> HIDE DEF fin, t, Good
  <2>3. QED
    BY <2>1, <2>2, StageType
<1>6. \A m \in Runs, ev \in LogEvents : m.log = mem.log =>
         /\ Log(m, ev) \in Runs /\ Log(m, ev).log = Append(mem.log, ev)
         /\ Log(m, ev).cont = m.cont
  BY LogType
<1>7. \A type \in Types : /\ Event(type, t, e.n) \in LogEvents
                          /\ Event(type, t, e.n).type = type /\ Event(type, t, e.n).task = t
  BY <1>1, EventTypes DEF Event
<1> HIDE DEF t, e, done
<1>8. Good(Marked(t, e))
  <2>1. CASE e.kind = "start"
    <3>1. Marked(t, e) = Log(MarkStarted(mem, t), Event("start_task", t, e.n))
      BY <1>1, <2>1 DEF Marked
    <3>2. QED
      BY <3>1, <1>2, <1>6, <1>7, <2>1 DEF Types
  <2>2. CASE e.kind = "retry"
    <3>1. Marked(t, e) = Log(MarkRetry(mem, t), Event("task_retry", t, e.n))
      BY <1>1, <2>2 DEF Marked
    <3>2. QED
      BY <3>1, <1>3, <1>6, <1>7, <2>2 DEF Types
  <2>3. CASE e.kind \notin {"start", "retry"} /\ busy.end # "succeeded"
    <3>1. Marked(t, e) = Log(MarkFailed(mem, t, busy.end), Event("task_exception", t, e.n))
      BY <1>1, <2>3 DEF Marked
    <3>2. QED
      BY <3>1, <1>4, <1>6, <1>7, <2>3 DEF Types
  <2>4. CASE e.kind \notin {"start", "retry"} /\ busy.end = "succeeded"
    <3>1. Marked(t, e) = Log(done, Event("finish_task", t, e.n)) /\ e.kind = "finish"
      BY <1>1, <2>4 DEF Marked, Stage, done, fin, Kinds
    <3>2. QED
      BY <3>1, <1>5, <1>6, <1>7 DEF Types
  <2>5. QED
    BY <2>1, <2>2, <2>3, <2>4
<1>9. QED
  BY <1>8 DEF t, e

\* Appending adds the new element to the set of a sequence's elements.
LEMMA ToSetAppend ==
    ASSUME NEW S, NEW s \in Seq(S), NEW x \in S
    PROVE  ToSet(Append(s, x)) = ToSet(s) \cup {x}
<1> DEFINE a == Append(s, x)
<1>1. Len(s) \in Nat /\ DOMAIN s = 1..Len(s) /\ DOMAIN a = 1..Len(s) + 1
  OBVIOUS
<1>2. \A i \in 1..Len(s) : a[i] = s[i]
  OBVIOUS
<1>3. a[Len(s) + 1] = x
  OBVIOUS
<1>4. \A i \in 1..Len(s) + 1 : i \in 1..Len(s) \/ i = Len(s) + 1
  BY <1>1
<1>5. 1..Len(s) \subseteq 1..Len(s) + 1 /\ Len(s) + 1 \in 1..Len(s) + 1
  BY <1>1
<1> HIDE DEF a
<1>6. \A y : y \in ToSet(a) <=> y \in ToSet(s) \cup {x}
  BY <1>1, <1>2, <1>3, <1>4, <1>5 DEF ToSet
<1>7. QED
  BY <1>6 DEF a

\* The last number on disk is a number.
LEMMA LastSeqType ==
    ASSUME disk \in Disks
    PROVE  LastSeq \in Nat
<1>1. CASE disk.log = <<>>
  BY <1>1 DEF LastSeq
<1>2. CASE disk.log # <<>>
  <2>1. disk.log[Len(disk.log)] \in Entries
    BY <1>2 DEF Disks
  <2>2. QED
    BY <1>2, <2>1 DEF LastSeq, Entries
<1>3. QED
  BY <1>1, <1>2

\* An event whose number is above the last one keeps the numbers growing.
LEMMA AppendGrows ==
    ASSUME disk \in Disks, LogGrows, NEW x \in Entries,
           x.seq > LastSeq, disk'.log = Append(disk.log, x)
    PROVE  LogGrows'
<1> DEFINE log == disk.log
           n == Len(log)
<1>1. log \in Seq(Entries) /\ n \in Nat
  BY DEF Disks
<1>2. \A i \in 1..n : log[i].seq \in Nat /\ log[i].seq < x.seq
  <2> TAKE i \in 1..n
  <2>1. log # <<>> /\ LastSeq = log[n].seq /\ n \in 1..n
    BY <1>1 DEF LastSeq
  <2>2. i < n => log[i].seq < log[n].seq
    BY <2>1 DEF LogGrows
  <2>3. i = n \/ i < n
    BY <1>1
  <2>4. log[i] \in Entries /\ log[n] \in Entries
    BY <1>1, <2>1
  <2>5. log[i].seq \in Nat /\ log[n].seq \in Nat /\ x.seq \in Nat
    BY <2>4 DEF Entries
  <2>6. QED
    BY <2>1, <2>2, <2>3, <2>5
<1>3. /\ Len(disk'.log) = n + 1 /\ disk'.log[n + 1] = x
      /\ \A i \in 1..n : disk'.log[i] = log[i]
  BY <1>1
<1>4. SUFFICES ASSUME NEW i \in 1..n + 1, NEW j \in 1..n + 1, i < j
               PROVE  disk'.log[i].seq < disk'.log[j].seq
  BY <1>3 DEF LogGrows
<1>5. CASE j = n + 1
  BY <1>1, <1>2, <1>3, <1>4, <1>5
<1>6. CASE j # n + 1
  <2>1. i \in 1..n /\ j \in 1..n
    BY <1>1, <1>4, <1>6
  <2>2. QED
    BY <1>3, <1>4, <2>1 DEF LogGrows
<1>7. QED
  BY <1>5, <1>6

\* What a write leaves on disk: the log is the same or has the event as its new
\* last, the numbers still grow, and a write that is done is there.
LEMMA RecordEffect ==
    ASSUME TypeInv, LogGrows, NEW m \in Runs, NEW ev \in LogEvents, NEW k \in Nat, NEW w,
           Outcome(w, k, ev), Record(w, m, k, ev)
    PROVE  /\ disk' \in Disks /\ faults' \in 0..MaxFaults /\ LogGrows'
           /\ disk'.log \in {disk.log, Append(disk.log, Logged(k, ev))}
           /\ disk'.snap \in {disk.snap, Snap(m)}
           /\ w = "done" => Logged(k, ev) \in ToSet(disk'.log) /\ disk'.snap = Snap(m)
<1>1. disk \in Disks /\ faults \in 0..MaxFaults /\ MaxFaults \in Nat
  BY BoundsAssumption DEF TypeInv, RunOK, Disks, Entries
<1>2. Snap(m) \in [status : Statuses, task : TaskStates]
  BY DEF Snap, Runs
<1>3. Logged(k, ev) \in Entries /\ Logged(k, ev).seq = k
  BY DEF Logged, Entries
<1>4. /\ disk'.log = IF w \in {"done", "event", "all"} /\ ~OnDisk(k, ev)
                     THEN Append(disk.log, Logged(k, ev)) ELSE disk.log
      /\ disk'.snap = IF w \in {"done", "all"} THEN Snap(m) ELSE disk.snap
      /\ disk' = [log |-> disk'.log, snap |-> disk'.snap]
  BY DEF Record
<1>5. Append(disk.log, Logged(k, ev)) \in Seq(Entries)
  BY <1>1, <1>3 DEF Disks
<1>6. disk' \in Disks
  BY <1>1, <1>2, <1>4, <1>5 DEF Disks
<1>7. faults' \in 0..MaxFaults
  BY <1>1 DEF Record, Outcome, Failures
<1>8. LogGrows'
  <2>1. CASE disk'.log = disk.log
    BY <2>1 DEF LogGrows
  <2>2. CASE disk'.log # disk.log
    <3>1. disk'.log = Append(disk.log, Logged(k, ev)) /\ ~OnDisk(k, ev)
      BY <1>4, <2>2
    <3>2. w # "conflict"
      BY <1>4, <2>2
    <3>3. k > LastSeq
      <4>1. LastSeq \in Nat
        BY <1>1, LastSeqType
      <4>2. QED
        BY <3>1, <3>2, <4>1 DEF Outcome, Conflict
    <3>4. QED
      BY <1>1, <1>3, <3>1, <3>3, AppendGrows
  <2>3. QED
    BY <2>1, <2>2
<1>9. w = "done" => Logged(k, ev) \in ToSet(disk'.log)
  <2>1. CASE OnDisk(k, ev)
    BY <1>4, <2>1 DEF OnDisk, ToSet
  <2>2. CASE ~OnDisk(k, ev)
    <3>1. disk.log \in Seq(Entries)
      BY <1>1 DEF Disks
    <3>2. Logged(k, ev) \in ToSet(Append(disk.log, Logged(k, ev)))
      BY <1>3, <3>1, ToSetAppend
    <3>3. QED
      BY <1>4, <2>2, <3>2
  <2>3. QED
    BY <2>1, <2>2
<1>10. QED
  BY <1>4, <1>6, <1>7, <1>8, <1>9

\* A save leaves the log alone and the old snapshot or the new one on disk.
LEMMA SaveEffect ==
    ASSUME TypeInv, NEW m \in Runs, NEW w, SaveOutcome(w), Save(w, m)
    PROVE  /\ disk' \in Disks /\ faults' \in 0..MaxFaults
           /\ disk'.log = disk.log /\ disk'.snap \in {disk.snap, Snap(m)}
<1>1. disk \in Disks /\ faults \in 0..MaxFaults /\ MaxFaults \in Nat
  BY BoundsAssumption DEF TypeInv, RunOK, Disks, Entries
<1>2. Snap(m) \in [status : Statuses, task : TaskStates]
  BY DEF Snap, Runs
<1>3. disk' = [disk EXCEPT !.snap = IF w = "nothing" THEN @ ELSE Snap(m)]
  BY DEF Save
<1>4. faults' \in 0..MaxFaults
  BY <1>1 DEF Save, SaveOutcome
<1>5. QED
  BY <1>1, <1>2, <1>3, <1>4 DEF Disks

\* What is told stays typed.
LEMMA TellType ==
    ASSUME told \in Seq(Entries), NEW k \in Nat, NEW ev \in LogEvents, Tell(k, ev)
    PROVE  told' \in Seq(Entries) /\ told' \in {told, Append(told, Logged(k, ev))}
<1>1. Logged(k, ev) \in Entries
  BY DEF Logged, Entries
<1>2. QED
  BY <1>1 DEF Tell

\* The runs that the sweep and a stop request make.
LEMMA EndPendingType ==
    ASSUME NEW m \in Runs, NEW end \in Endings
    PROVE  /\ EndPending(m, end) \in Runs /\ EndPending(m, end).log = m.log
           /\ EndPending(m, end).cont = m.cont /\ EndPending(m, end).status = end
BY DEF EndPending, Runs, Statuses, TaskStates

\* The event that Seq1 finds, if there is one.
LEMMA Seq1Type ==
    ASSUME mem \in Runs, NEW type, NEW t,
           \E k \in 1..Len(mem.log) : mem.log[k].type = type /\ mem.log[k].task = t
    PROVE  /\ Seq1(type, t) \in 1..Len(mem.log) /\ Seq1(type, t) \in Nat
           /\ mem.log[Seq1(type, t)] \in LogEvents
           /\ mem.log[Seq1(type, t)].type = type /\ mem.log[Seq1(type, t)].task = t
<1>1. /\ Seq1(type, t) \in 1..Len(mem.log)
      /\ mem.log[Seq1(type, t)].type = type /\ mem.log[Seq1(type, t)].task = t
  BY DEF Seq1
<1>2. mem.log \in Seq(LogEvents)
  BY DEF Runs
<1>3. QED
  BY <1>1, <1>2

-------------------------------------------------------------------------------
(* The inductive invariant. *)

Hands == {"notify", "advance", "dispatch", "tell", "clear"}
Early == {"notify", "advance", "dispatch"}

EndAt(k) == k \in 1..Len(mem.log) /\ mem.log[k].type = "finish_workflow"
HasEnd   == \E k \in 1..Len(mem.log) : EndAt(k)

\* A continuation is worked on only as long as its message is in hand.
InHand ==
    core = "up" => /\ monitor = "idle" => busy = NoMsg
                   /\ \A t \in Tasks : mem.cont[t].stage \in Hands =>
                                          busy # NoMsg /\ busy.task = t
\* A continuation belongs to a task whose finish was accepted and logged, and
\* no other event of that task is accepted any more.
Accounted ==
    \A t \in Tasks : mem.cont[t].stage # "none" =>
       /\ acc[t].state = "terminal"
       /\ \E k \in 1..Len(mem.log) : mem.log[k].type = "finish_task" /\ mem.log[k].task = t
\* The finish events in memory are on disk: those of failed writes are undone.
FinishSaved ==
    \A k \in 1..Len(mem.log) :
       mem.log[k].type = "finish_task" => Logged(k, mem.log[k]) \in ToSet(disk.log)
\* The run's end is logged once, by the last continuation, after the success.
EndOnce ==
    \A j, k \in 1..Len(mem.log) : EndAt(j) /\ EndAt(k) => j = k /\ mem.log[k].task = NoTask
EndLate ==
    HasEnd => /\ mem.status = "succeeded"
              /\ core = "up" => \A t \in Tasks : mem.cont[t].stage \notin Early
EndThere == \A t \in Tasks : mem.cont[t].stage \in {"event", "tell"} => HasEnd
EndSaved ==
    \A t \in Tasks, k \in 1..Len(mem.log) :
       mem.cont[t].stage = "tell" /\ EndAt(k) => Logged(k, mem.log[k]) \in ToSet(disk.log)
\* Success in memory is success on disk, and the end on disk is known in memory.
SuccessSaved == mem.status = "succeeded" => disk.snap.status = "succeeded"
EndKnown == \A x \in ToSet(disk.log) : x.event.type = "finish_workflow" => HasEnd
\* Only recovery interrupts a run, once, and never one that logged its end.
Interrupts ==
    LET log == disk.log
    IN  /\ Interrupted => core # "up"
        /\ \A i, j \in 1..Len(log) :
              log[i].event = Interrupt =>
                 i = j \/ log[j].event \notin {Interrupt, RunEvent("finish_workflow")}
ToldSaved == ToSet(told) \subseteq ToSet(disk.log)

Conts == InHand /\ Accounted /\ EndOnce /\ EndLate /\ EndThere
Saves == FinishSaved /\ EndSaved /\ SuccessSaved /\ EndKnown /\ Interrupts /\ ToldSaved
IInv  == TypeInv /\ LogGrows /\ Conts /\ Saves

-------------------------------------------------------------------------------
(* The steps of a continuation that only save. *)

Moves == {<<"notify", "advance">>, <<"advance", "dispatch">>, <<"dispatch", "dispatch">>,
          <<"tell", "clear">>, <<"clear", "completed">>, <<"dispatch", "completed">>,
          <<"completed", "completed">>}

\* A continuation that moves to its next stage with a save, and tells at most
\* what is on disk, keeps the invariant.
LEMMA StageStep ==
    ASSUME IInv, NEW t \in Tasks, NEW from, NEW to, At(t, from), <<from, to>> \in Moves,
           mem' \in Runs, mem'.log = mem.log, mem'.status = mem.status,
           mem'.cont[t].stage = to,
           \A u \in Tasks \ {t} : mem'.cont[u].stage = mem.cont[u].stage,
           monitor' \in {"handling", "sleeping", "idle"},
           \/ busy' = busy /\ monitor' # "idle"
           \/ busy' = NoMsg /\ monitor' = "idle" /\ to = "completed",
           UNCHANGED <<core, acc, open, last, stops>>,
           disk' \in Disks, faults' \in 0..MaxFaults, disk'.log = disk.log,
           disk'.snap.status \in {disk.snap.status, mem.status},
           told' \in Seq(Entries), ToSet(told') \subseteq ToSet(told) \cup ToSet(disk.log)
    PROVE  IInv'
<1>1. TypeInv'
  BY DEF IInv, TypeInv, RunOK, StreamOK, BusyOK, Runs, Disks, Entries
<1>2. LogGrows'
  BY DEF IInv, LogGrows
<1>3. core = "up" /\ core' = "up" /\ busy # NoMsg /\ busy.task = t /\ mem.cont[t].stage = from
  BY DEF At
<1>4. /\ from \in Hands \cup {"completed"} /\ from # "none" /\ from # "event"
      /\ to \in Hands \cup {"completed"} /\ to # "event" /\ to # "tell"
      /\ to \in Early => from \in Early
  BY DEF Moves, Hands, Early
<1>5. HasEnd' = HasEnd /\ \A k : EndAt(k)' = EndAt(k)
  BY DEF HasEnd, EndAt
<1>6. InHand'
  <2>1. \A u \in Tasks \ {t} : mem.cont[u].stage \notin Hands
    BY <1>3 DEF IInv, Conts, InHand
  <2>2. to = "completed" => to \notin Hands
    BY DEF Hands
  <2>3. \A u \in Tasks : mem'.cont[u].stage \in Hands => u = t /\ to # "completed"
    BY <2>1, <2>2
  <2>4. QED
    BY <1>3, <2>3 DEF InHand
<1>7. Accounted'
  BY <1>3, <1>4 DEF IInv, Conts, Accounted
<1>8. EndOnce' /\ EndLate' /\ EndThere'
  <2>1. EndOnce'
    BY <1>5 DEF IInv, Conts, EndOnce
  <2>2. EndThere'
    BY <1>4, <1>5 DEF IInv, Conts, EndThere
  <2>3. EndLate'
    BY <1>3, <1>4, <1>5 DEF IInv, Conts, EndLate
  <2>4. QED
    BY <2>1, <2>2, <2>3
<1>9. FinishSaved' /\ EndSaved' /\ EndKnown'
  <2>1. FinishSaved'
    BY DEF IInv, Saves, FinishSaved
  <2>2. EndSaved'
    BY <1>4, <1>5 DEF IInv, Saves, EndSaved
  <2>3. EndKnown'
    BY <1>5 DEF IInv, Saves, EndKnown
  <2>4. QED
    BY <2>1, <2>2, <2>3
<1>10. SuccessSaved'
  BY DEF IInv, Saves, SuccessSaved
<1>11. Interrupts'
  BY DEF IInv, Saves, Interrupts, Interrupted
<1>12. ToldSaved'
  BY DEF IInv, Saves, ToldSaved
<1>13. QED
  BY <1>1, <1>2, <1>6, <1>7, <1>8, <1>9, <1>10, <1>11, <1>12 DEF IInv, Conts, Saves

\* Telling adds at most the event to what was told.
LEMMA TellSaved ==
    ASSUME told \in Seq(Entries), NEW k \in Nat, NEW ev \in LogEvents, Tell(k, ev)
    PROVE  ToSet(told') \subseteq ToSet(told) \cup {Logged(k, ev)}
<1>1. Logged(k, ev) \in Entries
  BY DEF Logged, Entries
<1>2. CASE told' = told
  BY <1>2
<1>3. CASE told' = Append(told, Logged(k, ev))
  BY <1>1, <1>3, ToSetAppend
<1>4. QED
  BY <1>2, <1>3, TellType

\* The types that the steps below need, gathered.
LEMMA Typed ==
    ASSUME IInv
    PROVE  /\ mem \in Runs /\ mem.log \in Seq(LogEvents) /\ Len(mem.log) \in Nat
           /\ \A t \in Tasks : mem.cont[t] \in [stage : Stages, todo : SUBSET Tasks]
           /\ disk \in Disks /\ disk.log \in Seq(Entries) /\ told \in Seq(Entries)
           /\ faults \in 0..MaxFaults /\ stops \in 0..MaxStops
BY DEF IInv, TypeInv, RunOK, Runs, Disks, Entries

\* The steps of _continue_static_finish up to a save: the subscribers are told of the
\* finish, which the transaction has written.
LEMMA NotifyStep ==
    ASSUME IInv, NEW t \in Tasks, Notify(t)
    PROVE  IInv'
<1> DEFINE k == Seq1("finish_task", t)
           m == Stage(mem, t, "advance")
<1>1. At(t, "notify") /\ mem.cont[t].stage = "notify"
  BY DEF Notify, At
<1>2. /\ k \in 1..Len(mem.log) /\ k \in Nat /\ mem.log[k] \in LogEvents
      /\ mem.log[k].type = "finish_task"
  BY <1>1, Typed, Seq1Type DEF IInv, Conts, Accounted
<1>3. Logged(k, mem.log[k]) \in ToSet(disk.log)
  BY <1>2 DEF IInv, Saves, FinishSaved
<1>4. Tell(k, mem.log[k]) /\ SaveStage(m) /\ UNCHANGED <<core, acc, busy, open, last, stops>>
  BY DEF Notify
<1>5. /\ m \in Runs /\ m.log = mem.log /\ m.status = mem.status
      /\ m.cont[t].stage = "advance" /\ \A u \in Tasks \ {t} : m.cont[u] = mem.cont[u]
  BY Typed, StageType DEF Stages
<1> HIDE DEF k, m
<1>6. told' \in Seq(Entries) /\ ToSet(told') \subseteq ToSet(told) \cup ToSet(disk.log)
  BY <1>2, <1>3, <1>4, Typed, TellType, TellSaved
<1>7. mem' = m /\ monitor' \in {"handling", "sleeping"}
      /\ \E w : SaveOutcome(w) /\ Save(w, m)
  BY <1>4 DEF SaveStage, Saved
<1>8. /\ disk' \in Disks /\ faults' \in 0..MaxFaults /\ disk'.log = disk.log
      /\ disk'.snap \in {disk.snap, Snap(m)}
  BY <1>5, <1>7, SaveEffect DEF IInv
<1>9. disk'.snap.status \in {disk.snap.status, mem.status}
  BY <1>5, <1>8 DEF Snap
<1>10. <<"notify", "advance">> \in Moves
  BY DEF Moves
<1>11. QED
  BY <1>1, <1>4, <1>5, <1>6, <1>7, <1>8, <1>9, <1>10, StageStep

\* Finding the ready children logs and tells nothing.
LEMMA AdvanceStep ==
    ASSUME IInv, NEW t \in Tasks, Advance(t)
    PROVE  IInv'
<1> DEFINE c == [stage |-> "dispatch", todo |-> Ready(t)]
           m == [mem EXCEPT !.cont[t] = c]
<1>1. /\ At(t, "advance") /\ SaveStage(m)
      /\ UNCHANGED <<core, acc, busy, open, told, last, stops>>
  BY DEF Advance
<1>2. c \in [stage : Stages, todo : SUBSET Tasks] /\ c.stage = "dispatch"
  BY DEF Ready, Children, Stages
<1> HIDE DEF c
<1>3. /\ m \in Runs /\ m.log = mem.log /\ m.status = mem.status
      /\ m.cont[t].stage = "dispatch" /\ \A u \in Tasks \ {t} : m.cont[u] = mem.cont[u]
  BY <1>2, Typed DEF Runs
<1> HIDE DEF m
<1>4. mem' = m /\ monitor' \in {"handling", "sleeping"}
      /\ \E w : SaveOutcome(w) /\ Save(w, m)
  BY <1>1 DEF SaveStage, Saved
<1>5. /\ disk' \in Disks /\ faults' \in 0..MaxFaults /\ disk'.log = disk.log
      /\ disk'.snap \in {disk.snap, Snap(m)}
  BY <1>3, <1>4, SaveEffect DEF IInv
<1>6. disk'.snap.status \in {disk.snap.status, mem.status}
  BY <1>3, <1>5 DEF Snap
<1>7. <<"advance", "dispatch">> \in Moves
  BY DEF Moves
<1>8. QED
  BY <1>1, <1>3, <1>4, <1>5, <1>6, <1>7, Typed, StageStep

\* Sending a child logs and tells nothing, whichever of its two saves fails.
LEMMA DispatchStep ==
    ASSUME IInv, NEW t \in Tasks, NEW c \in Tasks, Dispatch(t, c)
    PROVE  IInv'
<1> DEFINE queued == [mem EXCEPT !.task[c] = IF @ = "pending" THEN "queued" ELSE @]
           sent == [queued EXCEPT !.cont[t].todo = @ \ {c}]
<1>1. /\ At(t, "dispatch") /\ mem.cont[t].stage = "dispatch"
      /\ UNCHANGED <<core, acc, busy, open, told, last, stops>>
  BY DEF Dispatch, At
<1>2. queued \in Runs /\ queued.log = mem.log /\ queued.status = mem.status
      /\ queued.cont = mem.cont
  BY Typed DEF Runs, TaskStates, Pending
<1> HIDE DEF queued
<1>3. /\ sent \in Runs /\ sent.log = mem.log /\ sent.status = mem.status
      /\ sent.cont[t].stage = mem.cont[t].stage
      /\ \A u \in Tasks \ {t} : sent.cont[u] = mem.cont[u]
  <2> DEFINE e == [mem.cont[t] EXCEPT !.todo = @ \ {c}]
             f == [mem.cont EXCEPT ![t] = e]
  <2>1. mem.cont \in [Tasks -> [stage : Stages, todo : SUBSET Tasks]]
    BY Typed DEF Runs
  <2>2. e \in [stage : Stages, todo : SUBSET Tasks] /\ e.stage = mem.cont[t].stage
    BY <2>1
  <2> HIDE DEF e
  <2>3. /\ f \in [Tasks -> [stage : Stages, todo : SUBSET Tasks]] /\ f[t] = e
        /\ \A u \in Tasks \ {t} : f[u] = mem.cont[u]
    BY <2>1, <2>2
  <2>4. sent = [queued EXCEPT !.cont = f]
    BY <1>2 DEF e
  <2> HIDE DEF f
  <2>5. QED
    BY <1>2, <2>2, <2>3, <2>4 DEF Runs
<1> HIDE DEF sent
<1>4. PICK m \in {queued, sent} :
         /\ mem' = m /\ monitor' \in {"handling", "sleeping"}
         /\ \E w : SaveOutcome(w) /\ Save(w, m)
  BY DEF Dispatch, SaveStage, Saved, queued, sent
<1>5. /\ m \in Runs /\ m.log = mem.log /\ m.status = mem.status
      /\ m.cont[t].stage = "dispatch"
      /\ \A u \in Tasks \ {t} : m.cont[u].stage = mem.cont[u].stage
  BY <1>1, <1>2, <1>3
<1>6. /\ disk' \in Disks /\ faults' \in 0..MaxFaults /\ disk'.log = disk.log
      /\ disk'.snap \in {disk.snap, Snap(m)}
  BY <1>4, <1>5, SaveEffect DEF IInv
<1>7. disk'.snap.status \in {disk.snap.status, mem.status}
  BY <1>5, <1>6 DEF Snap
<1>8. <<"dispatch", "dispatch">> \in Moves
  BY DEF Moves
<1>9. QED
  BY <1>1, <1>4, <1>5, <1>6, <1>7, <1>8, Typed, StageStep

\* The subscribers are told of the end, which WriteEnd has written.
LEMMA TellEndStep ==
    ASSUME IInv, NEW t \in Tasks, TellEnd(t)
    PROVE  IInv'
<1> DEFINE k == Seq1("finish_workflow", NoTask)
           m == Stage(mem, t, "clear")
<1>1. At(t, "tell") /\ mem.cont[t].stage = "tell"
  BY DEF TellEnd, At
<1>2. /\ k \in 1..Len(mem.log) /\ k \in Nat /\ mem.log[k] \in LogEvents
      /\ mem.log[k].type = "finish_workflow"
  BY <1>1, Typed, Seq1Type DEF IInv, Conts, EndOnce, EndThere, HasEnd, EndAt
<1>3. Logged(k, mem.log[k]) \in ToSet(disk.log)
  BY <1>1, <1>2 DEF IInv, Saves, EndSaved, EndAt
<1>4. Tell(k, mem.log[k]) /\ SaveStage(m) /\ UNCHANGED <<core, acc, busy, open, last, stops>>
  BY DEF TellEnd
<1>5. /\ m \in Runs /\ m.log = mem.log /\ m.status = mem.status
      /\ m.cont[t].stage = "clear" /\ \A u \in Tasks \ {t} : m.cont[u] = mem.cont[u]
  BY Typed, StageType DEF Stages
<1> HIDE DEF k, m
<1>6. told' \in Seq(Entries) /\ ToSet(told') \subseteq ToSet(told) \cup ToSet(disk.log)
  BY <1>2, <1>3, <1>4, Typed, TellType, TellSaved
<1>7. mem' = m /\ monitor' \in {"handling", "sleeping"}
      /\ \E w : SaveOutcome(w) /\ Save(w, m)
  BY <1>4 DEF SaveStage, Saved
<1>8. /\ disk' \in Disks /\ faults' \in 0..MaxFaults /\ disk'.log = disk.log
      /\ disk'.snap \in {disk.snap, Snap(m)}
  BY <1>5, <1>7, SaveEffect DEF IInv
<1>9. disk'.snap.status \in {disk.snap.status, mem.status}
  BY <1>5, <1>8 DEF Snap
<1>10. <<"tell", "clear">> \in Moves
  BY DEF Moves
<1>11. QED
  BY <1>1, <1>4, <1>5, <1>6, <1>7, <1>8, <1>9, <1>10, StageStep

\* Clearing the Scheduler logs and tells nothing.
LEMMA ClearStep ==
    ASSUME IInv, NEW t \in Tasks, Clear(t)
    PROVE  IInv'
<1> DEFINE m == Stage(mem, t, "completed")
<1>1. /\ At(t, "clear") /\ SaveStage(m)
      /\ UNCHANGED <<core, acc, busy, open, told, last, stops>>
  BY DEF Clear
<1>2. /\ m \in Runs /\ m.log = mem.log /\ m.status = mem.status
      /\ m.cont[t].stage = "completed" /\ \A u \in Tasks \ {t} : m.cont[u] = mem.cont[u]
  BY Typed, StageType DEF Stages
<1> HIDE DEF m
<1>3. mem' = m /\ monitor' \in {"handling", "sleeping"}
      /\ \E w : SaveOutcome(w) /\ Save(w, m)
  BY <1>1 DEF SaveStage, Saved
<1>4. /\ disk' \in Disks /\ faults' \in 0..MaxFaults /\ disk'.log = disk.log
      /\ disk'.snap \in {disk.snap, Snap(m)}
  BY <1>2, <1>3, SaveEffect DEF IInv
<1>5. disk'.snap.status \in {disk.snap.status, mem.status}
  BY <1>2, <1>4 DEF Snap
<1>6. <<"clear", "completed">> \in Moves
  BY DEF Moves
<1>7. QED
  BY <1>1, <1>2, <1>3, <1>4, <1>5, <1>6, Typed, StageStep

\* The last save of a continuation gives its message up.
LEMMA CompleteStep ==
    ASSUME IInv, NEW t \in Tasks, Complete(t)
    PROVE  IInv'
<1>1. /\ At(t, "completed") /\ mem.cont[t].stage = "completed"
      /\ UNCHANGED <<core, mem, acc, open, told, last, stops>>
  BY DEF Complete, At
<1>2. /\ \E w : SaveOutcome(w) /\ Save(w, mem)
      /\ \/ busy' = busy /\ monitor' = "sleeping"
         \/ busy' = NoMsg /\ monitor' = "idle"
  BY DEF Complete
<1>3. /\ disk' \in Disks /\ faults' \in 0..MaxFaults /\ disk'.log = disk.log
      /\ disk'.snap \in {disk.snap, Snap(mem)}
  BY <1>2, Typed, SaveEffect DEF IInv
<1>4. disk'.snap.status \in {disk.snap.status, mem.status}
  BY <1>3 DEF Snap
<1>5. <<"completed", "completed">> \in Moves
  BY DEF Moves
<1>6. QED
  BY <1>1, <1>2, <1>3, <1>4, <1>5, Typed, StageStep

-------------------------------------------------------------------------------
(* The steps that log an event. *)

\* The elements of a sequence with one more element.
LEMMA EndOfLog ==
    ASSUME NEW S, NEW s \in Seq(S), NEW x \in S
    PROVE  /\ Len(Append(s, x)) = Len(s) + 1 /\ Len(s) \in Nat
           /\ Append(s, x)[Len(s) + 1] = x
           /\ \A i \in 1..Len(s) : Append(s, x)[i] = s[i] /\ i \in 1..Len(s) + 1
           /\ \A i \in 1..Len(s) + 1 : i \in 1..Len(s) \/ i = Len(s) + 1
OBVIOUS

\* While the process runs, the log on disk only grows, by events that interrupt nothing.
LEMMA LogKept ==
    ASSUME IInv, core = "up", NEW x \in Entries, x.event # Interrupt,
           disk'.log \in {disk.log, Append(disk.log, x)}
    PROVE  /\ ToSet(disk.log) \subseteq ToSet(disk'.log)
           /\ ToSet(disk'.log) \subseteq ToSet(disk.log) \cup {x}
           /\ Interrupts'
<1>1. \A i \in 1..Len(disk.log) : disk.log[i].event # Interrupt
  BY DEF IInv, Saves, Interrupts, Interrupted
<1>2. CASE disk'.log = disk.log
  <2>1. Interrupts'
    BY <1>1, <1>2 DEF Interrupts, Interrupted, Interrupt, RunEvent, Event
  <2>2. QED
    BY <1>2, <2>1
<1>3. CASE disk'.log = Append(disk.log, x)
  <2>1. /\ Len(disk'.log) = Len(disk.log) + 1
        /\ disk'.log[Len(disk.log) + 1] = x
        /\ \A i \in 1..Len(disk.log) : disk'.log[i] = disk.log[i]
        /\ \A i \in 1..Len(disk.log) + 1 : i \in 1..Len(disk.log) \/ i = Len(disk.log) + 1
    BY <1>3, Typed, EndOfLog
  <2>2. \A i \in 1..Len(disk'.log) : disk'.log[i].event # Interrupt
    BY <1>1, <2>1
  <2>3. Interrupts'
    BY <2>2 DEF Interrupts, Interrupted, Interrupt, RunEvent, Event
  <2>4. ToSet(disk'.log) = ToSet(disk.log) \cup {x}
    BY <1>3, Typed, ToSetAppend
  <2>5. QED
    BY <2>3, <2>4
<1>4. QED
  BY <1>2, <1>3

\* A stop or a deadline ends the run with an event of its own, whatever becomes
\* of the write.
LEMMA EndingStep ==
    ASSUME IInv, NEW m \in Runs, NEW ev \in LogEvents, NEW w,
           core = "up", core' = core, UNCHANGED <<acc, monitor, busy, last>>,
           ev.type \notin {"finish_task", "finish_workflow"}, ev # Interrupt,
           m.log = Append(mem.log, ev), m.cont = mem.cont,
           m.status = "succeeded" <=> mem.status = "succeeded",
           mem' = m, Outcome(w, Len(m.log), ev), Record(w, m, Len(m.log), ev),
           open' \in BOOLEAN, stops' \in 0..MaxStops,
           told' \in Seq(Entries),
           ToSet(told') \subseteq ToSet(told) \cup {Logged(Len(m.log), ev)},
           w # "done" => told' = told
    PROVE  IInv'
<1> DEFINE n == Len(mem.log)
           x == Logged(Len(m.log), ev)
<1>1. /\ Len(m.log) = n + 1 /\ n \in Nat /\ m.log[n + 1] = ev
      /\ \A i \in 1..n : m.log[i] = mem.log[i] /\ i \in 1..n + 1
      /\ \A i \in 1..n + 1 : i \in 1..n \/ i = n + 1
  BY Typed, EndOfLog
<1>2. /\ disk' \in Disks /\ faults' \in 0..MaxFaults /\ LogGrows'
      /\ disk'.log \in {disk.log, Append(disk.log, x)}
      /\ disk'.snap \in {disk.snap, Snap(m)}
      /\ w = "done" => x \in ToSet(disk'.log)
  BY <1>1, RecordEffect DEF IInv
<1>3. x \in Entries /\ x.event = ev
  BY <1>1 DEF Logged, Entries
<1> HIDE DEF n, x
<1>4. /\ ToSet(disk.log) \subseteq ToSet(disk'.log)
      /\ ToSet(disk'.log) \subseteq ToSet(disk.log) \cup {x}
      /\ Interrupts'
  BY <1>2, <1>3, LogKept DEF IInv, Saves
<1>5. TypeInv'
  BY <1>2 DEF IInv, TypeInv, RunOK, StreamOK, BusyOK, Runs, Disks, Entries
<1>6. HasEnd' = HasEnd /\ \A k : EndAt(k)' = EndAt(k) /\ (EndAt(k) => k \in 1..n)
  BY <1>1 DEF HasEnd, EndAt, n
<1>7. InHand' /\ EndThere'
  BY <1>6 DEF IInv, Conts, InHand, EndThere
<1>8. Accounted'
  <2> SUFFICES ASSUME NEW t \in Tasks, mem'.cont[t].stage # "none"
               PROVE  /\ acc'[t].state = "terminal"
                      /\ \E k \in 1..Len(mem'.log) : mem'.log[k].type = "finish_task"
                                                     /\ mem'.log[k].task = t
    BY DEF Accounted
  <2>1. PICK k \in 1..n : mem.log[k].type = "finish_task" /\ mem.log[k].task = t
    BY DEF IInv, Conts, Accounted, n
  <2>2. acc'[t].state = "terminal"
    BY DEF IInv, Conts, Accounted
  <2>3. QED
    BY <1>1, <2>1, <2>2
<1>9. EndOnce' /\ EndLate'
  <2>1. EndOnce'
    BY <1>1, <1>6 DEF IInv, Conts, EndOnce, n
  <2>2. EndLate'
    BY <1>6 DEF IInv, Conts, EndLate
  <2>3. QED
    BY <2>1, <2>2
<1>10. FinishSaved'
  BY <1>1, <1>4 DEF IInv, Saves, FinishSaved, n
<1>11. EndSaved'
  BY <1>1, <1>4, <1>6 DEF IInv, Saves, EndSaved, n
<1>12. SuccessSaved'
  BY <1>2 DEF IInv, Saves, SuccessSaved, Snap
<1>13. EndKnown'
  BY <1>3, <1>4, <1>6 DEF IInv, Saves, EndKnown
<1>14. Interrupts'
  BY <1>4
<1>15. ToldSaved'
  <2>1. CASE w = "done"
    BY <1>2, <1>4, <2>1 DEF IInv, Saves, ToldSaved, x
  <2>2. CASE w # "done"
    BY <1>4, <2>2 DEF IInv, Saves, ToldSaved
  <2>3. QED
    BY <2>1, <2>2
<1>16. QED
  BY <1>2, <1>5, <1>7, <1>8, <1>9, <1>10, <1>11, <1>12, <1>13, <1>14, <1>15
     DEF IInv, Conts, Saves

\* A deadline ends only a run that has not ended.
LEMMA SweepStep ==
    ASSUME IInv, Sweep
    PROVE  IInv'
<1> DEFINE r == EndPending(mem, "timed_out")
           ev == RunEvent("timeout_workflow")
           m == Log(r, ev)
           k == Len(m.log)
<1>1. r \in Runs /\ r.log = mem.log /\ r.cont = mem.cont /\ r.status = "timed_out"
  BY Typed, EndPendingType DEF Endings
<1>2. ev \in LogEvents /\ ev.type = "timeout_workflow" /\ ev # Interrupt
  BY EventTypes DEF Types, RunEvent, Event, Interrupt
<1> HIDE DEF r, ev
<1>3. /\ m \in Runs /\ m.log = Append(mem.log, ev) /\ m.cont = mem.cont
      /\ m.status = "timed_out"
  BY <1>1, <1>2, LogType DEF Log, Runs
<1>4. k = Len(mem.log) + 1 /\ k \in Nat /\ m.log[k] = ev
  BY <1>2, <1>3, Typed, EndOfLog
<1>5. /\ core = "up" /\ ~Ended(mem) /\ mem' = m
      /\ UNCHANGED <<core, acc, monitor, busy, open, last, stops>>
  BY DEF Sweep, r, ev
<1>6. PICK w \in Failures \cup {"done", "conflict"} :
         /\ Outcome(w, k, m.log[k]) /\ Record(w, m, k, m.log[k])
         /\ IF w = "done" THEN Tell(k, m.log[k]) ELSE told' = told
  BY DEF Sweep, r, ev
<1> HIDE DEF m, k
<1>7. mem.status # "succeeded" /\ m.status # "succeeded"
  BY <1>3, <1>5 DEF Ended, Endings
<1>8. /\ told' \in Seq(Entries) /\ (w # "done" => told' = told)
      /\ ToSet(told') \subseteq ToSet(told) \cup {Logged(k, ev)}
  <2>1. CASE w = "done"
    BY <1>2, <1>4, <1>6, <2>1, Typed, TellType, TellSaved
  <2>2. CASE w # "done"
    BY <1>6, <2>2, Typed
  <2>3. QED
    BY <2>1, <2>2
<1>9. k = Len(m.log) /\ open' \in BOOLEAN /\ stops' \in 0..MaxStops
  BY <1>5, Typed DEF k, IInv, TypeInv, RunOK
<1>10. QED
  BY <1>2, <1>3, <1>4, <1>5, <1>6, <1>7, <1>8, <1>9, EndingStep

\* A stop request leaves the status of a run that has ended.
LEMMA StopStep ==
    ASSUME IInv, StopWorkflow
    PROVE  IInv'
<1> DEFINE r == IF Ended(mem) THEN mem ELSE EndPending(mem, "cancelled")
           ev == RunEvent("cancel_workflow")
           m == Log(r, ev)
           k == Len(m.log)
<1>1. /\ r \in Runs /\ r.log = mem.log /\ r.cont = mem.cont
      /\ r.status = "succeeded" <=> mem.status = "succeeded"
  BY Typed, EndPendingType DEF Endings, Ended
<1>2. ev \in LogEvents /\ ev.type = "cancel_workflow" /\ ev # Interrupt
  BY EventTypes DEF Types, RunEvent, Event, Interrupt
<1> HIDE DEF r, ev
<1>3. /\ m \in Runs /\ m.log = Append(mem.log, ev) /\ m.cont = mem.cont
      /\ m.status = r.status
  BY <1>1, <1>2, LogType DEF Log, Runs
<1>4. k = Len(mem.log) + 1 /\ k \in Nat /\ m.log[k] = ev
  BY <1>2, <1>3, Typed, EndOfLog
<1>5. /\ core = "up" /\ mem' = m /\ open' = FALSE /\ stops < MaxStops /\ stops' = stops + 1
      /\ UNCHANGED <<core, acc, monitor, busy, told, last>>
  BY DEF StopWorkflow, r, ev
<1>6. PICK w \in Failures \cup {"done", "conflict"} :
         Outcome(w, k, m.log[k]) /\ Record(w, m, k, m.log[k])
  BY DEF StopWorkflow, r, ev
<1> HIDE DEF m, k
<1>7. /\ told' \in Seq(Entries) /\ (w # "done" => told' = told)
      /\ ToSet(told') \subseteq ToSet(told) \cup {Logged(k, ev)}
  BY <1>5, Typed
<1>8. k = Len(m.log) /\ open' \in BOOLEAN /\ stops' \in 0..MaxStops
  <2>1. stops \in 0..MaxStops /\ MaxStops \in Nat
    BY Typed, BoundsAssumption
  <2>2. stops' \in 0..MaxStops
    BY <1>5, <2>1
  <2>3. open' \in BOOLEAN
    BY <1>5
  <2>4. QED
    BY <2>2, <2>3 DEF k
<1>9. QED
  BY <1>1, <1>2, <1>3, <1>4, <1>5, <1>6, <1>7, <1>8, EndingStep

\* The transaction: a write that fails leaves memory and subscribers as they were,
\* one that commits has its event on disk.
LEMMA HandleStep ==
    ASSUME IInv, Handle
    PROVE  IInv'
<1> DEFINE t == busy.task
           e == busy.event
           m == Marked(t, e)
           k == Len(m.log)
           ev == m.log[k]
           n == Len(mem.log)
<1>1. /\ core = "up" /\ busy # NoMsg /\ Accepted(t, e) /\ ~Ended(mem)
      /\ UNCHANGED <<core, open, last, stops>>
  BY DEF Handle
<1>2. /\ t \in Tasks /\ e.n \in Nat /\ m \in Runs
      /\ \A u \in Tasks \ {t} : m.cont[u].stage = mem.cont[u].stage
  BY <1>1, MarkedType DEF IInv, TypeInv, BusyOK
<1>3. /\ k = n + 1 /\ k \in Nat /\ n \in Nat /\ ev \in LogEvents
      /\ \A i \in 1..n : m.log[i] = mem.log[i] /\ i \in 1..k
      /\ \A i \in 1..k : i \in 1..n \/ i = k
      /\ k \in 1..k
      /\ \/ ev.type = "finish_task" /\ ev.task = t /\ e.kind = "finish"
            /\ m.cont[t].stage = "notify"
         \/ ev.type \in {"start_task", "task_retry", "task_exception"}
            /\ m.cont[t].stage = mem.cont[t].stage
  <2>1. PICK x \in LogEvents :
           /\ m.log = Append(mem.log, x)
           /\ \/ /\ x.type = "finish_task" /\ x.task = t /\ e.kind = "finish"
                 /\ m.cont[t].stage = "notify"
              \/ /\ x.type \in {"start_task", "task_retry", "task_exception"}
                 /\ m.cont[t].stage = mem.cont[t].stage
    BY <1>1, MarkedType DEF IInv
  <2> HIDE DEF m, t, e
  <2>2. /\ k = n + 1 /\ m.log[k] = x
        /\ \A i \in 1..n : m.log[i] = mem.log[i] /\ i \in 1..k
        /\ \A i \in 1..k : i \in 1..n \/ i = k
    BY <2>1, Typed, EndOfLog
  <2>3. n \in Nat
    BY Typed
  <2>4. QED
    BY <2>1, <2>2, <2>3
<1>4. PICK w \in Failures \cup {"done", "conflict"} :
         /\ Outcome(w, k, ev) /\ Record(w, m, k, ev)
         /\ IF w = "done"
            THEN /\ mem' = m
                 /\ acc' = [acc EXCEPT ![t] = [n |-> e.n, state |-> NewState(e)]]
                 /\ IF ev.type = "finish_task"
                    THEN monitor' = "handling" /\ busy' = busy /\ told' = told
                    ELSE monitor' = "idle" /\ busy' = NoMsg /\ Tell(k, ev)
            ELSE /\ UNCHANGED <<mem, acc, told>>
                 /\ \/ monitor' = "idle" /\ busy' = NoMsg
                    \/ monitor' = "sleeping" /\ busy' = busy
  BY DEF Handle
<1>5. /\ ev.type # "finish_workflow" /\ ev # Interrupt
      /\ Logged(k, ev) \in Entries /\ Logged(k, ev).event = ev
  BY <1>3 DEF Interrupt, RunEvent, Event, Logged, Entries
<1>6. acc[t].state # "terminal"
  BY <1>1 DEF Accepted
<1> HIDE DEF t, e, m, ev
<1>7. /\ disk' \in Disks /\ faults' \in 0..MaxFaults /\ LogGrows'
      /\ disk'.log \in {disk.log, Append(disk.log, Logged(k, ev))}
      /\ disk'.snap \in {disk.snap, Snap(m)}
      /\ w = "done" => Logged(k, ev) \in ToSet(disk'.log) /\ disk'.snap = Snap(m)
  BY <1>2, <1>3, <1>4, RecordEffect DEF IInv
<1> HIDE DEF k
<1>8. /\ ToSet(disk.log) \subseteq ToSet(disk'.log)
      /\ ToSet(disk'.log) \subseteq ToSet(disk.log) \cup {Logged(k, ev)}
      /\ Interrupts'
  BY <1>1, <1>5, <1>7, LogKept
<1>9. mem.cont[t].stage = "none" /\ \A u \in Tasks : mem.cont[u].stage \notin Hands
  <2>1. mem.cont[t].stage = "none"
    BY <1>2, <1>6 DEF IInv, Conts, Accounted
  <2>2. QED
    BY <1>1, <2>1 DEF IInv, Conts, InHand, Hands, t
<1>10. ~HasEnd /\ mem.status # "succeeded"
  BY <1>1 DEF IInv, Conts, EndLate, Ended, Endings
<1>11. CASE w = "done"
  <2>1. mem' = m /\ acc' = [acc EXCEPT ![t] = [n |-> e.n, state |-> NewState(e)]]
        /\ \/ /\ ev.type = "finish_task" /\ monitor' = "handling" /\ busy' = busy
              /\ told' = told
           \/ ev.type # "finish_task" /\ monitor' = "idle" /\ busy' = NoMsg /\ Tell(k, ev)
    BY <1>4, <1>11
  <2>2. told' \in Seq(Entries) /\ ToSet(told') \subseteq ToSet(told) \cup {Logged(k, ev)}
    BY <1>3, <2>1, Typed, TellType, TellSaved
  <2>3. TypeInv'
    <3>1. acc \in [Tasks -> [n : Nat, state : {"none", "running", "retrying", "terminal",
                                               "rejected"}]]
      BY DEF IInv, TypeInv, RunOK
    <3>2. acc' \in [Tasks -> [n : Nat, state : {"none", "running", "retrying", "terminal",
                                                "rejected"}]]
      BY <1>2, <2>1, <3>1 DEF NewState
    <3>3. StreamOK' /\ BusyOK'
      BY <1>1, <2>1 DEF IInv, TypeInv, StreamOK, BusyOK
    <3>4. QED
      BY <1>1, <1>2, <1>7, <2>1, <2>2, <3>2, <3>3
         DEF IInv, TypeInv, RunOK, Runs, Disks, Entries
  <2>4. HasEnd' = FALSE /\ \A j : EndAt(j)' = FALSE
    BY <1>3, <1>5, <1>10, <2>1 DEF HasEnd, EndAt, n, k, ev
  <2>5. InHand'
    BY <1>1, <1>2, <1>3, <1>9, <2>1 DEF InHand, Hands, t
  <2>6. Accounted'
    <3> SUFFICES ASSUME NEW u \in Tasks, mem'.cont[u].stage # "none"
                 PROVE  /\ acc'[u].state = "terminal"
                        /\ \E j \in 1..Len(mem'.log) : mem'.log[j].type = "finish_task"
                                                       /\ mem'.log[j].task = u
      BY DEF Accounted
    <3>1. acc \in [Tasks -> [n : Nat, state : {"none", "running", "retrying", "terminal",
                                               "rejected"}]]
      BY DEF IInv, TypeInv, RunOK
    <3>2. CASE u = t
      <4>1. ev.type = "finish_task" /\ ev.task = t /\ e.kind = "finish"
        BY <1>3, <1>9, <2>1, <3>2
      <4>2. acc'[t].state = "terminal"
        BY <1>2, <2>1, <3>1, <4>1 DEF NewState, PreDispatch
      <4>3. QED
        BY <1>3, <2>1, <3>2, <4>1, <4>2 DEF ev, k
    <3>3. CASE u # t
      <4>1. acc'[u] = acc[u] /\ mem.cont[u].stage # "none"
        BY <1>2, <2>1, <3>1, <3>3
      <4>2. PICK j \in 1..n : mem.log[j].type = "finish_task" /\ mem.log[j].task = u
        BY <4>1 DEF IInv, Conts, Accounted
      <4>3. acc[u].state = "terminal"
        BY <4>1 DEF IInv, Conts, Accounted
      <4>4. QED
        BY <1>3, <2>1, <4>1, <4>2, <4>3 DEF k
    <3>4. QED
      BY <3>2, <3>3
  <2>7. EndOnce' /\ EndLate' /\ EndSaved'
    BY <2>4 DEF EndOnce, EndLate, EndSaved
  <2>8. EndThere'
    BY <1>2, <1>3, <1>9, <1>10, <2>1 DEF IInv, Conts, EndThere
  <2>9. FinishSaved'
    BY <1>3, <1>7, <1>8, <1>11, <2>1 DEF IInv, Saves, FinishSaved, n, k, ev
  <2>10. SuccessSaved'
    BY <1>7, <1>11, <2>1 DEF SuccessSaved, Snap
  <2>11. EndKnown'
    BY <1>5, <1>8, <1>10 DEF IInv, Saves, EndKnown
  <2>12. ToldSaved'
    BY <1>7, <1>8, <1>11, <2>2 DEF IInv, Saves, ToldSaved
  <2>13. QED
    BY <1>7, <1>8, <2>3, <2>5, <2>6, <2>7, <2>8, <2>9, <2>10, <2>11, <2>12
       DEF IInv, Conts, Saves
<1>12. CASE w # "done"
  <2>1. /\ UNCHANGED <<mem, acc, told>>
        /\ \/ monitor' = "idle" /\ busy' = NoMsg
           \/ monitor' = "sleeping" /\ busy' = busy
    BY <1>4, <1>12
  <2>2. TypeInv'
    BY <1>1, <1>7, <2>1 DEF IInv, TypeInv, RunOK, StreamOK, BusyOK, Disks, Entries
  <2>3. HasEnd' = HasEnd /\ \A j : EndAt(j)' = EndAt(j)
    BY <2>1 DEF HasEnd, EndAt
  <2>4. InHand'
    BY <1>1, <1>9, <2>1 DEF InHand
  <2>5. Accounted' /\ EndOnce' /\ EndLate' /\ EndThere'
    BY <1>1, <2>1, <2>3 DEF IInv, Conts, Accounted, EndOnce, EndLate, EndThere
  <2>6. FinishSaved' /\ EndSaved' /\ EndKnown' /\ ToldSaved'
    BY <1>5, <1>8, <2>1, <2>3 DEF IInv, Saves, FinishSaved, EndSaved, EndKnown, ToldSaved
  <2>7. SuccessSaved'
    BY <1>10, <2>1 DEF SuccessSaved
  <2>8. QED
    BY <1>7, <1>8, <2>2, <2>4, <2>5, <2>6, <2>7 DEF IInv, Conts, Saves
<1>13. QED
  BY <1>11, <1>12

\* Only the last continuation of a run that has succeeded makes its end.
LEMMA DispatchDoneStep ==
    ASSUME IInv, NEW t \in Tasks, DispatchDone(t)
    PROVE  IInv'
<1> DEFINE n == Len(mem.log)
           ev == RunEvent("finish_workflow")
           r == Stage(mem, t, "event")
           m == Log(r, ev)
<1>1. /\ At(t, "dispatch") /\ mem.cont[t].stage = "dispatch" /\ monitor' = "handling"
      /\ core = "up" /\ busy # NoMsg /\ busy.task = t
      /\ UNCHANGED <<core, acc, busy, disk, open, told, last, faults, stops>>
  BY DEF DispatchDone, At
<1>2. CASE mem.status # "succeeded"
  <2> DEFINE c == Stage(mem, t, "completed")
  <2>1. /\ c \in Runs /\ c.log = mem.log /\ c.status = mem.status
        /\ c.cont[t].stage = "completed" /\ \A u \in Tasks \ {t} : c.cont[u] = mem.cont[u]
    BY Typed, StageType DEF Stages
  <2>2. mem' = c
    BY <1>2 DEF DispatchDone
  <2> HIDE DEF c
  <2>3. <<"dispatch", "completed">> \in Moves
    BY DEF Moves
  <2>4. QED
    BY <1>1, <2>1, <2>2, <2>3, Typed, StageStep
<1>3. CASE mem.status = "succeeded"
  <2>1. /\ r \in Runs /\ r.log = mem.log /\ r.status = mem.status
        /\ r.cont[t].stage = "event" /\ \A u \in Tasks \ {t} : r.cont[u] = mem.cont[u]
    BY Typed, StageType DEF Stages
  <2>2. ev \in LogEvents /\ ev.type = "finish_workflow" /\ ev.task = NoTask
    BY EventTypes DEF Types, RunEvent, Event
  <2>3. mem' = m
    BY <1>3 DEF DispatchDone
  <2> HIDE DEF r, ev
  <2>4. /\ m \in Runs /\ m.log = Append(mem.log, ev) /\ m.cont = r.cont
        /\ m.status = mem.status
    BY <2>1, <2>2, LogType
  <2> HIDE DEF m
  <2>5. /\ Len(m.log) = n + 1 /\ n \in Nat /\ m.log[n + 1] = ev
        /\ \A i \in 1..n : m.log[i] = mem.log[i] /\ i \in 1..n + 1
        /\ \A i \in 1..n + 1 : i \in 1..n \/ i = n + 1
        /\ n + 1 \in 1..n + 1
    BY <2>2, <2>4, Typed, EndOfLog
  <2>6. ~HasEnd /\ \A u \in Tasks \ {t} : mem.cont[u].stage \notin Hands
    BY <1>1 DEF IInv, Conts, EndLate, InHand, Early
  <2>7. \A j : EndAt(j)' <=> j = n + 1
    BY <2>2, <2>3, <2>5, <2>6 DEF EndAt, HasEnd, n
  <2>8. TypeInv'
    BY <1>1, <2>3, <2>4 DEF IInv, TypeInv, RunOK, StreamOK, BusyOK, Runs, Disks, Entries
  <2>9. InHand'
    BY <1>1, <2>1, <2>3, <2>4, <2>6 DEF InHand, Hands
  <2>10. Accounted'
    <3> SUFFICES ASSUME NEW u \in Tasks, mem'.cont[u].stage # "none"
                 PROVE  /\ acc'[u].state = "terminal"
                        /\ \E j \in 1..Len(mem'.log) : mem'.log[j].type = "finish_task"
                                                       /\ mem'.log[j].task = u
      BY DEF Accounted
    <3>1. mem.cont[u].stage # "none"
      BY <1>1, <2>1, <2>3, <2>4
    <3>2. PICK j \in 1..n : mem.log[j].type = "finish_task" /\ mem.log[j].task = u
      BY <3>1 DEF IInv, Conts, Accounted
    <3>3. acc[u].state = "terminal"
      BY <3>1 DEF IInv, Conts, Accounted
    <3>4. QED
      BY <1>1, <2>3, <2>5, <3>2, <3>3
  <2>11. EndOnce' /\ EndLate' /\ EndThere'
    <3>1. EndOnce'
      BY <2>2, <2>3, <2>5, <2>7 DEF EndOnce
    <3>2. EndThere'
      BY <2>3, <2>5, <2>7 DEF EndThere, HasEnd
    <3>3. EndLate'
      BY <1>3, <2>1, <2>3, <2>4, <2>6 DEF EndLate, Early, Hands
    <3>4. QED
      BY <3>1, <3>2, <3>3
  <2>12. FinishSaved'
    BY <1>1, <2>2, <2>3, <2>5 DEF IInv, Saves, FinishSaved, n
  <2>13. EndSaved'
    BY <1>1, <2>1, <2>3, <2>4, <2>6 DEF EndSaved, Hands
  <2>14. SuccessSaved'
    BY <1>1, <2>3, <2>4 DEF IInv, Saves, SuccessSaved
  <2>15. EndKnown'
    BY <2>3, <2>5, <2>7 DEF EndKnown, HasEnd
  <2>16. LogGrows' /\ Interrupts' /\ ToldSaved'
    BY <1>1 DEF IInv, Saves, LogGrows, Interrupts, Interrupted, ToldSaved
  <2>17. QED
    BY <2>8, <2>9, <2>10, <2>11, <2>12, <2>13, <2>14, <2>15, <2>16 DEF IInv, Conts, Saves
<1>4. QED
  BY <1>2, <1>3

\* The end is told only once its write is done.
LEMMA WriteEndStep ==
    ASSUME IInv, NEW t \in Tasks, WriteEnd(t)
    PROVE  IInv'
<1> DEFINE k == Seq1("finish_workflow", NoTask)
           m == Stage(mem, t, "tell")
<1>1. /\ mem.cont[t].stage = "event" /\ core = "up" /\ busy # NoMsg /\ busy.task = t
      /\ UNCHANGED <<core, acc, open, told, last, stops>>
  BY DEF WriteEnd, At
<1>2. /\ k \in 1..Len(mem.log) /\ k \in Nat /\ mem.log[k] \in LogEvents /\ EndAt(k)
  BY <1>1, Typed, Seq1Type DEF IInv, Conts, EndOnce, EndThere, HasEnd, EndAt
<1>3. PICK w \in Failures \cup {"done", "conflict"} :
         /\ Outcome(w, k, mem.log[k]) /\ Record(w, mem, k, mem.log[k])
         /\ \/ w = "done" /\ mem' = m /\ monitor' = "handling" /\ busy' = busy
            \/ w # "done" /\ mem' = mem /\ monitor' = "idle" /\ busy' = NoMsg
            \/ w # "done" /\ mem' = mem /\ monitor' = "sleeping" /\ busy' = busy
  BY DEF WriteEnd
<1>4. /\ m \in Runs /\ m.log = mem.log /\ m.status = mem.status
      /\ m.cont[t].stage = "tell" /\ \A u \in Tasks \ {t} : m.cont[u] = mem.cont[u]
  BY Typed, StageType DEF Stages
<1> HIDE DEF k, m
<1> DEFINE x == Logged(k, mem.log[k])
<1>5. x \in Entries /\ x.event # Interrupt
  BY <1>2 DEF Logged, Entries, Interrupt, RunEvent, Event, EndAt
<1>6. /\ disk' \in Disks /\ faults' \in 0..MaxFaults /\ LogGrows'
      /\ disk'.log \in {disk.log, Append(disk.log, x)}
      /\ disk'.snap \in {disk.snap, Snap(mem)}
      /\ w = "done" => x \in ToSet(disk'.log)
  BY <1>2, <1>3, Typed, RecordEffect DEF IInv
<1>7. /\ ToSet(disk.log) \subseteq ToSet(disk'.log)
      /\ ToSet(disk'.log) \subseteq ToSet(disk.log) \cup {x}
      /\ Interrupts'
  BY <1>1, <1>5, <1>6, LogKept
<1>8. HasEnd /\ mem.status = "succeeded"
  BY <1>2 DEF IInv, Conts, EndLate, HasEnd
<1>9. /\ mem' \in Runs /\ mem'.log = mem.log /\ mem'.status = mem.status
      /\ \A u \in Tasks : \/ mem'.cont[u].stage = mem.cont[u].stage
                          \/ w = "done" /\ u = t /\ mem'.cont[u].stage = "tell"
  BY <1>3, <1>4, Typed
<1>10. HasEnd' = HasEnd /\ \A j : EndAt(j)' = EndAt(j)
  BY <1>9 DEF HasEnd, EndAt
<1>11. TypeInv'
  BY <1>1, <1>3, <1>6, <1>9 DEF IInv, TypeInv, RunOK, StreamOK, BusyOK, Runs, Disks, Entries
<1>12. InHand'
  <2>1. \A u \in Tasks : mem.cont[u].stage \notin Hands
    BY <1>1 DEF IInv, Conts, InHand, Hands
  <2>2. QED
    BY <1>1, <1>3, <1>9, <2>1 DEF InHand
<1>13. Accounted'
  BY <1>1, <1>9 DEF IInv, Conts, Accounted
<1>14. EndOnce' /\ EndLate' /\ EndThere'
  BY <1>1, <1>8, <1>9, <1>10 DEF IInv, Conts, EndOnce, EndLate, EndThere, Early
<1>15. FinishSaved'
  BY <1>7, <1>9 DEF IInv, Saves, FinishSaved
<1>16. EndSaved'
  <2> SUFFICES ASSUME NEW u \in Tasks, NEW j \in 1..Len(mem.log),
                      mem'.cont[u].stage = "tell", EndAt(j)
               PROVE  Logged(j, mem.log[j]) \in ToSet(disk'.log)
    BY <1>9, <1>10 DEF EndSaved
  <2>1. CASE mem.cont[u].stage = "tell"
    BY <1>7, <2>1 DEF IInv, Saves, EndSaved
  <2>2. CASE w = "done"
    <3>1. j = k
      BY <1>2 DEF IInv, Conts, EndOnce
    <3>2. QED
      BY <1>6, <2>2, <3>1
  <2>3. QED
    BY <1>9, <2>1, <2>2
<1>17. SuccessSaved' /\ EndKnown' /\ ToldSaved'
  BY <1>1, <1>6, <1>7, <1>8, <1>10 DEF IInv, Saves, SuccessSaved, EndKnown, ToldSaved, Snap
<1>18. QED
  BY <1>6, <1>7, <1>11, <1>12, <1>13, <1>14, <1>15, <1>16, <1>17 DEF IInv, Conts, Saves

\* A step that leaves the run, its files and its subscribers alone.
LEMMA QuietStep ==
    ASSUME IInv, TypeInv', InHand', core = "up" \/ core' # "up", UNCHANGED <<mem, acc, disk, told>>
    PROVE  IInv'
<1>1. HasEnd' = HasEnd /\ \A j : EndAt(j)' = EndAt(j)
  BY DEF HasEnd, EndAt
<1>2. LogGrows' /\ Accounted' /\ EndOnce' /\ EndThere'
  BY <1>1 DEF IInv, Conts, LogGrows, Accounted, EndOnce, EndThere
<1>3. FinishSaved' /\ EndSaved' /\ SuccessSaved' /\ EndKnown' /\ ToldSaved'
  BY <1>1 DEF IInv, Saves, FinishSaved, EndSaved, SuccessSaved, EndKnown, ToldSaved
<1>4. EndLate' /\ Interrupts'
  BY <1>1 DEF IInv, Conts, EndLate, Saves, Interrupts, Interrupted
<1>5. QED
  BY <1>2, <1>3, <1>4 DEF IInv, Conts, Saves

\* The message in hand is typed as its stream is.
LEMMA ArriveStep ==
    ASSUME IInv, NEW t \in Tasks, Arrive(t)
    PROVE  IInv'
<1>1. /\ core = "up" /\ monitor = "idle" /\ monitor' = "handling"
      /\ UNCHANGED <<core, mem, acc, disk, open, told, faults, stops>>
  BY DEF Arrive
<1>2. StreamOK' /\ last'[t].kind # "none"
  BY StreamType DEF Arrive, IInv, TypeInv
<1>3. PICK end \in Ends(t, last'[t].kind) :
         busy' = [event |-> last'[t], task |-> t, end |-> end]
  BY DEF Arrive
<1>4. /\ end \in {"succeeded", "failed", "timed_out"}
      /\ end # "succeeded" => last'[t].kind \in {"finish", "exception"}
      /\ last'[t].kind = "exception" => end # "succeeded"
  <2>1. CASE last'[t].kind = "exception"
    BY <2>1 DEF Ends
  <2>2. CASE last'[t].kind = "finish"
    BY <2>2 DEF Ends
  <2>3. CASE last'[t].kind \notin {"exception", "finish"}
    BY <2>3 DEF Ends
  <2>4. QED
    BY <2>1, <2>2, <2>3
<1>5. BusyOK'
  BY <1>2, <1>3, <1>4 DEF BusyOK, StreamOK
<1>6. TypeInv'
  BY <1>1, <1>2, <1>5 DEF IInv, TypeInv, RunOK
<1>7. InHand'
  BY <1>1 DEF IInv, Conts, InHand
<1>8. QED
  BY <1>1, <1>6, <1>7, QuietStep

\* A message is dropped only while no continuation is at work.
LEMMA DropStep ==
    ASSUME IInv, Drop
    PROVE  IInv'
<1>1. /\ core = "up" /\ mem.cont[busy.task].stage = "none" /\ busy # NoMsg
      /\ busy' = NoMsg /\ monitor' = "idle"
      /\ UNCHANGED <<core, mem, acc, disk, open, told, last, faults, stops>>
  BY DEF Drop
<1>2. TypeInv'
  BY <1>1 DEF IInv, TypeInv, RunOK, StreamOK, BusyOK
<1>3. InHand'
  BY <1>1 DEF IInv, Conts, InHand, Hands
<1>4. QED
  BY <1>1, <1>2, <1>3, QuietStep

\* A crash forgets the message in hand.
LEMMA CrashStep ==
    ASSUME IInv, Crash
    PROVE  IInv'
<1>1. /\ core = "up" /\ core' = "down" /\ monitor' = "idle" /\ busy' = NoMsg /\ open' = FALSE
      /\ UNCHANGED <<mem, acc, disk, told, last, faults, stops>>
  BY DEF Crash
<1>2. TypeInv'
  BY <1>1 DEF IInv, TypeInv, RunOK, StreamOK, BusyOK
<1>3. InHand'
  BY <1>1 DEF InHand
<1>4. QED
  BY <1>1, <1>2, <1>3, QuietStep

\* The end of recovery changes no file.
LEMMA RecoveredStep ==
    ASSUME IInv, Recovered
    PROVE  IInv'
<1>1. /\ core' = "recovered"
      /\ UNCHANGED <<mem, acc, monitor, busy, disk, open, told, last, faults, stops>>
  BY DEF Recovered
<1>2. TypeInv'
  BY <1>1 DEF IInv, TypeInv, RunOK, StreamOK, BusyOK
<1>3. InHand'
  BY <1>1 DEF InHand
<1>4. QED
  BY <1>1, <1>2, <1>3, QuietStep

\* Recovery interrupts a run that is still active on disk: it cannot have logged
\* its end, and was not interrupted before.
LEMMA RecoverLogStep ==
    ASSUME IInv, RecoverLog
    PROVE  IInv'
<1> DEFINE x == Logged(LastSeq + 1, Interrupt)
           n == Len(disk.log)
<1>1. /\ core = "down" /\ disk.snap.status \in Active /\ ~Interrupted
      /\ disk' = [disk EXCEPT !.log = Append(@, x)]
      /\ UNCHANGED <<core, mem, acc, monitor, busy, open, told, last, faults, stops>>
  BY DEF RecoverLog
<1>2. x \in Entries /\ x.event = Interrupt /\ x.seq > LastSeq
      /\ Interrupt.type = "interrupt_workflow"
  BY Typed, LastSeqType, EventTypes DEF Logged, Entries, Interrupt, Types, RunEvent, Event
<1> HIDE DEF x
<1>3. disk' \in Disks /\ disk'.log = Append(disk.log, x) /\ disk'.snap = disk.snap
  <2>1. Append(disk.log, x) \in Seq(Entries)
    BY <1>2, Typed
  <2>2. QED
    BY <1>1, <2>1, Typed DEF Disks
<1>4. LogGrows'
  BY <1>2, <1>3, Typed, AppendGrows DEF IInv
<1>5. ToSet(disk'.log) = ToSet(disk.log) \cup {x}
  BY <1>2, <1>3, Typed, ToSetAppend
<1>6. TypeInv'
  BY <1>1, <1>3 DEF IInv, TypeInv, RunOK, StreamOK, BusyOK, Disks, Entries
<1>7. HasEnd' = HasEnd /\ \A j : EndAt(j)' = EndAt(j)
  BY <1>1 DEF HasEnd, EndAt
<1>8. ~HasEnd
  BY <1>1 DEF IInv, Conts, EndLate, Saves, SuccessSaved, Active
<1>9. InHand' /\ Accounted' /\ EndOnce' /\ EndLate' /\ EndThere'
  BY <1>1, <1>7, <1>8 DEF IInv, Conts, InHand, Accounted, EndOnce, EndLate, EndThere
<1>10. FinishSaved' /\ EndSaved' /\ ToldSaved'
  BY <1>1, <1>5, <1>7 DEF IInv, Saves, FinishSaved, EndSaved, ToldSaved
<1>11. SuccessSaved'
  BY <1>1, <1>3 DEF IInv, Saves, SuccessSaved
<1>12. EndKnown'
  BY <1>2, <1>5, <1>7 DEF IInv, Saves, EndKnown
<1>13. Interrupts'
  <2>1. /\ Len(disk'.log) = n + 1 /\ n \in Nat /\ disk'.log[n + 1] = x
        /\ \A i \in 1..n : disk'.log[i] = disk.log[i]
        /\ \A i \in 1..n + 1 : i \in 1..n \/ i = n + 1
    BY <1>2, <1>3, Typed, EndOfLog
  <2>2. \A i \in 1..n : disk.log[i].event # Interrupt
    BY <1>1 DEF Interrupted
  <2>3. \A i \in 1..n : disk.log[i].event # RunEvent("finish_workflow")
    <3> SUFFICES ASSUME NEW i \in 1..n, disk.log[i].event = RunEvent("finish_workflow")
                 PROVE  FALSE
      OBVIOUS
    <3>1. disk.log[i] \in ToSet(disk.log) /\ disk.log[i].event.type = "finish_workflow"
      BY Typed DEF ToSet, RunEvent, Event
    <3>2. QED
      BY <1>8, <3>1 DEF IInv, Saves, EndKnown
  <2>4. Interrupt' = Interrupt /\ RunEvent("finish_workflow")' = RunEvent("finish_workflow")
    BY DEF Interrupt, RunEvent, Event
  <2>5. Interrupt # RunEvent("finish_workflow")
    BY DEF Interrupt, RunEvent, Event
  <2>6. \A i \in 1..n + 1 : disk'.log[i].event = Interrupt => i = n + 1
    BY <2>1, <2>2
  <2>7. \A j \in 1..n : disk'.log[j].event \notin {Interrupt, RunEvent("finish_workflow")}
    BY <2>1, <2>2, <2>3
  <2>8. QED
    BY <1>1, <2>1, <2>6, <2>7 DEF Interrupts
<1>14. QED
  BY <1>4, <1>6, <1>9, <1>10, <1>11, <1>12, <1>13 DEF IInv, Conts, Saves

\* Recovery never overwrites a success.
LEMMA RecoverSaveStep ==
    ASSUME IInv, RecoverSave
    PROVE  IInv'
<1> DEFINE tasks == [t \in Tasks |-> IF disk.snap.task[t] \in Pending THEN "cancelled"
                                     ELSE disk.snap.task[t]]
<1>1. /\ core = "down" /\ disk.snap.status \in Active
      /\ disk' = [disk EXCEPT !.snap.status = "interrupted", !.snap.task = tasks]
      /\ UNCHANGED <<core, mem, acc, monitor, busy, open, told, last, faults, stops>>
  BY DEF RecoverSave
<1>2. tasks \in TaskStates
  BY Typed DEF Disks, TaskStates, Endings
<1> HIDE DEF tasks
<1> DEFINE d == [disk EXCEPT !.snap.status = "interrupted"]
<1>3. d \in Disks /\ d.log = disk.log
  BY Typed DEF Disks, Statuses, Endings
<1>4. disk' \in Disks /\ disk'.log = disk.log
  <2>1. disk' = [d EXCEPT !.snap.task = tasks]
    BY <1>1
  <2> HIDE DEF d
  <2>2. QED
    BY <1>2, <1>3, <2>1 DEF Disks
<1>5. TypeInv'
  BY <1>1, <1>4 DEF IInv, TypeInv, RunOK, StreamOK, BusyOK, Disks, Entries
<1>6. HasEnd' = HasEnd /\ \A j : EndAt(j)' = EndAt(j)
  BY <1>1 DEF HasEnd, EndAt
<1>7. LogGrows' /\ InHand' /\ Accounted' /\ EndOnce' /\ EndLate' /\ EndThere'
  BY <1>1, <1>4, <1>6 DEF IInv, Conts, LogGrows, InHand, Accounted, EndOnce, EndLate, EndThere
<1>8. FinishSaved' /\ EndSaved' /\ EndKnown' /\ Interrupts' /\ ToldSaved'
  BY <1>1, <1>4, <1>6
     DEF IInv, Saves, FinishSaved, EndSaved, EndKnown, Interrupts, Interrupted, ToldSaved
<1>9. SuccessSaved'
  BY <1>1 DEF IInv, Saves, SuccessSaved, Active
<1>10. QED
  BY <1>5, <1>7, <1>8, <1>9 DEF IInv, Conts, Saves

-------------------------------------------------------------------------------
(* The theorems. *)

\* The activated run meets the invariant.
LEMMA InitInv == Init => IInv
<1> SUFFICES ASSUME Init
             PROVE  IInv
  OBVIOUS
<1> DEFINE first == RunEvent("start_workflow")
           x == Logged(1, first)
<1>1. /\ first \in LogEvents /\ first.type = "start_workflow" /\ x \in Entries
      /\ x.event = first /\ first # Interrupt /\ first # RunEvent("finish_workflow")
  BY EventTypes DEF Types, RunEvent, Event, Logged, Entries, Interrupt
<1>2. /\ core = "up" /\ monitor = "idle" /\ busy = NoMsg /\ open = TRUE
      /\ mem = [status |-> "created", log |-> <<first>>,
                task |-> [t \in Tasks |-> IF t \in Roots THEN "queued" ELSE "pending"],
                cont |-> [t \in Tasks |-> [stage |-> "none", todo |-> {}]]]
      /\ acc = [t \in Tasks |-> [n |-> 0, state |-> "none"]]
      /\ disk = [log |-> <<x>>, snap |-> Snap(mem)]
      /\ told = <<>> /\ faults = 0 /\ stops = 0
      /\ last = [t \in Tasks |-> [kind |-> "none", n |-> 0, known |-> TRUE]]
  BY DEF Init, Stream!Init
<1> HIDE DEF first, x
<1>3. mem \in Runs /\ mem.log = <<first>> /\ mem.status = "created"
      /\ \A t \in Tasks : mem.cont[t].stage = "none"
  <2>1. [t \in Tasks |-> IF t \in Roots THEN "queued" ELSE "pending"] \in TaskStates
    BY DEF TaskStates, Pending
  <2>2. [t \in Tasks |-> [stage |-> "none", todo |-> {}]]
           \in [Tasks -> [stage : Stages, todo : SUBSET Tasks]]
    BY DEF Stages
  <2>3. <<first>> \in Seq(LogEvents)
    BY <1>1
  <2>4. QED
    BY <1>2, <2>1, <2>2, <2>3 DEF Runs, Statuses, Active
<1>4. disk \in Disks /\ disk.log = <<x>>
  BY <1>1, <1>2, <1>3 DEF Disks, Runs, Snap
<1>5. TypeInv
  <2>1. StreamOK
    BY <1>2 DEF StreamOK, Kinds
  <2>2. BusyOK
    BY <1>2 DEF BusyOK
  <2>3. RunOK
    BY <1>2, <1>3, <1>4, BoundsAssumption DEF RunOK, Runs, Disks, Entries
  <2>4. QED
    BY <2>1, <2>2, <2>3 DEF TypeInv
<1>6. LogGrows
  BY <1>4 DEF LogGrows
<1>7. \A k : ~EndAt(k)
  BY <1>1, <1>3 DEF EndAt
<1>8. Conts
  BY <1>2, <1>3, <1>7
     DEF Conts, InHand, Accounted, EndOnce, EndLate, EndThere, HasEnd, Hands
<1>9. FinishSaved /\ EndSaved /\ SuccessSaved
  BY <1>1, <1>3 DEF FinishSaved, EndSaved, SuccessSaved
<1>10. EndKnown
  BY <1>1, <1>4 DEF EndKnown, ToSet
<1>11. Interrupts
  BY <1>1, <1>4 DEF Interrupts, Interrupted
<1>12. ToldSaved
  BY <1>2 DEF ToldSaved, ToSet
<1>13. QED
  BY <1>5, <1>6, <1>8, <1>9, <1>10, <1>11, <1>12 DEF IInv, Saves

\* Every step preserves the invariant.
LEMMA NextInv == IInv /\ [Next]_vars => IInv'
<1> SUFFICES ASSUME IInv, [Next]_vars
             PROVE  IInv'
  OBVIOUS
<1>1. CASE Monitor
  <2>1. CASE Drop
    BY <2>1, DropStep
  <2>2. CASE Handle
    BY <2>2, HandleStep
  <2>3. ASSUME NEW t \in Tasks,
               \/ Notify(t) \/ Advance(t) \/ DispatchDone(t) \/ WriteEnd(t)
               \/ TellEnd(t) \/ Clear(t) \/ Complete(t)
        PROVE  IInv'
    BY <2>3, NotifyStep, AdvanceStep, DispatchDoneStep, WriteEndStep, TellEndStep, ClearStep,
       CompleteStep
  <2>4. ASSUME NEW t \in Tasks, NEW c \in Tasks, Dispatch(t, c)
        PROVE  IInv'
    BY <2>4, DispatchStep
  <2>5. QED
    BY <1>1, <2>1, <2>2, <2>3, <2>4 DEF Monitor
<1>2. CASE Sweep
  BY <1>2, SweepStep
<1>3. CASE StopWorkflow
  BY <1>3, StopStep
<1>4. CASE Crash
  BY <1>4, CrashStep
<1>5. CASE RecoverLog
  BY <1>5, RecoverLogStep
<1>6. CASE RecoverSave
  BY <1>6, RecoverSaveStep
<1>7. CASE Recovered
  BY <1>7, RecoveredStep
<1>8. ASSUME NEW t \in Tasks, Arrive(t)
      PROVE  IInv'
  BY <1>8, ArriveStep
<1>9. CASE UNCHANGED vars
  <2>1. TypeInv' /\ InHand'
    BY <1>9 DEF vars, IInv, TypeInv, RunOK, StreamOK, BusyOK, Conts, InHand
  <2>2. QED
    BY <1>9, <2>1, QuietStep DEF vars
<1>10. QED
  BY <1>1, <1>2, <1>3, <1>4, <1>5, <1>6, <1>7, <1>8, <1>9 DEF Next

\* The inductive invariant holds throughout.
THEOREM Invariance == Spec => []IInv
<1>1. QED
  BY InitInv, NextInv, PTL DEF Spec

\* The roots in some order: each once, and nothing else.
LEMMA RootsInOrder ==
    LET s == SetToSeq(Roots)
    IN  s \in Seq(Tasks) /\ ToSet(s) = Roots /\ IsInjective(s)
<1> DEFINE n == Cardinality(Roots)
           Good(f) == f \in [1..n -> Roots] /\ IsInjective(f)
<1>1. IsFiniteSet(Roots) /\ n \in Nat
  BY GraphAssumption, FS_Subset, FS_CardinalityType DEF Roots
<1>2. PICK b \in Bijection(1..n, Roots) : TRUE
  BY <1>1, FS_CardinalityType DEF ExistsBijection
<1>3. Good(b)
  BY <1>2 DEF Bijection, Injection, IsInjective
<1>4. SetToSeq(Roots) = CHOOSE f \in [1..n -> Roots] : IsInjective(f)
  BY DEF SetToSeq
<1>5. PICK s \in [1..n -> Roots] : s = SetToSeq(Roots) /\ IsInjective(s)
  BY <1>3, <1>4
<1>6. s \in Injection(1..n, Roots)
  BY <1>5 DEF Injection, IsInjective
<1>7. Cardinality(1..n) = n /\ IsFiniteSet(1..n)
  BY <1>1, FS_Interval
<1>8. s \in Surjection(1..n, Roots)
  BY <1>1, <1>6, <1>7, FS_Injection
<1>9. Roots \subseteq Tasks
  BY DEF Roots
<1>10. s \in Seq(Tasks) /\ DOMAIN s = 1..n
  BY <1>1, <1>5, <1>9
<1>11. ToSet(s) = Roots
  BY <1>5, <1>8 DEF Surjection, ToSet
<1>12. QED
  BY <1>5, <1>10, <1>11

\* The Scheduler is sent tasks of the run, and orders to clear or to stop it.
LEMMA SentType ==
    /\ Init => SentOK
    /\ SentOK /\ [Next]_vars => SentOK'
<1>1. Init => SentOK
  BY RootsInOrder DEF Init, SentOK
<1>2. ASSUME SentOK, Next
      PROVE  SentOK'
  <2>1. CASE Monitor
    <3>1. CASE Drop
      BY <1>2, <3>1 DEF SentOK, Drop
    <3>2. CASE Handle
      <4>1. dispatched' = dispatched /\ orders' \in {orders, orders \cup {"clear_workflow"}}
        BY <3>2 DEF Handle
      <4>2. QED
        BY <1>2, <4>1 DEF SentOK
    <3>3. ASSUME NEW t \in Tasks, Notify(t) \/ Advance(t) \/ DispatchDone(t) \/ WriteEnd(t)
                                  \/ TellEnd(t) \/ Complete(t)
          PROVE  SentOK'
      BY <1>2, <3>3 DEF SentOK, Notify, Advance, DispatchDone, WriteEnd, TellEnd, Complete
    <3>4. ASSUME NEW t \in Tasks, Clear(t)
          PROVE  SentOK'
      BY <1>2, <3>4 DEF SentOK, Clear
    <3>5. ASSUME NEW t \in Tasks, NEW c \in Tasks, Dispatch(t, c)
          PROVE  SentOK'
      <4>1. orders' = orders /\ dispatched' \in {dispatched, Append(dispatched, c)}
        BY <3>5 DEF Dispatch
      <4>2. QED
        BY <1>2, <4>1 DEF SentOK
    <3>6. QED
      BY <2>1, <3>1, <3>2, <3>3, <3>4, <3>5 DEF Monitor
  <2>2. CASE Sweep \/ StopWorkflow
    BY <1>2, <2>2 DEF SentOK, Sweep, StopWorkflow
  <2>3. CASE Crash \/ RecoverLog \/ RecoverSave \/ Recovered \/ \E t \in Tasks : Arrive(t)
    BY <1>2, <2>3 DEF SentOK, Crash, RecoverLog, RecoverSave, Recovered, Arrive
  <2>4. QED
    BY <1>2, <2>1, <2>2, <2>3 DEF Next
<1>3. SentOK /\ UNCHANGED vars => SentOK'
  BY DEF SentOK, vars
<1>4. QED
  BY <1>1, <1>2, <1>3

\* Every variable keeps its type, whatever fails, stops or crashes.
THEOREM TypeCorrect == Spec => []TypeOK
<1>1. IInv /\ SentOK => TypeOK
  BY DEF IInv, TypeInv, RunOK, SentOK, TypeOK
<1>2. Spec => []SentOK
  BY SentType, PTL DEF Spec
<1>3. QED
  BY <1>1, <1>2, Invariance, PTL

\* _record_static_event and the rollback of the transaction: a subscriber is told
\* nothing that events.jsonl does not have under the same number.
THEOREM ToldStaysDurable == Spec => []ToldIsDurable
<1>1. IInv => ToldIsDurable
  <2> SUFFICES ASSUME IInv, NEW i \in 1..Len(told)
               PROVE  told[i] \in ToSet(disk.log)
    BY DEF ToldIsDurable
  <2>1. told[i] \in ToSet(told)
    BY Typed DEF ToSet
  <2>2. QED
    BY <2>1 DEF IInv, Saves, ToldSaved
<1>2. QED
  BY <1>1, Invariance, PTL

\* append_event_once and recover_interrupted_runs: the numbers on disk grow, a run
\* is interrupted once, and not after it announced its success.
THEOREM LogAlwaysLoads == Spec => []LogLoads
<1>1. IInv => LogLoads
  BY DEF IInv, LogGrows, Saves, Interrupts, LogLoads
<1>2. QED
  BY <1>1, Invariance, PTL

-------------------------------------------------------------------------------
(***************************************************************************)
(* The record of the run: what the subscribers were told agrees with       *)
(* run.json, every task is dispatched once and in time, no event of the    *)
(* Scheduler is missed, and the record is the one that RunLifecycle        *)
(* promises.  These theorems rest on IInv and on JInv below, which relates *)
(* the run in memory to the messages received, to the files, and to the    *)
(* messages sent.                                                          *)
(***************************************************************************)

Sent(c) == c \in ToSet(dispatched)
Going   == core = "up" /\ ~Ended(mem)
Done(t) == mem.task[t] = "succeeded"

-------------------------------------------------------------------------------
(* What has been received. *)

\* The message in hand is the last of its stream, and about a task that was sent.
InTurn ==
    /\ \A t \in Tasks : last[t].kind \in {"start", "retry"} => last[t].n >= 1
    /\ busy # NoMsg => Sent(busy.task) /\ last[busy.task] = busy.event

\* The task is as the last event of its stream says.
Seen(t) ==
    CASE last[t].kind = "none"      -> acc[t].state = "none" /\ mem.task[t] \in {"pending", "queued"}
      [] last[t].kind = "start"     -> /\ acc[t].state = "running" /\ acc[t].n = last[t].n
                                       /\ mem.task[t] = "running"
      [] last[t].kind = "retry"     -> /\ acc[t].state = "retrying" /\ acc[t].n = last[t].n
                                       /\ mem.task[t] = "queued"
      [] last[t].kind = "finish"    -> Done(t)
      [] last[t].kind = "exception" -> ~last[t].known

InWork(t) == busy # NoMsg /\ busy.task = t /\ mem.cont[t].stage = "none"

\* The message in hand is about to be accepted, unless it names no attempt.
Welcome(t) == IF last[t].known THEN Accepted(t, last[t]) ELSE last[t].kind = "exception"

Caught == Going => \A t \in Tasks : IF InWork(t) THEN Welcome(t) ELSE Seen(t)

-------------------------------------------------------------------------------
(* What is on disk. *)

\* As much as in memory, or, after a failed write, the event that the monitor
\* will write again.
Even  == /\ LastSeq <= Len(mem.log) /\ disk.snap.status = mem.status
         /\ \A t \in FinishedOnDisk : Done(t)
Ahead ==
    LET m == Marked(busy.task, busy.event)
        k == Len(m.log)
    IN  /\ busy # NoMsg /\ monitor = "sleeping" /\ InWork(busy.task)
        /\ Accepted(busy.task, busy.event)
        /\ LastSeq = k /\ OnDisk(k, m.log[k])
        /\ disk.snap.status \in {mem.status, m.status}
        /\ \A t \in FinishedOnDisk : m.task[t] = "succeeded"
Level == Going => Even \/ Ahead

\* A task that has succeeded has a continuation, and is known on disk.
Succeeded ==
    \A t \in Tasks : /\ Done(t) <=> mem.cont[t].stage # "none"
                     /\ Done(t) => disk.snap.task[t] = "succeeded"
AllDone == mem.status = "succeeded" => \A t \in Tasks : Done(t)

\* What was told is so in memory, and the end that was told is on disk.
ToldKnown ==
    \A x \in ToSet(told) :
       /\ x.event.type = "finish_task" => x.event.task \in Tasks /\ Done(x.event.task)
       /\ x.event.type = "task_exception" => mem.status \in {"failed", "timed_out"}
       /\ x.event.type = "timeout_workflow" => mem.status = "timed_out"
EndKept == EndTold => disk.snap.status = mem.status

-------------------------------------------------------------------------------
(* What is sent. *)

Opened == Going => open

\* Tasks are sent once, after their parents' continuations have come to that,
\* and each by one of them.
Due(c) == \A p \in Parents[c] : Completed(p)
Held(t, c) == mem.cont[t].stage = "dispatch" /\ c \in mem.cont[t].todo
Once   == IsInjective(dispatched)
InTime == /\ \A c \in Tasks : Sent(c) => Due(c)
          /\ \A c \in Tasks : Due(c) => Sent(c) \/ \E p \in Parents[c] : Held(p, c)
          /\ \A t, c \in Tasks : Held(t, c) => t \in Parents[c] /\ ~Sent(c) /\ Due(c)

\* The end of a run that has succeeded is on its way.
TheEnd  == RunEvent("finish_workflow")
ToldEnd == \E x \in ToSet(told) : x.event = TheEnd
Closing ==
    core = "up" /\ open /\ mem.status = "succeeded" =>
       /\ LastSeq <= Len(mem.log)
       /\ \A t \in Tasks, k \in 1..Len(mem.log) :
             mem.cont[t].stage = "event" /\ EndAt(k) => LastSeq < k \/ OnDisk(k, mem.log[k])
       /\ \/ ToldEnd /\ "clear_workflow" \in orders
          \/ /\ busy # NoMsg
             /\ \/ mem.cont[busy.task].stage \in Early \cup {"event", "tell"}
                \/ mem.cont[busy.task].stage = "clear" /\ ToldEnd
EndShape == \A k \in 1..Len(mem.log) : EndAt(k) => mem.log[k] = TheEnd

Inward  == InTurn /\ Caught
OnFile  == Level /\ Succeeded /\ AllDone /\ ToldKnown /\ EndKept
Outward == Opened /\ Once /\ InTime /\ Closing /\ EndShape
JInv == Inward /\ OnFile /\ Outward

-------------------------------------------------------------------------------
(* What the steps do to the log, and what is told. *)

\* What is on disk of the finished tasks, and what was told, by their events.
LEMMA ByEvents ==
    ASSUME IInv
    PROVE  /\ \A t : t \in FinishedOnDisk <=>
                     t \in Tasks /\ \E x \in ToSet(disk.log) : /\ x.event.type = "finish_task"
                                                              /\ x.event.task = t
           /\ EndTold <=> \E x \in ToSet(told) : x.event.type \in
                             {"task_exception", "finish_workflow", "timeout_workflow"}
           /\ \A k, ev : OnDisk(k, ev) <=> Logged(k, ev) \in ToSet(disk.log)
<1>1. DOMAIN disk.log = 1..Len(disk.log) /\ DOMAIN told = 1..Len(told)
  BY Typed
<1>2. ToSet(disk.log) = {disk.log[i] : i \in 1..Len(disk.log)}
      /\ ToSet(told) = {told[i] : i \in 1..Len(told)}
  BY <1>1 DEF ToSet
<1>3. \A t : t \in FinishedOnDisk <=>
              t \in Tasks /\ \E x \in ToSet(disk.log) : /\ x.event.type = "finish_task"
                                                       /\ x.event.task = t
  BY <1>2 DEF FinishedOnDisk
<1>4. EndTold <=> \E x \in ToSet(told) : x.event.type \in
                             {"task_exception", "finish_workflow", "timeout_workflow"}
  BY <1>2 DEF EndTold
<1>5. \A k, ev : OnDisk(k, ev) <=> Logged(k, ev) \in ToSet(disk.log)
  BY <1>2 DEF OnDisk
<1>6. QED
  BY <1>3, <1>4, <1>5

\* The same after a step, and the end that was told then.
LEMMA ByEventsNext ==
    ASSUME IInv'
    PROVE  /\ \A t : t \in FinishedOnDisk' <=>
                     t \in Tasks /\ \E x \in ToSet(disk'.log) : /\ x.event.type = "finish_task"
                                                               /\ x.event.task = t
           /\ EndTold' <=> \E x \in ToSet(told') : x.event.type \in
                              {"task_exception", "finish_workflow", "timeout_workflow"}
           /\ \A x \in ToSet(told') : x.event.type = "finish_workflow" =>
                 mem'.status = "succeeded" /\ disk'.snap.status = "succeeded"
<1>1. disk'.log \in Seq(Entries) /\ told' \in Seq(Entries)
  BY DEF IInv, TypeInv, RunOK, Entries
<1>2. ToSet(disk'.log) = {disk'.log[i] : i \in 1..Len(disk'.log)}
      /\ ToSet(told') = {told'[i] : i \in 1..Len(told')}
  BY <1>1 DEF ToSet
<1>3. \A t : t \in FinishedOnDisk' <=>
              t \in Tasks /\ \E x \in ToSet(disk'.log) : /\ x.event.type = "finish_task"
                                                        /\ x.event.task = t
  BY <1>2 DEF FinishedOnDisk
<1>4. EndTold' <=> \E x \in ToSet(told') : x.event.type \in
                              {"task_exception", "finish_workflow", "timeout_workflow"}
  BY <1>2 DEF EndTold
<1>5. \A x \in ToSet(told') : x.event.type = "finish_workflow" =>
         mem'.status = "succeeded" /\ disk'.snap.status = "succeeded"
  BY DEF IInv, Saves, ToldSaved, EndKnown, Conts, EndLate, SuccessSaved
<1>6. QED
  BY <1>3, <1>4, <1>5

\* The last number is the highest.
LEMMA LastIsMax ==
    ASSUME IInv
    PROVE  LastSeq \in Nat /\ \A x \in ToSet(disk.log) : x.seq <= LastSeq
<1> DEFINE n == Len(disk.log)
<1>1. disk.log \in Seq(Entries) /\ n \in Nat /\ DOMAIN disk.log = 1..n
  BY Typed
<1>2. LastSeq \in Nat
  BY Typed, LastSeqType
<1>3. SUFFICES ASSUME NEW i \in 1..n
               PROVE  disk.log[i].seq <= LastSeq
  BY <1>1, <1>2 DEF ToSet
<1>4. n \in 1..n /\ disk.log # <<>> /\ LastSeq = disk.log[n].seq
  BY <1>1 DEF LastSeq
<1>5. i = n \/ i < n
  BY <1>1
<1>6. i < n => disk.log[i].seq < disk.log[n].seq
  BY <1>4 DEF IInv, LogGrows
<1>7. disk.log[i].seq \in Nat /\ disk.log[n].seq \in Nat
  <2>1. disk.log[i] \in Entries /\ disk.log[n] \in Entries
    BY <1>1, <1>4
  <2>2. QED
    BY <2>1 DEF Entries
<1>8. QED
  BY <1>4, <1>5, <1>6, <1>7

\* What a write does to the log and to the snapshot, more closely.
LEMMA RecordMore ==
    ASSUME IInv, NEW m, NEW ev \in LogEvents, NEW k \in Nat, NEW w,
           Outcome(w, k, ev), Record(w, m, k, ev)
    PROVE  /\ \/ /\ disk'.log = disk.log /\ LastSeq' = LastSeq
              \/ /\ disk'.log = Append(disk.log, Logged(k, ev)) /\ LastSeq' = k
                 /\ k > LastSeq
           /\ \/ disk'.snap = disk.snap /\ w # "done"
              \/ disk'.snap = Snap(m) /\ Logged(k, ev) \in ToSet(disk'.log)
<1>1. /\ disk'.log = IF w \in {"done", "event", "all"} /\ ~OnDisk(k, ev)
                     THEN Append(disk.log, Logged(k, ev)) ELSE disk.log
      /\ disk'.snap = IF w \in {"done", "all"} THEN Snap(m) ELSE disk.snap
  BY DEF Record
<1>2. Logged(k, ev) \in Entries /\ Logged(k, ev).seq = k
  BY DEF Logged, Entries
<1>3. disk.log \in Seq(Entries) /\ Len(disk.log) \in Nat
  BY Typed
<1>4. CASE disk'.log = disk.log /\ ~(w \in {"done", "event", "all"} /\ ~OnDisk(k, ev))
  <2>1. LastSeq' = LastSeq
    BY <1>4 DEF LastSeq
  <2>2. w \in {"done", "all"} => Logged(k, ev) \in ToSet(disk'.log)
    BY <1>4, ByEvents
  <2>3. QED
    BY <1>1, <1>4, <2>1, <2>2
<1>5. CASE /\ disk'.log = Append(disk.log, Logged(k, ev)) /\ ~OnDisk(k, ev)
           /\ w \in {"done", "event", "all"}
  <2>1. Logged(k, ev) \in ToSet(disk'.log)
    BY <1>2, <1>3, <1>5, ToSetAppend
  <2>2. LastSeq' = k
    <3>1. /\ Len(disk'.log) = Len(disk.log) + 1
          /\ disk'.log[Len(disk.log) + 1] = Logged(k, ev)
      BY <1>2, <1>3, <1>5, EndOfLog
    <3>2. disk'.log # <<>>
      BY <1>3, <3>1
    <3>3. QED
      BY <1>2, <3>1, <3>2 DEF LastSeq
  <2>3. k > LastSeq
    BY <1>5, LastIsMax DEF Outcome, Conflict
  <2>4. QED
    BY <1>1, <1>5, <2>1, <2>2, <2>3
<1>6. QED
  BY <1>1, <1>4, <1>5

\* The subscribers know of an end only if the run has ended, and of its success only
\* if run.json has it.
LEMMA EndKnownBy ==
    ASSUME IInv, ToldKnown
    PROVE  /\ EndTold => Ended(mem)
           /\ \A x \in ToSet(told) : x.event.type = "finish_workflow" =>
                 mem.status = "succeeded" /\ disk.snap.status = "succeeded"
<1>1. \A x \in ToSet(told) : x.event.type = "finish_workflow" =>
         mem.status = "succeeded" /\ disk.snap.status = "succeeded"
  BY DEF IInv, Saves, ToldSaved, EndKnown, Conts, EndLate, SuccessSaved
<1>2. EndTold => Ended(mem)
  BY <1>1, ByEvents DEF ToldKnown, Ended, Endings
<1>3. QED
  BY <1>1, <1>2

\* A task that has succeeded is finished on disk.
LEMMA DoneOnDisk ==
    ASSUME IInv, Succeeded, NEW t \in Tasks, mem.cont[t].stage # "none"
    PROVE  t \in FinishedOnDisk
<1>1. PICK k \in 1..Len(mem.log) : mem.log[k].type = "finish_task" /\ mem.log[k].task = t
  BY DEF IInv, Conts, Accounted
<1>2. Logged(k, mem.log[k]) \in ToSet(disk.log)
  BY <1>1 DEF IInv, Saves, FinishSaved
<1>3. Logged(k, mem.log[k]).event = mem.log[k]
  BY DEF Logged
<1>4. QED
  BY <1>1, <1>2, <1>3, ByEvents

\* Sends are kept in order by the steps that complete no continuation and send nothing.
LEMMA SendsKept ==
    ASSUME Once, InTime, dispatched' = dispatched,
           \A u \in Tasks : Completed(u)' = Completed(u),
           \A u, c \in Tasks : Held(u, c)' = Held(u, c)
    PROVE  Once' /\ InTime'
<1>1. Once' /\ \A c : Sent(c)' = Sent(c)
  BY DEF Once, Sent
<1>2. \A c \in Tasks : Parents[c] \subseteq Tasks
  BY GraphAssumption
<1>3. \A c \in Tasks : Due(c)' = Due(c)
  BY <1>2 DEF Due
<1>4. QED
  BY <1>1, <1>2, <1>3 DEF InTime

-------------------------------------------------------------------------------
(* The steps that change neither the run nor its files. *)

\* What rests on the run, its files and what was told alone stays.
LEMMA QuietRecord ==
    ASSUME JInv, UNCHANGED <<mem, acc, disk, told, dispatched, orders>>
    PROVE  /\ Succeeded' /\ AllDone' /\ ToldKnown' /\ EndKept' /\ Once' /\ InTime' /\ EndShape'
           /\ Even' = Even /\ \A t : Done(t)' = Done(t)
<1>1. LastSeq' = LastSeq /\ FinishedOnDisk' = FinishedOnDisk /\ EndTold' = EndTold
      /\ \A k : EndAt(k)' = EndAt(k)
  BY DEF LastSeq, FinishedOnDisk, EndTold, EndAt
<1>2. Succeeded' /\ AllDone' /\ ToldKnown' /\ EndKept'
  BY <1>1 DEF JInv, OnFile, Succeeded, AllDone, ToldKnown, EndKept, Done
<1>3. Once' /\ InTime'
  BY SendsKept DEF JInv, Outward, Completed, Held
<1>4. EndShape'
  BY <1>1 DEF JInv, Outward, EndShape, TheEnd, RunEvent, Event
<1>5. Even' = Even
  BY <1>1 DEF Even, Done
<1>6. QED
  BY <1>2, <1>3, <1>4, <1>5 DEF Done

\* With the process, what depends on it is gone.
LEMMA DownRecord ==
    ASSUME JInv, core' # "up", busy' = NoMsg, last' = last,
           UNCHANGED <<mem, acc, disk, told, dispatched, orders>>
    PROVE  JInv'
<1>1. InTurn' /\ Caught' /\ Level' /\ Opened' /\ Closing'
  BY DEF JInv, Inward, InTurn, Caught, Level, Opened, Closing, Going
<1>2. QED
  BY <1>1, QuietRecord DEF JInv, Inward, OnFile, Outward

\* A message that comes in is one.
LEMMA ArriveMessage ==
    ASSUME IInv, NEW t \in Tasks, Arrive(t)
    PROVE  busy' # NoMsg
<1>1. last'[t] \in [kind : Kinds, n : Nat, known : BOOLEAN]
  BY StreamType DEF Arrive, IInv, TypeInv, StreamOK
<1>2. PICK end \in Ends(t, last'[t].kind) :
         busy' = [event |-> last'[t], task |-> t, end |-> end]
  BY DEF Arrive
<1>3. end \in {"succeeded", "failed", "timed_out"}
  <2>1. CASE last'[t].kind = "exception"
    BY <2>1 DEF Ends
  <2>2. CASE last'[t].kind = "finish"
    BY <2>2 DEF Ends
  <2>3. CASE last'[t].kind \notin {"exception", "finish"}
    BY <2>3 DEF Ends
  <2>4. QED
    BY <2>1, <2>2, <2>3
<1>4. QED
  BY <1>1, <1>2, <1>3, MessageAssumption DEF Messages, Stream!Kinds, Kinds

\* The next message is one that the run waits for.
LEMMA ArriveRecord ==
    ASSUME IInv, JInv, NEW t \in Tasks, Arrive(t)
    PROVE  JInv'
<1>1. /\ core = "up" /\ monitor = "idle" /\ monitor' = "handling" /\ Sent(t)
      /\ UNCHANGED <<core, mem, acc, disk, open, told, dispatched, orders, faults, stops>>
  BY DEF Arrive, Sent
<1>2. PICK end : busy' = [event |-> last'[t], task |-> t, end |-> end]
  BY DEF Arrive
<1>3. busy = NoMsg
  BY <1>1 DEF IInv, Conts, InHand
<1>4. busy' # NoMsg => busy'.task = t /\ busy'.event = last'[t]
  BY <1>2
<1>5. StreamOK /\ Inward /\ Level /\ Opened /\ Closing
  BY DEF IInv, TypeInv, JInv, OnFile, Outward
<1>6. PICK kind \in Kinds, n \in Nat, known \in BOOLEAN :
         /\ last' = [last EXCEPT ![t] = [kind |-> kind, n |-> n, known |-> known]]
         /\ kind # "none"
         /\ \/ kind = "start" /\ last[t].kind \in {"none", "retry"} /\ n = last[t].n + 1 /\ known
            \/ kind \in {"finish", "retry", "exception"} /\ last[t].kind = "start"
               /\ n = last[t].n /\ known
            \/ kind = "exception" /\ last[t].kind \in {"none", "retry"}
               /\ n \in {last[t].n, last[t].n + 1} /\ known
            \/ kind = "exception" /\ last[t].kind = "retry" /\ ~known
  <2>1. last[t].n \in Nat /\ last[t].n + 1 \in Nat
    BY <1>5 DEF StreamOK
  <2>2. \/ Stream!Start(t) \/ Stream!Finish(t) \/ Stream!Retry(t)
        \/ Stream!Fail(t) \/ Stream!FailWaiting(t)
    BY DEF Arrive
  <2>3. QED
    BY <2>1, <2>2 DEF Kinds, Stream!Start, Stream!Finish, Stream!Retry, Stream!Fail,
       Stream!FailWaiting, Stream!Say
<1>7. /\ last'[t].kind = kind /\ last'[t].n = n /\ last'[t].known = known
      /\ last'[t] = [kind |-> kind, n |-> n, known |-> known]
      /\ \A u \in Tasks \ {t} : last'[u] = last[u]
  BY <1>5, <1>6 DEF StreamOK
<1>8. InTurn'
  <2>1. kind \in {"start", "retry"} => n >= 1
    BY <1>5, <1>6 DEF StreamOK, Inward, InTurn
  <2>2. \A u \in Tasks : last'[u].kind \in {"start", "retry"} => last'[u].n >= 1
    BY <1>5, <1>7, <2>1 DEF Inward, InTurn
  <2>3. QED
    BY <1>1, <1>4, <2>2 DEF InTurn, Sent
<1>9. Caught'
  <2> SUFFICES ASSUME Going', NEW u \in Tasks
               PROVE  IF InWork(u)' THEN Welcome(u)' ELSE Seen(u)'
    BY DEF Caught
  <2>1. Going /\ \A v \in Tasks : Seen(v)
    BY <1>1, <1>3, <1>5 DEF Going, Ended, Inward, Caught, InWork
  <2>2. CASE u # t
    <3>1. ~InWork(u)'
      BY <1>4, <2>2 DEF InWork
    <3>2. Seen(u)'
      BY <1>1, <1>7, <2>1, <2>2 DEF Seen, Done
    <3>3. QED
      BY <3>1, <3>2
  <2>3. CASE u = t
    <3>1. mem.cont[t].stage = "none"
      <4>1. acc[t].state # "terminal"
        BY <1>6, <2>1 DEF Seen
      <4>2. QED
        BY <4>1 DEF IInv, Conts, Accounted
    <3>2. busy' # NoMsg
      BY ArriveMessage
    <3>3. InWork(t)'
      BY <1>1, <1>4, <3>1, <3>2 DEF InWork
    <3>4. CASE ~known
      BY <1>6, <1>7, <2>3, <3>3, <3>4 DEF Welcome
    <3>5. CASE known
      <4>1. Seen(t) /\ last[t].n \in Nat
        BY <1>5, <2>1 DEF StreamOK
      <4>2. last[t].kind \in {"start", "retry"} => last[t].n >= 1
        BY <1>5 DEF Inward, InTurn
      <4>3. Accepted(t, last'[t])
        <5>1. CASE last[t].kind = "none"
          BY <1>6, <1>7, <3>5, <4>1, <5>1 DEF Seen, Accepted, PreDispatch
        <5>2. CASE last[t].kind = "start"
          BY <1>6, <1>7, <3>5, <4>1, <4>2, <5>2 DEF Seen, Accepted, PreDispatch
        <5>3. CASE last[t].kind = "retry"
          BY <1>6, <1>7, <3>5, <4>1, <4>2, <5>3 DEF Seen, Accepted, PreDispatch
        <5>4. QED
          BY <1>6, <5>1, <5>2, <5>3
      <4>4. Accepted(t, last[t])' = Accepted(t, last'[t])
        BY <1>1 DEF Accepted, PreDispatch
      <4>5. QED
        BY <1>7, <2>3, <3>3, <3>5, <4>3, <4>4 DEF Welcome
    <3>6. QED
      BY <3>4, <3>5
  <2>4. QED
    BY <2>2, <2>3
<1>10. Level'
  <2>1. Going' = Going
    BY <1>1 DEF Going, Ended
  <2>2. ~Ahead
    BY <1>3 DEF Ahead
  <2>3. QED
    BY <1>1, <1>5, <2>1, <2>2, QuietRecord DEF Level
<1>11. Opened'
  BY <1>1, <1>5 DEF Opened, Going, Ended
<1>12. Closing'
  <2>1. LastSeq' = LastSeq /\ ToldEnd' = ToldEnd /\ \A k : EndAt(k)' = EndAt(k)
    BY <1>1 DEF LastSeq, ToldEnd, EndAt, TheEnd, RunEvent, Event
  <2>2. \A k, ev : OnDisk(k, ev)' = OnDisk(k, ev)
    BY <1>1 DEF OnDisk, Logged
  <2>3. QED
    BY <1>1, <1>3, <1>5, <2>1, <2>2 DEF Closing
<1>13. QED
  BY <1>1, <1>8, <1>9, <1>10, <1>11, <1>12, QuietRecord DEF JInv, Inward, OnFile, Outward

\* Only a message that brings nothing is dropped.
LEMMA DropRecord ==
    ASSUME IInv, JInv, Drop
    PROVE  JInv'
<1> DEFINE t == busy.task
           e == busy.event
<1>1. /\ core = "up" /\ busy # NoMsg /\ mem.cont[t].stage = "none"
      /\ ~Accepted(t, e) \/ Ended(mem) \/ ~open
      /\ busy' = NoMsg /\ monitor' = "idle"
      /\ UNCHANGED <<core, mem, acc, disk, open, told, dispatched, orders, last, faults, stops>>
  BY DEF Drop
<1>2. Inward /\ Level /\ Opened /\ Closing
  BY DEF JInv, OnFile, Outward
<1>3. t \in Tasks /\ last[t] = e /\ InWork(t)
  BY <1>1, <1>2 DEF IInv, TypeInv, BusyOK, Inward, InTurn, InWork
<1>4. Going => ~Accepted(t, e) /\ ~Ahead
  BY <1>1, <1>2 DEF Opened, Going, Ahead
<1>5. InTurn'
  BY <1>1, <1>2 DEF Inward, InTurn
<1>6. Going' = Going
  BY <1>1 DEF Going, Ended
<1>7. Caught'
  <2> SUFFICES ASSUME Going, NEW u \in Tasks
               PROVE  Seen(u)'
    BY <1>1, <1>6 DEF Caught, InWork
  <2>1. CASE u = t
    <3>1. e.kind = "exception" /\ ~e.known
      BY <1>2, <1>3, <1>4 DEF Inward, Caught, Welcome
    <3>2. QED
      BY <1>1, <1>3, <2>1, <3>1 DEF Seen
  <2>2. CASE u # t
    <3>1. Seen(u)
      BY <1>2, <2>2 DEF Inward, Caught, InWork
    <3>2. QED
      BY <1>1, <3>1 DEF Seen, Done
  <2>3. QED
    BY <2>1, <2>2
<1>8. Level'
  BY <1>1, <1>2, <1>4, <1>6, QuietRecord DEF Level
<1>9. Opened'
  BY <1>1, <1>2, <1>6 DEF Opened
<1>10. Closing'
  <2>1. LastSeq' = LastSeq /\ ToldEnd' = ToldEnd /\ \A k : EndAt(k)' = EndAt(k)
    BY <1>1 DEF LastSeq, ToldEnd, EndAt, TheEnd, RunEvent, Event
  <2>2. \A k, ev : OnDisk(k, ev)' = OnDisk(k, ev)
    BY <1>1 DEF OnDisk, Logged
  <2>3. mem.cont[t].stage \notin Early \cup {"event", "tell", "clear"}
    BY <1>1 DEF Early
  <2>4. QED
    BY <1>1, <1>2, <2>1, <2>2, <2>3 DEF Closing
<1>11. QED
  BY <1>1, <1>5, <1>7, <1>8, <1>9, <1>10, QuietRecord DEF JInv, Inward, OnFile, Outward

-------------------------------------------------------------------------------
(* The steps of a continuation. *)

\* The end of the run is announced, or the monitor still has to.
OnWay == \/ ToldEnd /\ "clear_workflow" \in orders
         \/ /\ busy # NoMsg
            /\ \/ mem.cont[busy.task].stage \in Early \cup {"event", "tell"}
               \/ mem.cont[busy.task].stage = "clear" /\ ToldEnd

\* A stage of a continuation that ends with a save leaves the run as it is: at most
\* a pending task is queued.
LEMMA StageRecord ==
    ASSUME IInv, IInv', JInv, NEW t \in Tasks,
           core = "up", busy # NoMsg, busy.task = t, mem.cont[t].stage # "none",
           mem'.cont[t].stage \notin {"none", "event"},
           \A u \in Tasks \ {t} : mem'.cont[u] = mem.cont[u],
           \A u \in Tasks : \/ mem'.task[u] = mem.task[u]
                            \/ mem.task[u] = "pending" /\ mem'.task[u] = "queued",
           mem'.log = mem.log, mem'.status = mem.status,
           UNCHANGED <<core, acc, open, last>>, busy' \in {busy, NoMsg},
           disk'.log = disk.log, disk'.snap \in {disk.snap, Snap(mem')},
           ToSet(dispatched) \subseteq ToSet(dispatched'),
           \A x \in ToSet(told') : \/ x \in ToSet(told)
                                   \/ x.event.type = "finish_task" /\ x.event.task = t
                                   \/ x.event.type = "finish_workflow",
           Once', InTime', open /\ mem.status = "succeeded" => OnWay'
    PROVE  JInv'
<1>1. /\ LastSeq' = LastSeq /\ FinishedOnDisk' = FinishedOnDisk
      /\ \A k : EndAt(k)' = EndAt(k)
      /\ \A k, ev : OnDisk(k, ev)' = OnDisk(k, ev)
  BY DEF LastSeq, FinishedOnDisk, EndAt, OnDisk, Logged
<1>2. /\ InTurn /\ Caught /\ Level /\ Succeeded /\ AllDone /\ ToldKnown /\ EndKept /\ Opened
      /\ Closing /\ EndShape
  BY DEF JInv, Inward, OnFile, Outward
<1>3. \A u \in Tasks : Done(u)' = Done(u)
  BY DEF Done
<1>4. Going' = Going /\ Done(t)
  BY <1>2 DEF Going, Ended, Succeeded
<1>5. Succeeded'
  <2>1. \A u \in Tasks : Done(u) <=> mem'.cont[u].stage # "none"
    BY <1>2, <1>4 DEF Succeeded
  <2>2. \A u \in Tasks : Done(u) => disk'.snap.task[u] = "succeeded"
    BY <1>2, <1>3 DEF Succeeded, Snap, Done
  <2>3. QED
    BY <1>3, <2>1, <2>2 DEF Succeeded
<1>6. AllDone'
  BY <1>2, <1>3 DEF AllDone
<1>7. ToldKnown'
  BY <1>2, <1>3, <1>4 DEF ToldKnown
<1>8. EndKept'
  <2> SUFFICES ASSUME EndTold'
               PROVE  disk'.snap.status = mem'.status
    BY DEF EndKept
  <2>1. PICK x \in ToSet(told') :
           x.event.type \in {"task_exception", "finish_workflow", "timeout_workflow"}
    BY ByEventsNext
  <2>2. CASE x.event.type = "finish_workflow"
    BY <2>2, ByEventsNext
  <2>3. CASE x.event.type # "finish_workflow"
    <3>1. EndTold
      BY <2>1, <2>3, ByEvents
    <3>2. QED
      BY <1>2, <3>1 DEF EndKept, Snap
  <2>4. QED
    BY <2>2, <2>3
<1>9. InTurn'
  BY <1>2 DEF InTurn, Sent
<1>10. Caught'
  <2> SUFFICES ASSUME Going, NEW u \in Tasks
               PROVE  ~InWork(u)' /\ Seen(u)'
    BY <1>4 DEF Caught
  <2>1. ~InWork(u) /\ ~InWork(u)'
    BY DEF InWork
  <2>2. Seen(u)
    BY <1>2, <2>1 DEF Caught
  <2>3. mem'.task[u] = mem.task[u] \/ last[u].kind \in {"none", "exception"}
    <3>1. last[u].kind \in Kinds
      BY DEF IInv, TypeInv, StreamOK
    <3>2. mem.task[u] = "pending" => last[u].kind \in {"none", "exception"}
      BY <2>2, <3>1 DEF Seen, Done, Kinds
    <3>3. QED
      BY <3>2
  <2>4. acc'[u] = acc[u] /\ last'[u] = last[u]
    OBVIOUS
  <2>5. Seen(u)'
    BY <1>3, <2>2, <2>3, <2>4 DEF Seen
  <2>6. QED
    BY <2>1, <2>5
<1>11. Level'
  <2> SUFFICES ASSUME Going
               PROVE  Even'
    BY <1>4 DEF Level
  <2>1. Even
    BY <1>2 DEF Level, Ahead, InWork
  <2>2. FinishedOnDisk \subseteq Tasks
    BY DEF FinishedOnDisk
  <2>3. disk'.snap.status = mem'.status
    BY <2>1 DEF Even, Snap
  <2>4. QED
    BY <1>1, <1>3, <2>1, <2>2, <2>3 DEF Even
<1>12. Opened'
  BY <1>2, <1>4 DEF Opened
<1>13. EndShape'
  BY <1>1, <1>2 DEF EndShape, TheEnd, RunEvent, Event
<1>14. Closing'
  BY <1>1, <1>2 DEF Closing, OnWay
<1>15. QED
  BY <1>5, <1>6, <1>7, <1>8, <1>9, <1>10, <1>11, <1>12, <1>13, <1>14
     DEF JInv, Inward, OnFile, Outward

\* Each task is sent by the continuation of one parent: none but t's is at work.
LEMMA OneSender ==
    ASSUME IInv, JInv, NEW t \in Tasks, core = "up", busy.task = t
    PROVE  \A u \in Tasks \ {t}, c \in Tasks : ~Held(u, c)
BY DEF IInv, Conts, InHand, Held, Hands

\* The effect of SaveStage on the files.
LEMMA StageSaved ==
    ASSUME IInv, NEW m \in Runs, NEW w, SaveOutcome(w), Save(w, m)
    PROVE  disk'.log = disk.log /\ disk'.snap \in {disk.snap, Snap(m)}
BY SaveEffect DEF IInv

\* The run is told of the finish it has logged.
LEMMA NotifyRecord ==
    ASSUME IInv, IInv', JInv, NEW t \in Tasks, Notify(t)
    PROVE  JInv'
<1> DEFINE k == Seq1("finish_task", t)
           m == Stage(mem, t, "advance")
<1>1. /\ core = "up" /\ busy # NoMsg /\ busy.task = t /\ mem.cont[t].stage = "notify"
      /\ Tell(k, mem.log[k]) /\ SaveStage(m)
      /\ UNCHANGED <<core, acc, busy, open, dispatched, orders, last, stops>>
  BY DEF Notify, At
<1>2. /\ k \in 1..Len(mem.log) /\ k \in Nat /\ mem.log[k] \in LogEvents
      /\ mem.log[k].type = "finish_task" /\ mem.log[k].task = t
  BY <1>1, Typed, Seq1Type DEF IInv, Conts, Accounted
<1>3. /\ m \in Runs /\ m.log = mem.log /\ m.status = mem.status /\ m.task = mem.task
      /\ m.cont[t].stage = "advance" /\ \A u \in Tasks \ {t} : m.cont[u] = mem.cont[u]
  BY Typed, StageType DEF Stages
<1> HIDE DEF k, m
<1>4. mem' = m /\ \E w : SaveOutcome(w) /\ Save(w, m)
  BY <1>1 DEF SaveStage, Saved
<1>5. disk'.log = disk.log /\ disk'.snap \in {disk.snap, Snap(mem')}
  BY <1>3, <1>4, StageSaved
<1>6. \A x \in ToSet(told') : \/ x \in ToSet(told)
                              \/ x.event.type = "finish_task" /\ x.event.task = t
  <2>1. ToSet(told') \subseteq ToSet(told) \cup {Logged(k, mem.log[k])}
    BY <1>1, <1>2, Typed, TellSaved
  <2>2. Logged(k, mem.log[k]).event = mem.log[k]
    BY DEF Logged
  <2>3. QED
    BY <1>2, <2>1, <2>2
<1>7. Once' /\ InTime'
  <2>1. \A u \in Tasks : Completed(u)' = Completed(u)
    BY <1>1, <1>3, <1>4 DEF Completed
  <2>2. \A u, c \in Tasks : Held(u, c)' = Held(u, c)
    BY <1>1, <1>3, <1>4 DEF Held
  <2>3. QED
    BY <1>1, <2>1, <2>2, SendsKept DEF JInv, Outward
<1>8. OnWay'
  BY <1>1, <1>3, <1>4 DEF OnWay, Early
<1>9. QED
  BY <1>1, <1>3, <1>4, <1>5, <1>6, <1>7, <1>8, StageRecord

\* Workflow.finish_task: a child is ready for the last of its parents only.
LEMMA AdvanceRecord ==
    ASSUME IInv, IInv', JInv, NEW t \in Tasks, Advance(t)
    PROVE  JInv'
<1> DEFINE c == [stage |-> "dispatch", todo |-> Ready(t)]
           m == [mem EXCEPT !.cont[t] = c]
<1>1. /\ core = "up" /\ busy # NoMsg /\ busy.task = t /\ mem.cont[t].stage = "advance"
      /\ SaveStage(m)
      /\ UNCHANGED <<core, acc, busy, open, told, dispatched, orders, last, stops>>
  BY DEF Advance, At
<1>2. /\ c \in [stage : Stages, todo : SUBSET Tasks] /\ c.stage = "dispatch"
      /\ c.todo = Ready(t)
  BY DEF Ready, Children, Stages
<1> HIDE DEF c
<1>3. /\ m \in Runs /\ m.log = mem.log /\ m.status = mem.status /\ m.task = mem.task
      /\ m.cont[t] = c /\ \A u \in Tasks \ {t} : m.cont[u] = mem.cont[u]
  BY <1>2, Typed DEF Runs
<1> HIDE DEF m
<1>4. mem' = m /\ \E w : SaveOutcome(w) /\ Save(w, m)
  BY <1>1 DEF SaveStage, Saved
<1>5. disk'.log = disk.log /\ disk'.snap \in {disk.snap, Snap(mem')}
  BY <1>3, <1>4, StageSaved
<1>6. Once' /\ InTime'
  <2>1. InTime /\ Once /\ ~Completed(t)
    BY <1>1 DEF JInv, Outward, Completed
  <2>2. \A p \in Tasks : Completed(p)' <=> p = t \/ Completed(p)
    BY <1>2, <1>3, <1>4 DEF Completed
  <2>3. \A d \in Tasks : Parents[d] \subseteq Tasks
    BY GraphAssumption
  <2>4. \A d \in Tasks : Due(d)' <=> \A p \in Parents[d] : p = t \/ Completed(p)
    BY <2>2, <2>3 DEF Due
  <2>5. \A d \in Tasks : Held(t, d)' <=> t \in Parents[d] /\ Due(d)'
    BY <1>2, <1>3, <1>4, <2>4 DEF Held, Ready, Children
  <2>6. \A u \in Tasks \ {t}, d \in Tasks : ~Held(u, d)'
    <3>1. \A u \in Tasks \ {t}, d \in Tasks : ~Held(u, d)
      BY <1>1, OneSender
    <3>2. QED
      BY <1>3, <1>4, <3>1 DEF Held
  <2>7. \A d \in Tasks : Sent(d)' = Sent(d) /\ (Sent(d) => Due(d) /\ t \notin Parents[d])
    BY <1>1, <2>1 DEF InTime, Sent, Due
  <2>8. \A d \in Tasks : Due(d)' => Sent(d)' \/ Held(t, d)'
    <3> SUFFICES ASSUME NEW d \in Tasks, Due(d)', t \notin Parents[d]
                 PROVE  Sent(d)
      BY <2>5, <2>7
    <3>1. Due(d)
      BY <2>4 DEF Due
    <3>2. \A p \in Parents[d] : p # t /\ p \in Tasks
      BY <2>3
    <3>3. \A p \in Parents[d] : ~Held(p, d)
      BY <1>1, <3>2, OneSender
    <3>4. QED
      BY <2>1, <3>1, <3>3 DEF InTime
  <2>9. InTime'
    <3>1. \A d \in Tasks : Sent(d)' => Due(d)'
      BY <2>4, <2>7 DEF Due
    <3>2. \A d \in Tasks : Due(d)' => Sent(d)' \/ \E p \in Parents[d] : Held(p, d)'
      BY <2>5, <2>8
    <3>3. \A u, d \in Tasks : Held(u, d)' => u \in Parents[d] /\ ~Sent(d)' /\ Due(d)'
      BY <2>5, <2>6, <2>7
    <3>4. QED
      BY <3>1, <3>2, <3>3 DEF InTime
  <2>10. Once'
    BY <1>1, <2>1 DEF Once
  <2>11. QED
    BY <2>9, <2>10
<1>7. OnWay'
  BY <1>1, <1>2, <1>3, <1>4 DEF OnWay, Early
<1>8. QED
  BY <1>1, <1>2, <1>3, <1>4, <1>5, <1>6, <1>7, StageRecord

\* A child is sent once, by the continuation that found it ready.
LEMMA DispatchRecord ==
    ASSUME IInv, IInv', JInv, NEW t \in Tasks, NEW c \in Tasks, Dispatch(t, c),
           dispatched \in Seq(Tasks)
    PROVE  JInv'
<1> DEFINE queued == [mem EXCEPT !.task[c] = IF @ = "pending" THEN "queued" ELSE @]
           sent == [queued EXCEPT !.cont[t].todo = @ \ {c}]
<1>1. /\ core = "up" /\ busy # NoMsg /\ busy.task = t /\ mem.cont[t].stage = "dispatch"
      /\ c \in mem.cont[t].todo
      /\ UNCHANGED <<core, acc, busy, open, told, orders, last, stops>>
  BY DEF Dispatch, At
<1>2. /\ queued \in Runs /\ queued.log = mem.log /\ queued.status = mem.status
      /\ queued.cont = mem.cont
      /\ \A u \in Tasks : \/ queued.task[u] = mem.task[u]
                          \/ mem.task[u] = "pending" /\ queued.task[u] = "queued"
  BY Typed DEF Runs, TaskStates, Pending
<1>3. PICK m \in {queued, sent} :
         /\ mem' = m /\ \E w : SaveOutcome(w) /\ Save(w, m)
         /\ \/ m = queued /\ dispatched' = dispatched
            \/ m = sent /\ dispatched' = Append(dispatched, c)
  BY DEF Dispatch, Saved, queued, sent
<1> HIDE DEF queued
<1>4. /\ sent \in Runs /\ sent.log = mem.log /\ sent.status = mem.status
      /\ sent.task = queued.task /\ sent.cont[t].stage = "dispatch"
      /\ sent.cont[t].todo = mem.cont[t].todo \ {c}
      /\ \A u \in Tasks \ {t} : sent.cont[u] = mem.cont[u]
  <2> DEFINE e == [mem.cont[t] EXCEPT !.todo = @ \ {c}]
             f == [mem.cont EXCEPT ![t] = e]
  <2>1. mem.cont \in [Tasks -> [stage : Stages, todo : SUBSET Tasks]]
    BY Typed DEF Runs
  <2>2. /\ e \in [stage : Stages, todo : SUBSET Tasks] /\ e.stage = mem.cont[t].stage
        /\ e.todo = mem.cont[t].todo \ {c}
    BY <2>1
  <2> HIDE DEF e
  <2>3. /\ f \in [Tasks -> [stage : Stages, todo : SUBSET Tasks]] /\ f[t] = e
        /\ \A u \in Tasks \ {t} : f[u] = mem.cont[u]
    BY <2>1, <2>2
  <2>4. sent = [queued EXCEPT !.cont = f]
    BY <1>2 DEF e
  <2> HIDE DEF f
  <2>5. QED
    BY <1>1, <1>2, <2>2, <2>3, <2>4 DEF Runs
<1> HIDE DEF sent
<1>5. /\ m \in Runs /\ m.log = mem.log /\ m.status = mem.status
      /\ m.cont[t].stage = "dispatch" /\ \A u \in Tasks \ {t} : m.cont[u] = mem.cont[u]
      /\ \A u \in Tasks : \/ m.task[u] = mem.task[u]
                          \/ mem.task[u] = "pending" /\ m.task[u] = "queued"
  BY <1>1, <1>2, <1>3, <1>4
<1>6. disk'.log = disk.log /\ disk'.snap \in {disk.snap, Snap(mem')}
  BY <1>3, <1>5, StageSaved
<1>7. InTime /\ Once
  BY DEF JInv, Outward
<1>8. \A u \in Tasks : Completed(u)' = Completed(u)
  BY <1>1, <1>3, <1>5 DEF Completed
<1>9. \A d \in Tasks : Due(d)' = Due(d) /\ Parents[d] \subseteq Tasks
  BY <1>8, GraphAssumption DEF Due
<1>10. ToSet(dispatched) \subseteq ToSet(dispatched') /\ Once' /\ InTime'
  <2>1. CASE m = queued /\ dispatched' = dispatched
    <3>1. \A u, d \in Tasks : Held(u, d)' = Held(u, d)
      BY <1>2, <1>3, <2>1 DEF Held
    <3>2. QED
      BY <1>7, <1>8, <2>1, <3>1, SendsKept
  <2>2. CASE m = sent /\ dispatched' = Append(dispatched, c)
    <3>1. ToSet(dispatched') = ToSet(dispatched) \cup {c}
      BY <2>2, ToSetAppend
    <3>2. \A d \in Tasks : Sent(d)' <=> Sent(d) \/ d = c
      BY <3>1 DEF Sent
    <3>3. Held(t, c) /\ ~Sent(c) /\ Due(c)
      BY <1>1, <1>7 DEF Held, InTime
    <3>4. \A d \in Tasks : Held(t, d)' <=> Held(t, d) /\ d # c
      BY <1>1, <1>3, <1>4, <2>2 DEF Held
    <3>5. \A u \in Tasks \ {t}, d \in Tasks : ~Held(u, d) /\ ~Held(u, d)'
      <4>1. \A u \in Tasks \ {t}, d \in Tasks : ~Held(u, d)
        BY <1>1, OneSender
      <4>2. QED
        BY <1>3, <1>5, <4>1 DEF Held
    <3>6. InTime'
      <4>1. \A d \in Tasks : Sent(d)' => Due(d)'
        BY <1>7, <1>9, <3>2, <3>3 DEF InTime
      <4>2. \A d \in Tasks : Due(d)' => Sent(d)' \/ \E p \in Parents[d] : Held(p, d)'
        <5> SUFFICES ASSUME NEW d \in Tasks, Due(d), ~Sent(d), d # c
                     PROVE  \E p \in Parents[d] : Held(p, d)'
          BY <1>9, <3>2
        <5>1. PICK p \in Parents[d] : Held(p, d)
          BY <1>7 DEF InTime
        <5>2. p = t
          BY <1>9, <3>5, <5>1
        <5>3. QED
          BY <3>4, <5>1, <5>2
      <4>3. \A u, d \in Tasks : Held(u, d)' => u \in Parents[d] /\ ~Sent(d)' /\ Due(d)'
        BY <1>7, <1>9, <3>2, <3>4, <3>5 DEF InTime
      <4>4. QED
        BY <4>1, <4>2, <4>3 DEF InTime
    <3>7. Once'
      <4>1. /\ Len(dispatched') = Len(dispatched) + 1 /\ Len(dispatched) \in Nat
            /\ dispatched'[Len(dispatched) + 1] = c
            /\ \A i \in 1..Len(dispatched) : dispatched'[i] = dispatched[i]
            /\ \A i \in 1..Len(dispatched) + 1 : i \in 1..Len(dispatched) \/ i = Len(dispatched) + 1
        BY <2>2, EndOfLog
      <4>2. DOMAIN dispatched' = 1..Len(dispatched) + 1 /\ DOMAIN dispatched = 1..Len(dispatched)
        BY <2>2, <4>1
      <4>3. \A i \in 1..Len(dispatched) : dispatched[i] # c
        BY <3>3, <4>2 DEF Sent, ToSet
      <4>4. QED
        BY <1>7, <4>1, <4>2, <4>3 DEF Once, IsInjective
    <3>8. QED
      BY <3>1, <3>6, <3>7
  <2>3. QED
    BY <1>3, <2>1, <2>2
<1>11. OnWay'
  BY <1>1, <1>3, <1>5 DEF OnWay, Early
<1>12. QED
  BY <1>1, <1>3, <1>5, <1>6, <1>10, <1>11, StageRecord

\* The end is told in the stage after its write.
LEMMA TellEndRecord ==
    ASSUME IInv, IInv', JInv, NEW t \in Tasks, TellEnd(t)
    PROVE  JInv'
<1> DEFINE k == Seq1("finish_workflow", NoTask)
           m == Stage(mem, t, "clear")
<1>1. /\ core = "up" /\ busy # NoMsg /\ busy.task = t /\ mem.cont[t].stage = "tell"
      /\ Tell(k, mem.log[k]) /\ SaveStage(m)
      /\ UNCHANGED <<core, acc, busy, open, dispatched, orders, last, stops>>
  BY DEF TellEnd, At
<1>2. /\ k \in 1..Len(mem.log) /\ k \in Nat /\ mem.log[k] \in LogEvents /\ EndAt(k)
  BY <1>1, Typed, Seq1Type DEF IInv, Conts, EndOnce, EndThere, HasEnd, EndAt
<1>3. /\ m \in Runs /\ m.log = mem.log /\ m.status = mem.status /\ m.task = mem.task
      /\ m.cont[t].stage = "clear" /\ \A u \in Tasks \ {t} : m.cont[u] = mem.cont[u]
  BY Typed, StageType DEF Stages
<1>4. mem.log[k] = TheEnd
  BY <1>2 DEF JInv, Outward, EndShape
<1> HIDE DEF k, m
<1> DEFINE x == Logged(k, mem.log[k])
<1>5. mem' = m /\ \E w : SaveOutcome(w) /\ Save(w, m)
  BY <1>1 DEF SaveStage, Saved
<1>6. disk'.log = disk.log /\ disk'.snap \in {disk.snap, Snap(mem')}
  BY <1>3, <1>5, StageSaved
<1>7. x \in Entries /\ x.event = TheEnd /\ TheEnd.type = "finish_workflow"
  BY <1>2, <1>4 DEF Logged, Entries, TheEnd, RunEvent, Event
<1>8. /\ ToSet(told') \subseteq ToSet(told) \cup {x}
      /\ open => x \in ToSet(told')
  <2>1. told \in Seq(Entries)
    BY Typed
  <2>2. ToSet(Append(told, x)) = ToSet(told) \cup {x}
    BY <1>7, <2>1, ToSetAppend
  <2>3. told' = IF open THEN Append(told, x) ELSE told
    BY <1>1 DEF Tell
  <2>4. QED
    BY <2>2, <2>3
<1>9. Once' /\ InTime'
  <2>1. \A u \in Tasks : Completed(u)' = Completed(u)
    BY <1>1, <1>3, <1>5 DEF Completed
  <2>2. \A u, c \in Tasks : Held(u, c)' = Held(u, c)
    BY <1>1, <1>3, <1>5 DEF Held
  <2>3. QED
    BY <1>1, <2>1, <2>2, SendsKept DEF JInv, Outward
<1>10. open => OnWay'
  <2>1. TheEnd' = TheEnd
    BY DEF TheEnd, RunEvent, Event
  <2>2. open => ToldEnd'
    BY <1>7, <1>8, <2>1 DEF ToldEnd
  <2>3. QED
    BY <1>1, <1>3, <1>5, <2>2 DEF OnWay
<1>11. \A y \in ToSet(told') : y \in ToSet(told) \/ y.event.type = "finish_workflow"
  BY <1>7, <1>8
<1>12. QED
  BY <1>1, <1>3, <1>5, <1>6, <1>9, <1>10, <1>11, StageRecord

\* The Scheduler is cleared once the end was told.
LEMMA ClearRecord ==
    ASSUME IInv, IInv', JInv, NEW t \in Tasks, Clear(t)
    PROVE  JInv'
<1> DEFINE m == Stage(mem, t, "completed")
<1>1. /\ core = "up" /\ busy # NoMsg /\ busy.task = t /\ mem.cont[t].stage = "clear"
      /\ SaveStage(m) /\ "clear_workflow" \in orders'
      /\ UNCHANGED <<core, acc, busy, open, told, dispatched, last, stops>>
  BY DEF Clear, At
<1>2. /\ m \in Runs /\ m.log = mem.log /\ m.status = mem.status /\ m.task = mem.task
      /\ m.cont[t].stage = "completed" /\ \A u \in Tasks \ {t} : m.cont[u] = mem.cont[u]
  BY Typed, StageType DEF Stages
<1> HIDE DEF m
<1>3. mem' = m /\ \E w : SaveOutcome(w) /\ Save(w, m)
  BY <1>1 DEF SaveStage, Saved
<1>4. disk'.log = disk.log /\ disk'.snap \in {disk.snap, Snap(mem')}
  BY <1>2, <1>3, StageSaved
<1>5. Once' /\ InTime'
  <2>1. \A u \in Tasks : Completed(u)' = Completed(u)
    BY <1>1, <1>2, <1>3 DEF Completed
  <2>2. \A u, c \in Tasks : Held(u, c)' = Held(u, c)
    BY <1>1, <1>2, <1>3 DEF Held
  <2>3. QED
    BY <1>1, <2>1, <2>2, SendsKept DEF JInv, Outward
<1>6. open /\ mem.status = "succeeded" => OnWay'
  <2>1. ToldEnd' = ToldEnd
    BY <1>1 DEF ToldEnd, TheEnd, RunEvent, Event
  <2>2. open /\ mem.status = "succeeded" => ToldEnd
    BY <1>1 DEF JInv, Outward, Closing, Early
  <2>3. QED
    BY <1>1, <2>1, <2>2 DEF OnWay
<1>7. QED
  BY <1>1, <1>2, <1>3, <1>4, <1>5, <1>6, StageRecord

\* A message is given up when its continuation is completed.
LEMMA CompleteRecord ==
    ASSUME IInv, IInv', JInv, NEW t \in Tasks, Complete(t)
    PROVE  JInv'
<1>1. /\ core = "up" /\ busy # NoMsg /\ busy.task = t /\ mem.cont[t].stage = "completed"
      /\ UNCHANGED <<core, mem, acc, open, told, dispatched, orders, last, stops>>
      /\ busy' \in {busy, NoMsg} /\ \E w : SaveOutcome(w) /\ Save(w, mem)
  BY DEF Complete, At
<1>2. disk'.log = disk.log /\ disk'.snap \in {disk.snap, Snap(mem)}
  BY <1>1, Typed, StageSaved
<1>3. Snap(mem) = Snap(mem')
  BY <1>1
<1>4. Once' /\ InTime'
  BY <1>1, SendsKept DEF JInv, Outward, Completed, Held
<1>5. open /\ mem.status = "succeeded" => OnWay'
  <2>1. ToldEnd' = ToldEnd
    BY <1>1 DEF ToldEnd, TheEnd, RunEvent, Event
  <2>2. open /\ mem.status = "succeeded" => ToldEnd /\ "clear_workflow" \in orders
    BY <1>1 DEF JInv, Outward, Closing, Early
  <2>3. QED
    BY <1>1, <2>1, <2>2 DEF OnWay
<1>6. QED
  BY <1>1, <1>2, <1>3, <1>4, <1>5, StageRecord

\* With the last child sent, the continuation is over or makes the run's end.
LEMMA DispatchDoneRecord ==
    ASSUME IInv, IInv', JInv, NEW t \in Tasks, DispatchDone(t)
    PROVE  JInv'
<1> DEFINE n == Len(mem.log)
           to == IF mem.status = "succeeded" THEN "event" ELSE "completed"
           r == Stage(mem, t, to)
           m == Log(r, TheEnd)
<1>1. /\ core = "up" /\ busy # NoMsg /\ busy.task = t /\ mem.cont[t].stage = "dispatch"
      /\ mem.cont[t].todo = {}
      /\ mem' = IF mem.status = "succeeded" THEN m ELSE r
      /\ UNCHANGED <<core, acc, busy, disk, open, told, dispatched, orders, last, faults, stops>>
  BY DEF DispatchDone, At, TheEnd
<1>2. /\ r \in Runs /\ r.log = mem.log /\ r.status = mem.status /\ r.task = mem.task
      /\ r.cont[t].stage = to /\ \A u \in Tasks \ {t} : r.cont[u] = mem.cont[u]
  <2>1. to \in Stages
    BY DEF Stages
  <2> HIDE DEF to
  <2>2. QED
    BY <2>1, Typed, StageType
<1>3. TheEnd \in LogEvents /\ TheEnd.type = "finish_workflow" /\ TheEnd' = TheEnd
  BY EventTypes DEF Types, TheEnd, RunEvent, Event
<1> HIDE DEF r
<1>4. /\ m \in Runs /\ m.log = Append(mem.log, TheEnd) /\ m.status = mem.status
      /\ m.task = mem.task /\ m.cont = r.cont
  BY <1>2, <1>3, LogType DEF Log, Runs
<1> HIDE DEF m
<1>5. Once' /\ InTime'
  <2>1. mem'.cont = r.cont
    BY <1>1, <1>4
  <2>2. \A u \in Tasks : Completed(u)' = Completed(u)
    BY <1>1, <1>2, <2>1 DEF Completed
  <2>3. \A u, c \in Tasks : Held(u, c)' = Held(u, c)
    BY <1>1, <1>2, <2>1 DEF Held
  <2>4. QED
    BY <1>1, <2>2, <2>3, SendsKept DEF JInv, Outward
<1>6. CASE mem.status # "succeeded"
  BY <1>1, <1>2, <1>5, <1>6, StageRecord
<1>7. CASE mem.status = "succeeded"
  <2>1. /\ Len(m.log) = n + 1 /\ n \in Nat /\ m.log[n + 1] = TheEnd
        /\ \A i \in 1..n : m.log[i] = mem.log[i] /\ i \in 1..n + 1
        /\ \A i \in 1..n + 1 : i \in 1..n \/ i = n + 1
    BY <1>3, <1>4, Typed, EndOfLog
  <2>2. mem' = m
    BY <1>1, <1>7
  <2>3. ~HasEnd
    BY <1>1 DEF IInv, Conts, EndLate, Early
  <2>4. \A k \in 1..n + 1 : EndAt(k)' => k = n + 1
    BY <2>1, <2>2, <2>3 DEF EndAt, HasEnd
  <2>5. ~Going' /\ \A u : Done(u)' = Done(u)
    BY <1>1, <1>4, <1>7, <2>2 DEF Going, Ended, Endings, Done
  <2>6. LastSeq' = LastSeq /\ FinishedOnDisk' = FinishedOnDisk /\ EndTold' = EndTold
    BY <1>1 DEF LastSeq, FinishedOnDisk, EndTold
  <2>7. InTurn' /\ Caught' /\ Level' /\ Opened'
    BY <1>1, <2>5 DEF JInv, Inward, InTurn, Caught, Level, Opened, Sent
  <2>8. Succeeded'
    BY <1>1, <1>2, <1>4, <1>7, <2>2, <2>5 DEF JInv, OnFile, Succeeded
  <2>9. AllDone' /\ ToldKnown' /\ EndKept'
    BY <1>1, <1>4, <2>2, <2>5, <2>6 DEF JInv, OnFile, AllDone, ToldKnown, EndKept
  <2>10. EndShape'
    BY <1>3, <2>1, <2>2, <2>4 DEF EndShape
  <2>11. Closing'
    <3> SUFFICES ASSUME open
                 PROVE  /\ LastSeq <= n + 1
                        /\ \A u \in Tasks, k \in 1..n + 1 : EndAt(k)' => LastSeq < k
                        /\ busy # NoMsg /\ mem'.cont[busy.task].stage = "event"
      BY <1>1, <2>1, <2>2, <2>6 DEF Closing
    <3>1. LastSeq <= n /\ LastSeq \in Nat
      BY <1>1, <1>7, LastIsMax DEF JInv, Outward, Closing
    <3>2. QED
      BY <1>1, <1>2, <1>4, <1>7, <2>1, <2>2, <2>4, <3>1
  <2>12. QED
    BY <1>5, <2>7, <2>8, <2>9, <2>10, <2>11 DEF JInv, Inward, OnFile, Outward
<1>8. QED
  BY <1>6, <1>7

\* The number of the end is free as long as nothing but the end is written.
LEMMA WriteEndRecord ==
    ASSUME IInv, IInv', JInv, NEW t \in Tasks, WriteEnd(t)
    PROVE  JInv'
<1> DEFINE m == Stage(mem, t, "tell")
<1>0. PICK k : k = Seq1("finish_workflow", NoTask)
  OBVIOUS
<1>1. /\ mem.cont[t].stage = "event" /\ core = "up" /\ busy # NoMsg /\ busy.task = t
      /\ UNCHANGED <<core, acc, open, told, dispatched, orders, last, stops>>
  BY DEF WriteEnd, At
<1>2. /\ k \in 1..Len(mem.log) /\ k \in Nat /\ mem.log[k] \in LogEvents /\ EndAt(k)
  BY <1>0, <1>1, Typed, Seq1Type DEF IInv, Conts, EndOnce, EndThere, HasEnd, EndAt
<1>3. PICK w \in Failures \cup {"done", "conflict"} :
         /\ Outcome(w, k, mem.log[k]) /\ Record(w, mem, k, mem.log[k])
         /\ \/ w # "conflict" /\ mem' = m /\ busy' = busy
            \/ w = "conflict" /\ mem' = mem /\ busy' = NoMsg
            \/ w # "conflict" /\ mem' = mem /\ busy' = busy
  BY <1>0 DEF WriteEnd, Failures
<1>4. /\ m \in Runs /\ m.log = mem.log /\ m.status = mem.status /\ m.task = mem.task
      /\ m.cont[t].stage = "tell" /\ \A u \in Tasks \ {t} : m.cont[u] = mem.cont[u]
  BY Typed, StageType DEF Stages
<1> HIDE DEF m
<1>5. /\ mem'.log = mem.log /\ mem'.status = mem.status /\ mem'.task = mem.task
      /\ mem'.cont[t].stage \in {"event", "tell"}
      /\ \A u \in Tasks \ {t} : mem'.cont[u] = mem.cont[u]
  BY <1>1, <1>3, <1>4
<1>6. mem.status = "succeeded" /\ ~Going /\ ~Going'
  <2>1. mem.status = "succeeded"
    BY <1>2 DEF IInv, Conts, EndLate, HasEnd
  <2>2. QED
    BY <1>5, <2>1 DEF Going, Ended, Endings
<1>7. /\ \/ disk'.log = disk.log /\ LastSeq' = LastSeq
         \/ /\ disk'.log = Append(disk.log, Logged(k, mem.log[k])) /\ LastSeq' = k
      /\ disk'.snap \in {disk.snap, Snap(mem)}
  BY <1>2, <1>3, RecordMore
<1>8. \A u : Done(u)' = Done(u)
  BY <1>5 DEF Done
<1>9. InTurn' /\ Caught' /\ Level' /\ Opened'
  BY <1>1, <1>3, <1>6 DEF JInv, Inward, InTurn, Caught, Level, Opened, Sent
<1>10. Succeeded'
  <2>1. \A u \in Tasks : mem'.cont[u].stage # "none" <=> mem.cont[u].stage # "none"
    BY <1>1, <1>5
  <2>2. \A u \in Tasks : Done(u) => disk'.snap.task[u] = "succeeded"
    BY <1>7 DEF JInv, OnFile, Succeeded, Snap, Done
  <2>3. QED
    BY <1>8, <2>1, <2>2 DEF JInv, OnFile, Succeeded
<1>11. AllDone' /\ ToldKnown' /\ EndKept'
  <2>1. EndTold' = EndTold
    BY <1>1 DEF EndTold
  <2>2. disk'.snap.status \in {disk.snap.status, mem.status}
    BY <1>7 DEF Snap
  <2>3. QED
    BY <1>1, <1>5, <1>8, <2>1, <2>2 DEF JInv, OnFile, AllDone, ToldKnown, EndKept
<1>12. Once' /\ InTime'
  <2>1. \A u \in Tasks : Completed(u)' = Completed(u)
    BY <1>1, <1>5 DEF Completed
  <2>2. \A u, c \in Tasks : Held(u, c)' = Held(u, c)
    BY <1>1, <1>5 DEF Held
  <2>3. QED
    BY <1>1, <2>1, <2>2, SendsKept DEF JInv, Outward
<1>13. EndShape' /\ \A j : EndAt(j)' = EndAt(j)
  BY <1>5 DEF JInv, Outward, EndShape, EndAt, TheEnd, RunEvent, Event
<1>14. Closing'
  <2> SUFFICES ASSUME open
               PROVE  /\ LastSeq' <= Len(mem.log)
                      /\ \A u \in Tasks, j \in 1..Len(mem.log) :
                            EndAt(j) => LastSeq' < j \/ OnDisk(j, mem.log[j])'
                      /\ busy' # NoMsg /\ busy' = busy
    BY <1>1, <1>5, <1>13 DEF Closing
  <2>1. LastSeq <= Len(mem.log) /\ (LastSeq < k \/ OnDisk(k, mem.log[k]))
    BY <1>1, <1>2, <1>6 DEF JInv, Outward, Closing
  <2>2. w # "conflict"
    BY <1>2, <1>3, <2>1, LastIsMax DEF Outcome, Conflict, Failures
  <2>3. \A j \in 1..Len(mem.log) : EndAt(j) => j = k
    BY <1>2 DEF IInv, Conts, EndOnce
  <2>4. LastSeq' <= Len(mem.log) /\ (LastSeq' < k \/ OnDisk(k, mem.log[k])')
    <3>1. CASE disk'.log = disk.log /\ LastSeq' = LastSeq
      <4>1. OnDisk(k, mem.log[k]) => OnDisk(k, mem.log[k])'
        BY <1>5, <3>1 DEF OnDisk, Logged
      <4>2. QED
        BY <2>1, <3>1, <4>1
    <3>2. CASE disk'.log = Append(disk.log, Logged(k, mem.log[k])) /\ LastSeq' = k
      <4> DEFINE d == Len(disk.log)
      <4>1. disk'.log[d + 1] = Logged(k, mem.log[k]) /\ Len(disk'.log) = d + 1 /\ d \in Nat
        BY <1>2, <3>2, Typed, EndOfLog DEF Logged, Entries
      <4>3. d + 1 \in 1..d + 1
        BY <4>1
      <4>4. OnDisk(k, mem.log[k])'
        BY <1>5, <4>1, <4>3 DEF OnDisk, Logged
      <4>5. QED
        BY <1>2, <3>2, <4>4
    <3>3. QED
      BY <1>7, <3>1, <3>2
  <2>5. \A j \in 1..Len(mem.log) : EndAt(j) => LastSeq' < j \/ OnDisk(j, mem.log[j])'
    BY <2>3, <2>4
  <2>6. busy' = busy
    BY <1>3, <2>2
  <2>7. QED
    BY <1>1, <2>4, <2>5, <2>6
<1>15. QED
  BY <1>9, <1>10, <1>11, <1>12, <1>13, <1>14 DEF JInv, Inward, OnFile, Outward

-------------------------------------------------------------------------------
(* The steps that end the run, and recovery. *)

\* A deadline or a stop request ends a run that goes on, and leaves the others as
\* they ended.
LEMMA EndingRecord ==
    ASSUME IInv, IInv', JInv, NEW m \in Runs, NEW ev \in LogEvents, NEW w,
           core = "up", UNCHANGED <<core, acc, busy, dispatched, last>>,
           ev.type \in {"timeout_workflow", "cancel_workflow"},
           m.log = Append(mem.log, ev), m.cont = mem.cont, Ended(m),
           m.status = mem.status \/ ~Ended(mem),
           m.status # "succeeded" \/ mem.status = "succeeded",
           \A u \in Tasks : (m.task[u] = "succeeded") <=> Done(u),
           mem' = m, Outcome(w, Len(m.log), ev), Record(w, m, Len(m.log), ev),
           ~open' \/ m.status # "succeeded",
           \/ told' = told
           \/ /\ w = "done" /\ m.status = "timed_out" /\ ev.type = "timeout_workflow"
              /\ ToSet(told') \subseteq ToSet(told) \cup {Logged(Len(m.log), ev)}
    PROVE  JInv'
<1> DEFINE n == Len(mem.log)
           x == Logged(Len(m.log), ev)
<1>1. /\ Len(m.log) = n + 1 /\ n \in Nat /\ m.log[n + 1] = ev
      /\ \A i \in 1..n : m.log[i] = mem.log[i] /\ i \in 1..n + 1
      /\ \A i \in 1..n + 1 : i \in 1..n \/ i = n + 1
  BY Typed, EndOfLog
<1>2. /\ w = "done" => disk'.snap = Snap(m)
      /\ disk'.snap \in {disk.snap, Snap(m)}
  BY <1>1, RecordMore
<1>3. x.event = ev
  BY DEF Logged
<1> HIDE DEF x
<1>4. InTurn' /\ Caught' /\ Level' /\ Opened' /\ Closing'
  BY DEF JInv, Inward, InTurn, Caught, Level, Outward, Opened, Closing, Going, Sent
<1>5. \A u \in Tasks : Done(u)' = Done(u)
  BY DEF Done
<1>6. Succeeded' /\ AllDone'
  <2>1. \A u \in Tasks : Done(u) => disk'.snap.task[u] = "succeeded"
    BY <1>2 DEF JInv, OnFile, Succeeded, Snap
  <2>2. Succeeded'
    BY <1>5, <2>1 DEF JInv, OnFile, Succeeded
  <2>3. AllDone'
    BY <1>5 DEF JInv, OnFile, AllDone
  <2>4. QED
    BY <2>2, <2>3
<1>7. ToldKnown /\ EndKept /\ (EndTold => Ended(mem))
  BY EndKnownBy DEF JInv, OnFile
<1>8. \A y \in ToSet(told) : y.event.type \in {"task_exception", "timeout_workflow"} =>
         m.status = mem.status
  BY <1>7, ByEvents
<1>9. ToldKnown'
  <2> SUFFICES ASSUME NEW y \in ToSet(told')
               PROVE  /\ y.event.type = "finish_task" =>
                            y.event.task \in Tasks /\ Done(y.event.task)'
                      /\ y.event.type = "task_exception" => m.status \in {"failed", "timed_out"}
                      /\ y.event.type = "timeout_workflow" => m.status = "timed_out"
    BY DEF ToldKnown
  <2>1. CASE y \in ToSet(told)
    BY <1>5, <1>7, <1>8, <2>1 DEF ToldKnown
  <2>2. CASE y = x /\ m.status = "timed_out"
    BY <1>3, <2>2
  <2>3. QED
    BY <2>1, <2>2 DEF x
<1>10. EndKept'
  <2> SUFFICES ASSUME EndTold'
               PROVE  disk'.snap.status = m.status
    BY DEF EndKept
  <2>1. CASE w = "done"
    BY <1>2, <2>1 DEF Snap
  <2>2. CASE told' = told
    <3>1. EndTold
      BY <2>2 DEF EndTold
    <3>2. disk.snap.status = m.status
      BY <1>7, <3>1 DEF EndKept
    <3>3. QED
      BY <1>2, <3>2 DEF Snap
  <2>3. QED
    BY <2>1, <2>2
<1>11. Once' /\ InTime'
  BY SendsKept DEF JInv, Outward, Completed, Held
<1>12. EndShape'
  BY <1>1 DEF JInv, Outward, EndShape, EndAt, TheEnd, RunEvent, Event
<1>13. QED
  BY <1>4, <1>6, <1>9, <1>10, <1>11, <1>12 DEF JInv, Inward, OnFile, Outward

\* The runs that the sweep and a stop request make end no task that has succeeded.
LEMMA EndPendingDone ==
    ASSUME NEW m \in Runs, NEW end \in Endings \ {"succeeded"}
    PROVE  \A u \in Tasks : EndPending(m, end).task[u] = "succeeded" <=> m.task[u] = "succeeded"
BY DEF EndPending, Runs, Pending, Endings

\* The deadline sweep.
LEMMA SweepRecord ==
    ASSUME IInv, IInv', JInv, Sweep
    PROVE  JInv'
<1> DEFINE r == EndPending(mem, "timed_out")
           ev == RunEvent("timeout_workflow")
           m == Log(r, ev)
           k == Len(m.log)
<1>1. /\ r \in Runs /\ r.log = mem.log /\ r.cont = mem.cont /\ r.status = "timed_out"
      /\ \A u \in Tasks : r.task[u] = "succeeded" <=> mem.task[u] = "succeeded"
  BY Typed, EndPendingType, EndPendingDone DEF Endings
<1>2. ev \in LogEvents /\ ev.type = "timeout_workflow"
  BY EventTypes DEF Types, RunEvent, Event
<1> HIDE DEF r, ev
<1>3. /\ m \in Runs /\ m.log = Append(mem.log, ev) /\ m.cont = mem.cont
      /\ m.status = "timed_out" /\ m.task = r.task
  BY <1>1, <1>2, LogType DEF Log, Runs
<1>4. k = Len(mem.log) + 1 /\ k \in Nat /\ m.log[k] = ev
  BY <1>2, <1>3, Typed, EndOfLog
<1>5. /\ core = "up" /\ ~Ended(mem) /\ mem' = m
      /\ UNCHANGED <<core, acc, monitor, busy, open, dispatched, last, stops>>
  BY DEF Sweep, r, ev
<1>6. PICK w \in Failures \cup {"done", "conflict"} :
         /\ Outcome(w, k, m.log[k]) /\ Record(w, m, k, m.log[k])
         /\ IF w = "done" THEN Tell(k, m.log[k]) ELSE told' = told
  BY DEF Sweep, r, ev
<1> HIDE DEF m, k
<1>7. \/ told' = told
      \/ w = "done" /\ ToSet(told') \subseteq ToSet(told) \cup {Logged(k, ev)}
  BY <1>2, <1>4, <1>6, Typed, TellSaved
<1>8. Ended(m) /\ k = Len(m.log) /\ \A u \in Tasks : (m.task[u] = "succeeded") <=> Done(u)
  BY <1>1, <1>3 DEF Ended, Endings, Done, k
<1>9. QED
  BY <1>2, <1>3, <1>4, <1>5, <1>6, <1>7, <1>8, EndingRecord

\* A stop request.
LEMMA StopRecord ==
    ASSUME IInv, IInv', JInv, StopWorkflow
    PROVE  JInv'
<1> DEFINE r == IF Ended(mem) THEN mem ELSE EndPending(mem, "cancelled")
           ev == RunEvent("cancel_workflow")
           m == Log(r, ev)
           k == Len(m.log)
<1>1. /\ r \in Runs /\ r.log = mem.log /\ r.cont = mem.cont /\ Ended(r)
      /\ r.status = mem.status \/ ~Ended(mem)
      /\ r.status # "succeeded" \/ mem.status = "succeeded"
      /\ \A u \in Tasks : r.task[u] = "succeeded" <=> mem.task[u] = "succeeded"
  <2>1. CASE Ended(mem)
    BY <2>1, Typed
  <2>2. CASE ~Ended(mem)
    BY <2>2, Typed, EndPendingType, EndPendingDone DEF Endings, Ended
  <2>3. QED
    BY <2>1, <2>2
<1>2. ev \in LogEvents /\ ev.type = "cancel_workflow"
  BY EventTypes DEF Types, RunEvent, Event
<1> HIDE DEF r, ev
<1>3. /\ m \in Runs /\ m.log = Append(mem.log, ev) /\ m.cont = mem.cont
      /\ m.status = r.status /\ m.task = r.task
  BY <1>1, <1>2, LogType DEF Log, Runs
<1>4. k = Len(mem.log) + 1 /\ k \in Nat /\ m.log[k] = ev
  BY <1>2, <1>3, Typed, EndOfLog
<1>5. /\ core = "up" /\ mem' = m /\ open' = FALSE
      /\ UNCHANGED <<core, acc, monitor, busy, told, dispatched, last>>
  BY DEF StopWorkflow, r, ev
<1>6. PICK w : Outcome(w, k, m.log[k]) /\ Record(w, m, k, m.log[k])
  BY DEF StopWorkflow, r, ev
<1> HIDE DEF m, k
<1>7. Ended(m) /\ k = Len(m.log) /\ \A u \in Tasks : (m.task[u] = "succeeded") <=> Done(u)
  BY <1>1, <1>3 DEF Ended, Done, k
<1>8. QED
  BY <1>1, <1>2, <1>3, <1>4, <1>5, <1>6, <1>7, EndingRecord

\* Recovery's event is for the next process only.
LEMMA RecoverLogRecord ==
    ASSUME IInv, IInv', JInv, RecoverLog
    PROVE  JInv'
<1>1. /\ core = "down" /\ UNCHANGED <<core, mem, acc, monitor, busy, open, told, dispatched,
                                      orders, last, faults, stops>>
      /\ disk' = [disk EXCEPT !.log = Append(@, Logged(LastSeq + 1, Interrupt))]
  BY DEF RecoverLog
<1>2. disk'.snap = disk.snap
  BY <1>1, Typed DEF Disks
<1>3. InTurn' /\ Caught' /\ Level' /\ Opened' /\ Closing'
  BY <1>1 DEF JInv, Inward, InTurn, Caught, Level, Outward, Opened, Closing, Going, Sent
<1>4. \A u : Done(u)' = Done(u)
  BY <1>1 DEF Done
<1>5. EndTold' = EndTold /\ \A k : EndAt(k)' = EndAt(k)
  BY <1>1 DEF EndTold, EndAt
<1>6. Succeeded' /\ AllDone' /\ ToldKnown' /\ EndKept'
  BY <1>1, <1>2, <1>4, <1>5 DEF JInv, OnFile, Succeeded, AllDone, ToldKnown, EndKept
<1>7. Once' /\ InTime'
  BY <1>1, SendsKept DEF JInv, Outward, Completed, Held
<1>8. EndShape'
  BY <1>1, <1>5 DEF JInv, Outward, EndShape, TheEnd, RunEvent, Event
<1>9. QED
  BY <1>3, <1>6, <1>7, <1>8 DEF JInv, Inward, OnFile, Outward

\* Recovery cancels no task that has succeeded, and no end that was told.
LEMMA RecoverSaveRecord ==
    ASSUME IInv, IInv', JInv, RecoverSave
    PROVE  JInv'
<1> DEFINE tasks == [t \in Tasks |-> IF disk.snap.task[t] \in Pending THEN "cancelled"
                                     ELSE disk.snap.task[t]]
<1>1. /\ core = "down" /\ disk.snap.status \in Active
      /\ disk' = [disk EXCEPT !.snap.status = "interrupted", !.snap.task = tasks]
      /\ UNCHANGED <<core, mem, acc, monitor, busy, open, told, dispatched, orders, last,
                     faults, stops>>
  BY DEF RecoverSave
<1>2. \A t \in Tasks : disk.snap.task[t] = "succeeded" => tasks[t] = "succeeded"
  BY DEF Pending
<1> HIDE DEF tasks
<1>3. disk'.snap.task = tasks
  BY <1>1, Typed DEF Disks
<1>4. InTurn' /\ Caught' /\ Level' /\ Opened' /\ Closing'
  BY <1>1 DEF JInv, Inward, InTurn, Caught, Level, Outward, Opened, Closing, Going, Sent
<1>5. \A u : Done(u)' = Done(u)
  BY <1>1 DEF Done
<1>6. EndTold' = EndTold /\ \A k : EndAt(k)' = EndAt(k)
  BY <1>1 DEF EndTold, EndAt
<1>7. ~EndTold
  BY <1>1, EndKnownBy DEF JInv, OnFile, EndKept, Ended, Active, Endings
<1>8. Succeeded' /\ AllDone' /\ ToldKnown' /\ EndKept'
  BY <1>1, <1>2, <1>3, <1>5, <1>6, <1>7
     DEF JInv, OnFile, Succeeded, AllDone, ToldKnown, EndKept
<1>9. Once' /\ InTime'
  BY <1>1, SendsKept DEF JInv, Outward, Completed, Held
<1>10. EndShape'
  BY <1>1, <1>6 DEF JInv, Outward, EndShape, TheEnd, RunEvent, Event
<1>11. QED
  BY <1>4, <1>8, <1>9, <1>10 DEF JInv, Inward, OnFile, Outward

-------------------------------------------------------------------------------
(* The transaction. *)

\* What an event marks: the start, the retry or the failure of its task, or its
\* success, which queues the children that waited for it.
MarkedAs(m, ev) ==
    LET t == busy.task
        e == busy.event
    IN  /\ \A u \in Tasks \ {t} : m.cont[u] = mem.cont[u]
        /\ \A u \in Tasks \ {t} : \/ m.task[u] = mem.task[u]
                                  \/ mem.task[u] = "pending" /\ m.task[u] = "queued"
        /\ \/ /\ e.kind = "start" /\ ev.type = "start_task"
              /\ m.task[t] = "running" /\ m.cont[t] = mem.cont[t]
              /\ m.status \in {mem.status, "running"}
           \/ /\ e.kind = "retry" /\ ev.type = "task_retry"
              /\ m.task[t] = "queued" /\ m.cont[t] = mem.cont[t] /\ m.status = mem.status
           \/ /\ e.kind \in {"finish", "exception"} /\ ev.type = "task_exception"
              /\ m.status \in {"failed", "timed_out"}
              /\ m.task[t] = m.status /\ m.cont[t] = mem.cont[t]
           \/ /\ e.kind = "finish" /\ ev.type = "finish_task" /\ ev.task = t
              /\ m.task[t] = "succeeded" /\ m.cont[t].stage = "notify"
              /\ \/ m.status = mem.status
                 \/ m.status = "succeeded" /\ \A u \in Tasks : m.task[u] = "succeeded"

\* The marks of static_run.py, event by event.
LEMMA MarkedCases ==
    ASSUME TypeInv, busy # NoMsg
    PROVE  LET m == Marked(busy.task, busy.event)
           IN  \E ev \in LogEvents : m.log = Append(mem.log, ev) /\ MarkedAs(m, ev)
<1> DEFINE t == busy.task
           e == busy.event
<1>1. mem \in Runs /\ t \in Tasks /\ e.n \in Nat /\ e.kind \in Kinds
      /\ busy.end \in {"succeeded", "failed", "timed_out"}
      /\ (busy.end # "succeeded" => e.kind \in {"finish", "exception"})
      /\ (e.kind = "exception" => busy.end # "succeeded") /\ e.kind # "none"
  BY DEF TypeInv, RunOK, BusyOK, Runs
<1>2. \A type \in Types : /\ Event(type, t, e.n) \in LogEvents
                          /\ Event(type, t, e.n).type = type /\ Event(type, t, e.n).task = t
  BY <1>1, EventTypes DEF Event
<1>3. \A m \in Runs, ev \in LogEvents :
         /\ Log(m, ev).log = Append(m.log, ev) /\ Log(m, ev).cont = m.cont
         /\ Log(m, ev).task = m.task /\ Log(m, ev).status = m.status
  BY DEF Log, Runs
<1> SUFFICES \E ev \in LogEvents : /\ Marked(t, e).log = Append(mem.log, ev)
                                   /\ MarkedAs(Marked(t, e), ev)
  OBVIOUS
<1>4. CASE e.kind = "start"
  <2> DEFINE r == MarkStarted(mem, t)
             ev == Event("start_task", t, e.n)
  <2>1. /\ r \in Runs /\ r.log = mem.log /\ r.cont = mem.cont
        /\ r.task[t] = "running" /\ r.status \in {mem.status, "running"}
        /\ \A u \in Tasks \ {t} : r.task[u] = mem.task[u]
    BY <1>1 DEF MarkStarted, Runs, Statuses, TaskStates, Active, Pending
  <2>2. ev \in LogEvents /\ ev.type = "start_task"
    BY <1>2 DEF Types
  <2>3. Marked(t, e) = Log(r, ev)
    BY <1>1, <1>4 DEF Marked
  <2> HIDE DEF r, ev, t, e
  <2>4. /\ Marked(t, e).log = Append(mem.log, ev) /\ Marked(t, e).cont = mem.cont
        /\ Marked(t, e).task = r.task /\ Marked(t, e).status = r.status
    BY <1>3, <2>1, <2>2, <2>3
  <2>5. QED
    BY <1>4, <2>1, <2>2, <2>4 DEF MarkedAs, t, e
<1>5. CASE e.kind = "retry"
  <2> DEFINE r == MarkRetry(mem, t)
             ev == Event("task_retry", t, e.n)
  <2>1. /\ r \in Runs /\ r.log = mem.log /\ r.cont = mem.cont
        /\ r.task[t] = "queued" /\ r.status = mem.status
        /\ \A u \in Tasks \ {t} : r.task[u] = mem.task[u]
    BY <1>1 DEF MarkRetry, Runs, TaskStates, Pending
  <2>2. ev \in LogEvents /\ ev.type = "task_retry"
    BY <1>2 DEF Types
  <2>3. Marked(t, e) = Log(r, ev)
    BY <1>1, <1>5 DEF Marked
  <2> HIDE DEF r, ev, t, e
  <2>4. /\ Marked(t, e).log = Append(mem.log, ev) /\ Marked(t, e).cont = mem.cont
        /\ Marked(t, e).task = r.task /\ Marked(t, e).status = r.status
    BY <1>3, <2>1, <2>2, <2>3
  <2>5. QED
    BY <1>5, <2>1, <2>2, <2>4 DEF MarkedAs, t, e
<1>6. CASE e.kind \notin {"start", "retry"} /\ busy.end # "succeeded"
  <2> DEFINE r == MarkFailed(mem, t, busy.end)
             ev == Event("task_exception", t, e.n)
  <2>1. /\ r \in Runs /\ r.log = mem.log /\ r.cont = mem.cont
        /\ r.task[t] = r.status /\ r.status \in {"failed", "timed_out"}
        /\ \A u \in Tasks \ {t} : r.task[u] = mem.task[u]
    BY <1>1, <1>6 DEF MarkFailed, Runs, Statuses, TaskStates, Endings
  <2>2. ev \in LogEvents /\ ev.type = "task_exception"
    BY <1>2 DEF Types
  <2>3. Marked(t, e) = Log(r, ev) /\ e.kind \in {"finish", "exception"}
    BY <1>1, <1>6 DEF Marked
  <2> HIDE DEF r, ev, t, e
  <2>4. /\ Marked(t, e).log = Append(mem.log, ev) /\ Marked(t, e).cont = mem.cont
        /\ Marked(t, e).task = r.task /\ Marked(t, e).status = r.status
    BY <1>3, <2>1, <2>2, <2>3
  <2>5. QED
    BY <2>1, <2>2, <2>3, <2>4 DEF MarkedAs, t, e
<1>7. CASE e.kind \notin {"start", "retry"} /\ busy.end = "succeeded"
  <2> DEFINE f == MarkFinished(mem, t)
             r == Stage(f, t, "notify")
             ev == Event("finish_task", t, e.n)
  <2>1. /\ f \in Runs /\ f.log = mem.log /\ f.cont = mem.cont
        /\ f.task[t] = "succeeded"
        /\ \A u \in Tasks \ {t} : \/ f.task[u] = mem.task[u]
                                  \/ mem.task[u] = "pending" /\ f.task[u] = "queued"
    BY <1>1 DEF MarkFinished, Runs, Statuses, TaskStates, Endings, Pending
  <2>2. \/ f.status = mem.status
        \/ f.status = "succeeded" /\ \A u \in Tasks : f.task[u] = "succeeded"
    BY <1>1 DEF MarkFinished, Runs, TaskStates
  <2>3. /\ r \in Runs /\ r.log = f.log /\ r.task = f.task /\ r.status = f.status
        /\ r.cont[t].stage = "notify" /\ \A u \in Tasks \ {t} : r.cont[u] = f.cont[u]
    <3> HIDE DEF f, t
    <3>1. "notify" \in Stages /\ t \in Tasks
      BY <1>1 DEF Stages
    <3>2. QED
      BY <2>1, <3>1, StageType
  <2>4. ev \in LogEvents /\ ev.type = "finish_task" /\ ev.task = t
    BY <1>2 DEF Types
  <2>5. Marked(t, e) = Log(r, ev) /\ e.kind = "finish"
    BY <1>1, <1>7 DEF Marked, Stage, Kinds
  <2> HIDE DEF f, r, ev, t, e
  <2>6. /\ Marked(t, e).log = Append(mem.log, ev) /\ Marked(t, e).cont = r.cont
        /\ Marked(t, e).task = f.task /\ Marked(t, e).status = f.status
    BY <1>3, <2>1, <2>3, <2>4, <2>5
  <2>7. QED
    BY <2>1, <2>2, <2>3, <2>4, <2>5, <2>6 DEF MarkedAs, t, e
<1>8. QED
  BY <1>4, <1>5, <1>6, <1>7

\* The transaction: the run, its files and its marks change together, or the event
\* waits on disk to be written again; its number is never taken by another one.
LEMMA HandleRecord ==
    ASSUME IInv, IInv', JInv, Handle
    PROVE  JInv'
<1> DEFINE n == Len(mem.log)
           k == n + 1
<1>0. PICK t, e, m : t = busy.task /\ e = busy.event /\ m = Marked(busy.task, busy.event)
  OBVIOUS
<1>1. /\ core = "up" /\ busy # NoMsg /\ Accepted(t, e) /\ ~Ended(mem) /\ open
      /\ UNCHANGED <<core, open, dispatched, last, stops>>
  BY <1>0 DEF Handle
<1>2. /\ t \in Tasks /\ e.n \in Nat /\ m \in Runs /\ mem \in Runs /\ n \in Nat
  BY <1>0, <1>1, MarkedType, Typed DEF IInv, TypeInv, BusyOK
<1>3. PICK ev \in LogEvents : m.log = Append(mem.log, ev) /\ MarkedAs(m, ev)
  BY <1>0, <1>1, MarkedCases DEF IInv
<1>4. /\ Len(m.log) = k /\ m.log[k] = ev /\ k \in Nat
      /\ \A i \in 1..n : m.log[i] = mem.log[i]
      /\ \A i \in 1..k : i \in 1..n \/ i = k
  BY <1>2, <1>3, Typed, EndOfLog
<1>5. /\ \A u \in Tasks \ {t} : m.cont[u] = mem.cont[u]
      /\ \A u \in Tasks \ {t} : \/ m.task[u] = mem.task[u]
                                \/ mem.task[u] = "pending" /\ m.task[u] = "queued"
      /\ \/ /\ e.kind = "start" /\ ev.type = "start_task"
            /\ m.task[t] = "running" /\ m.cont[t] = mem.cont[t]
            /\ m.status \in {mem.status, "running"}
         \/ /\ e.kind = "retry" /\ ev.type = "task_retry"
            /\ m.task[t] = "queued" /\ m.cont[t] = mem.cont[t] /\ m.status = mem.status
         \/ /\ e.kind \in {"finish", "exception"} /\ ev.type = "task_exception"
            /\ m.status \in {"failed", "timed_out"}
            /\ m.task[t] = m.status /\ m.cont[t] = mem.cont[t]
         \/ /\ e.kind = "finish" /\ ev.type = "finish_task" /\ ev.task = t
            /\ m.task[t] = "succeeded" /\ m.cont[t].stage = "notify"
            /\ \/ m.status = mem.status
               \/ m.status = "succeeded" /\ \A u \in Tasks : m.task[u] = "succeeded"
  BY <1>0, <1>3 DEF MarkedAs
<1>6. /\ Going /\ InTurn /\ Caught /\ (Even \/ Ahead) /\ Succeeded /\ ToldKnown /\ EndKept
      /\ Opened /\ Once /\ InTime /\ EndShape
  BY <1>1 DEF JInv, Inward, OnFile, Outward, Level, Going
<1>7. /\ mem.cont[t].stage = "none" /\ InWork(t) /\ mem.status # "succeeded" /\ ~HasEnd
      /\ \A u \in Tasks : mem.cont[u].stage # "event"
  <2>1. acc[t].state # "terminal"
    BY <1>1 DEF Accepted
  <2>2. mem.cont[t].stage = "none"
    BY <1>2, <2>1 DEF IInv, Conts, Accounted
  <2>3. mem.status # "succeeded"
    BY <1>1 DEF Ended, Endings
  <2>4. ~HasEnd
    BY <2>3 DEF IInv, Conts, EndLate
  <2>5. QED
    BY <1>0, <1>1, <2>2, <2>3, <2>4 DEF IInv, Conts, EndThere, InWork
<1>8. PICK w \in Failures \cup {"done", "conflict"} :
         /\ Outcome(w, k, ev) /\ Record(w, m, k, ev)
         /\ IF w = "done"
            THEN /\ mem' = m
                 /\ acc' = [acc EXCEPT ![t] = [n |-> e.n, state |-> NewState(e)]]
                 /\ IF ev.type = "finish_task"
                    THEN busy' = busy /\ told' = told
                    ELSE busy' = NoMsg /\ Tell(k, ev)
            ELSE /\ UNCHANGED <<mem, acc, told, orders>>
                 /\ IF w = "conflict" THEN busy' = NoMsg
                    ELSE monitor' = "sleeping" /\ busy' = busy
  BY <1>0, <1>4 DEF Handle
<1>9. /\ LastSeq \in Nat /\ \A x \in ToSet(disk.log) : x.seq <= LastSeq
      /\ Logged(k, ev).seq = k /\ Logged(k, ev).event = ev
  BY LastIsMax DEF Logged
<1>10. w # "conflict"
  <2>1. Even => ~(k <= LastSeq)
    BY <1>2, <1>9 DEF Even
  <2>2. Ahead => OnDisk(k, ev)
    BY <1>0, <1>4 DEF Ahead
  <2>3. QED
    BY <1>6, <1>8, <2>1, <2>2 DEF Outcome, Conflict, Failures
<1>11. /\ \/ /\ disk'.log = disk.log /\ LastSeq' = LastSeq
          \/ /\ disk'.log = Append(disk.log, Logged(k, ev)) /\ LastSeq' = k
             /\ k > LastSeq
       /\ \/ disk'.snap = disk.snap /\ w # "done"
          \/ disk'.snap = Snap(m) /\ Logged(k, ev) \in ToSet(disk'.log)
  BY <1>4, <1>8, RecordMore
<1>12. \A u \in Tasks : Done(u) => u # t /\ m.task[u] = "succeeded"
  BY <1>2, <1>5, <1>6, <1>7 DEF Succeeded, Done
<1>13. ~EndTold /\ \A x \in ToSet(told) : x.event.type # "task_exception"
                                          /\ x.event.type # "timeout_workflow"
  <2>1. ~EndTold
    BY <1>1, <1>6, EndKnownBy
  <2>2. QED
    BY <2>1, ByEvents
<1>14. Succeeded' \/ w = "done"
  <2> SUFFICES ASSUME mem' = mem
               PROVE  Succeeded'
    BY <1>8
  <2>1. \A u \in Tasks : Done(u) => disk'.snap.task[u] = "succeeded"
    BY <1>6, <1>11, <1>12 DEF Succeeded, Snap
  <2>2. QED
    BY <1>6, <2>1 DEF Succeeded, Done
\* What is on disk of the finished tasks agrees with the marks.
<1>15. /\ \A u \in FinishedOnDisk : u \in Tasks /\ m.task[u] = "succeeded"
       /\ \A u \in FinishedOnDisk' : /\ m.task[u] = "succeeded" /\ u \in Tasks
                                     /\ disk'.log = disk.log => u \in FinishedOnDisk
  <2>1. \A u \in FinishedOnDisk : u \in Tasks /\ m.task[u] = "succeeded"
    <3>1. FinishedOnDisk \subseteq Tasks
      BY DEF FinishedOnDisk
    <3>2. QED
      BY <1>0, <1>6, <1>12, <3>1 DEF Even, Ahead
  <2> SUFFICES ASSUME NEW u \in FinishedOnDisk'
               PROVE  /\ m.task[u] = "succeeded" /\ u \in Tasks
                      /\ disk'.log = disk.log => u \in FinishedOnDisk
    BY <2>1
  <2>2. u \in Tasks /\ \E x \in ToSet(disk'.log) : /\ x.event.type = "finish_task"
                                                   /\ x.event.task = u
    BY ByEventsNext
  <2>3. CASE disk'.log = disk.log
    BY <2>1, <2>2, <2>3, ByEvents
  <2>4. CASE disk'.log = Append(disk.log, Logged(k, ev)) /\ disk'.log # disk.log
    <3>1. Logged(k, ev) \in Entries /\ disk.log \in Seq(Entries)
      BY <1>4, Typed DEF Logged, Entries
    <3>2. ToSet(disk'.log) = ToSet(disk.log) \cup {Logged(k, ev)}
      BY <2>4, <3>1, ToSetAppend
    <3>3. u \in FinishedOnDisk \/ (ev.type = "finish_task" /\ ev.task = u)
      BY <1>9, <2>2, <3>2, ByEvents
    <3>4. QED
      BY <1>5, <2>1, <2>2, <2>4, <3>3
  <2>5. QED
    BY <1>11, <2>3, <2>4
<1> HIDE DEF k, n
<1>16. CASE w = "done"
  <2>1. PICK y : y = Logged(k, ev)
    OBVIOUS
  <2>2. /\ mem' = m /\ acc' = [acc EXCEPT ![t] = [n |-> e.n, state |-> NewState(e)]]
        /\ \/ ev.type = "finish_task" /\ busy' = busy /\ told' = told
           \/ ev.type # "finish_task" /\ busy' = NoMsg /\ Tell(k, ev)
        /\ disk'.snap = Snap(m) /\ y \in ToSet(disk'.log)
    BY <1>8, <1>11, <1>16, <2>1
  <2>3. \A x \in ToSet(told') : x \in ToSet(told) \/ (ev.type # "finish_task" /\ x.event = ev)
    BY <1>3, <1>4, <1>9, <2>2, Typed, TellSaved
  <2>4. LastSeq' = k
    <3>1. CASE disk'.log = disk.log
      <4>1. LastSeq >= k
        BY <1>9, <2>1, <2>2, <3>1
      <4>2. Ahead
        BY <1>2, <1>6, <1>9, <4>1 DEF Even, k, n
      <4>3. QED
        BY <1>0, <1>4, <1>11, <3>1, <4>2 DEF Ahead
    <3>2. QED
      BY <1>11, <3>1
  <2>5. InTurn'
    BY <1>1, <1>6, <2>2 DEF InTurn, Sent
  <2>6. \A u \in Tasks : ~InWork(u)'
    BY <1>0, <1>5, <2>2 DEF InWork
  <2>7. Caught'
    <3> SUFFICES ASSUME ~Ended(mem)', NEW u \in Tasks
                 PROVE  Seen(u)'
      BY <2>6 DEF Caught, Going
    <3>1. CASE u = t
      <4>1. last[t] = e /\ last' = last
        BY <1>0, <1>1, <1>6 DEF InTurn
      <4>2. acc'[t] = [n |-> e.n, state |-> NewState(e)]
        BY <1>2, <2>2 DEF IInv, TypeInv, RunOK
      <4>3. m.status \notin {"failed", "timed_out"}
        BY <2>2 DEF Ended, Endings
      <4>4. CASE e.kind = "start"
        <5>1. NewState(e) = "running"
          BY <4>4 DEF NewState, PreDispatch
        <5>2. mem'.task[t] = "running"
          BY <1>5, <2>2, <4>4
        <5>3. acc'[t].state = "running" /\ acc'[t].n = e.n
          BY <4>2, <5>1
        <5>4. last'[t] = e
          BY <4>1
        <5>5. QED
          BY <3>1, <4>4, <5>2, <5>3, <5>4 DEF Seen
      <4>5. CASE e.kind = "retry"
        <5>1. NewState(e) = "retrying"
          BY <4>5 DEF NewState, PreDispatch
        <5>2. mem'.task[t] = "queued"
          BY <1>5, <2>2, <4>5
        <5>3. acc'[t].state = "retrying" /\ acc'[t].n = e.n
          BY <4>2, <5>1
        <5>4. last'[t] = e
          BY <4>1
        <5>5. QED
          BY <3>1, <4>5, <5>2, <5>3, <5>4 DEF Seen
      <4>6. CASE e.kind = "finish"
        BY <1>5, <2>2, <3>1, <4>1, <4>3, <4>6 DEF Seen, Done
      <4>7. QED
        BY <1>5, <4>3, <4>4, <4>5, <4>6
    <3>2. CASE u # t
      <4>1. Seen(u)
        BY <1>0, <1>6, <3>2 DEF Caught, InWork
      <4>2. /\ acc'[u] = acc[u] /\ last'[u] = last[u]
            /\ \/ mem'.task[u] = mem.task[u]
               \/ mem.task[u] = "pending" /\ mem'.task[u] = "queued"
        BY <1>1, <1>5, <2>2, <3>2 DEF IInv, TypeInv, RunOK
      <4>3. last[u].kind \in Kinds
        BY DEF IInv, TypeInv, StreamOK
      <4>4. mem'.task[u] = mem.task[u] \/ last[u].kind \in {"none", "exception"}
        BY <4>1, <4>2, <4>3 DEF Seen, Done, Kinds
      <4>5. QED
        BY <4>1, <4>2, <4>4 DEF Seen, Done
    <3>3. QED
      BY <3>1, <3>2
  <2>8. Level'
    <3>1. disk'.snap.status = mem'.status
      BY <2>2 DEF Snap
    <3>2. LastSeq' <= Len(mem'.log)
      BY <1>4, <2>2, <2>4
    <3>3. \A u \in FinishedOnDisk' : Done(u)'
      BY <1>15, <2>2 DEF Done
    <3>4. QED
      BY <3>1, <3>2, <3>3 DEF Level, Even
  <2>9. Succeeded'
    <3>1. \A u \in Tasks : mem'.task[u] = "succeeded" => disk'.snap.task[u] = "succeeded"
      BY <2>2 DEF Snap
    <3>2. \A u \in Tasks : mem'.task[u] = "succeeded" <=> mem'.cont[u].stage # "none"
      <4> SUFFICES ASSUME NEW u \in Tasks
                   PROVE  m.task[u] = "succeeded" <=> m.cont[u].stage # "none"
        BY <2>2
      <4>1. CASE u = t
        BY <1>5, <1>7, <4>1
      <4>2. CASE u # t
        BY <1>5, <1>6, <4>2 DEF Succeeded, Done
      <4>3. QED
        BY <4>1, <4>2
    <3>3. QED
      BY <3>1, <3>2 DEF Succeeded, Done
  <2>10. AllDone'
    BY <1>5, <1>7, <2>2 DEF AllDone, Done
  <2>11. ToldKnown'
    <3> SUFFICES ASSUME NEW x \in ToSet(told')
                 PROVE  /\ x.event.type = "finish_task" =>
                              x.event.task \in Tasks /\ Done(x.event.task)'
                        /\ x.event.type = "task_exception" => m.status \in {"failed", "timed_out"}
                        /\ x.event.type = "timeout_workflow" => m.status = "timed_out"
      BY <2>2 DEF ToldKnown
    <3>1. CASE x \in ToSet(told)
      BY <1>6, <1>12, <1>13, <2>2, <3>1 DEF ToldKnown, Done
    <3>2. CASE ev.type # "finish_task" /\ x.event = ev
      BY <1>5, <3>2
    <3>3. QED
      BY <2>3, <3>1, <3>2
  <2>12. EndKept'
    BY <2>2 DEF EndKept, Snap
  <2>13. Opened'
    BY <1>1 DEF Opened
  <2>14. Once' /\ InTime'
    <3>1. \A u \in Tasks : m.cont[u] = mem.cont[u] \/ (u = t /\ m.cont[t].stage = "notify")
      BY <1>5
    <3>2. \A u \in Tasks : Completed(u)' = Completed(u)
      BY <1>7, <2>2, <3>1 DEF Completed
    <3>3. \A u, c \in Tasks : Held(u, c)' = Held(u, c)
      BY <1>7, <2>2, <3>1 DEF Held
    <3>4. QED
      BY <1>1, <1>6, <3>2, <3>3, SendsKept
  <2>15. \A j \in 1..Len(mem'.log) : ~EndAt(j)'
    BY <1>4, <1>5, <1>7, <2>2 DEF EndAt, HasEnd, n
  <2>16. EndShape'
    BY <2>15 DEF EndShape
  <2>17. Closing'
    <3> SUFFICES ASSUME m.status = "succeeded"
                 PROVE  /\ LastSeq' <= Len(m.log)
                        /\ busy' # NoMsg /\ m.cont[busy'.task].stage \in Early
      BY <2>2, <2>15 DEF Closing
    <3>1. ev.type = "finish_task" /\ m.cont[t].stage = "notify"
      BY <1>5, <1>7
    <3>2. QED
      BY <1>0, <1>1, <1>4, <2>2, <2>4, <3>1 DEF Early
  <2>18. QED
    BY <2>5, <2>7, <2>8, <2>9, <2>10, <2>11, <2>12, <2>13, <2>14, <2>16, <2>17
       DEF JInv, Inward, OnFile, Outward
<1>17. CASE w # "done"
  <2>1. /\ UNCHANGED <<core, mem, acc, busy, open, told, dispatched, orders, last>>
        /\ monitor' = "sleeping"
    BY <1>1, <1>8, <1>10, <1>17
  <2>2. Going' /\ InTurn' /\ Opened' /\ Closing'
    BY <1>6, <1>7, <2>1 DEF Going, Ended, InTurn, Opened, Closing, Sent
  <2>3. \A u : Done(u)' = Done(u)
    BY <2>1 DEF Done
  <2>4. Caught'
    <3> SUFFICES ASSUME NEW u \in Tasks
                 PROVE  IF InWork(u)' THEN Welcome(u)' ELSE Seen(u)'
      BY DEF Caught
    <3>1. InWork(u)' = InWork(u) /\ Seen(u)' = Seen(u) /\ Welcome(u)' = Welcome(u)
      BY <2>1, <2>3 DEF InWork, Seen, Welcome, Accepted, PreDispatch
    <3>2. QED
      BY <1>6, <3>1 DEF Caught
  <2>5. Level'
    <3>1. Marked(busy.task, busy.event)' = m /\ InWork(busy.task)'
      <4>1. Marked(busy.task, busy.event)' = Marked(busy.task, busy.event)
        BY <2>1 DEF Marked, Log, MarkStarted, MarkRetry, MarkFailed, MarkFinished, Event, Children
      <4>2. QED
        BY <1>0, <1>7, <2>1, <4>1 DEF InWork
    <3>2. Accepted(busy.task, busy.event)'
      BY <1>0, <1>1, <2>1 DEF Accepted, PreDispatch
    <3>3. disk'.snap = disk.snap \/ (disk'.snap.status = m.status /\ Logged(k, ev) \in ToSet(disk'.log))
      BY <1>11 DEF Snap
    <3>4. CASE disk'.log = disk.log /\ LastSeq' = LastSeq
      <4>1. CASE Even
        <5>1. Logged(k, ev) \notin ToSet(disk'.log)
          BY <1>2, <1>9, <3>4, <4>1 DEF Even, k, n
        <5>2. disk'.snap = disk.snap
          BY <3>3, <5>1
        <5>3. \A u \in FinishedOnDisk' : Done(u)'
          BY <1>15, <2>3, <3>4, <4>1 DEF Even
        <5>4. Even'
          BY <2>1, <3>4, <4>1, <5>2, <5>3 DEF Even
        <5>5. QED
          BY <5>4 DEF Level
      <4>2. CASE Ahead
        <5>1. LastSeq = k /\ OnDisk(k, ev) /\ disk.snap.status \in {mem.status, m.status}
          BY <1>0, <1>4, <4>2 DEF Ahead
        <5>2. LastSeq' = k /\ disk'.snap.status \in {mem.status, m.status}
          BY <3>3, <3>4, <5>1
        <5>3. \E i \in 1..Len(disk'.log) : disk'.log[i] = Logged(k, ev)
          BY <3>4, <5>1 DEF OnDisk
        <5>4. Ahead'
          BY <1>1, <1>4, <1>15, <2>1, <3>1, <3>2, <5>2, <5>3 DEF Ahead, OnDisk, Logged
        <5>5. QED
          BY <5>4 DEF Level
      <4>3. QED
        BY <1>6, <4>1, <4>2
    <3>5. CASE disk'.log = Append(disk.log, Logged(k, ev)) /\ LastSeq' = k /\ k > LastSeq
      <4>1. Even
        BY <1>0, <1>4, <1>6, <1>9, <3>5 DEF Ahead
      <4>2. disk'.snap.status \in {mem.status, m.status}
        BY <3>3, <4>1 DEF Even
      <4>3. \E i \in 1..Len(disk'.log) : disk'.log[i] = Logged(k, ev)
        <5>1. Logged(k, ev) \in Entries /\ disk.log \in Seq(Entries)
          BY <1>4, Typed DEF Logged, Entries
        <5>2. /\ Len(disk'.log) = Len(disk.log) + 1 /\ Len(disk.log) \in Nat
              /\ disk'.log[Len(disk.log) + 1] = Logged(k, ev)
          BY <3>5, <5>1, EndOfLog
        <5>3. QED
          BY <5>2
      <4>4. Ahead'
        BY <1>1, <1>4, <1>15, <2>1, <3>1, <3>2, <3>5, <4>2, <4>3 DEF Ahead, OnDisk, Logged
      <4>5. QED
        BY <4>4 DEF Level
    <3>6. QED
      BY <1>11, <3>4, <3>5
  <2>6. Succeeded' /\ AllDone' /\ ToldKnown' /\ EndKept'
    <3>1. EndTold' = EndTold
      BY <2>1 DEF EndTold
    <3>2. QED
      BY <1>6, <1>7, <1>13, <1>14, <1>17, <2>1, <2>3, <3>1 DEF AllDone, ToldKnown, EndKept
  <2>7. Once' /\ InTime'
    BY <1>6, <2>1, SendsKept DEF Completed, Held
  <2>8. EndShape'
    BY <1>6, <2>1 DEF EndShape, EndAt, TheEnd, RunEvent, Event
  <2>9. QED
    BY <2>2, <2>4, <2>5, <2>6, <2>7, <2>8 DEF JInv, Inward, OnFile, Outward
<1>18. QED
  BY <1>16, <1>17

-------------------------------------------------------------------------------
(* The invariant. *)

\* A run starts with its roots sent, and nothing but its first event on disk.
LEMMA InitRecord == Init => JInv
<1> SUFFICES ASSUME Init
             PROVE  JInv
  OBVIOUS
<1> DEFINE first == RunEvent("start_workflow")
           x == Logged(1, first)
<1>1. IInv
  BY InitInv
<1>2. /\ core = "up" /\ busy = NoMsg /\ open = TRUE
      /\ mem.status = "created" /\ mem.log = <<first>>
      /\ mem.task = [t \in Tasks |-> IF t \in Roots THEN "queued" ELSE "pending"]
      /\ mem.cont = [t \in Tasks |-> [stage |-> "none", todo |-> {}]]
      /\ acc = [t \in Tasks |-> [n |-> 0, state |-> "none"]]
      /\ disk.log = <<x>> /\ disk.snap = Snap(mem) /\ told = <<>>
      /\ dispatched = SetToSeq(Roots)
      /\ last = [t \in Tasks |-> [kind |-> "none", n |-> 0, known |-> TRUE]]
  BY DEF Init, Stream!Init, Snap
<1>3. x.seq = 1 /\ x.event = first /\ first.type = "start_workflow"
  BY DEF Logged, RunEvent, Event
<1> HIDE DEF first, x
<1>4. /\ \A t \in Tasks : /\ mem.task[t] \in {"pending", "queued"} /\ ~Done(t)
                          /\ mem.cont[t].stage = "none"
                          /\ acc[t].state = "none" /\ last[t].kind = "none"
      /\ Len(mem.log) = 1 /\ LastSeq = 1 /\ ToSet(told) = {} /\ ToSet(disk.log) = {x}
  BY <1>2, <1>3 DEF Done, LastSeq, ToSet
<1>5. FinishedOnDisk = {} /\ ~EndTold
  <2>1. \A t : t \notin FinishedOnDisk
    BY <1>1, <1>3, <1>4, ByEvents
  <2>2. QED
    BY <1>1, <1>4, <2>1, ByEvents
<1>6. Inward
  BY <1>2, <1>4 DEF Inward, InTurn, Caught, InWork, Seen
<1>7. OnFile
  BY <1>2, <1>4, <1>5 DEF OnFile, Level, Even, Succeeded, AllDone, ToldKnown, EndKept, Snap
<1>8. Once /\ InTime
  <2>1. Once /\ \A c : Sent(c) <=> c \in Roots
    BY <1>2, RootsInOrder DEF Once, Sent
  <2>2. \A c \in Tasks : Parents[c] \subseteq Tasks
    BY GraphAssumption
  <2>3. \A c \in Tasks : Due(c) <=> c \in Roots
    BY <1>4, <2>2 DEF Due, Completed, Roots
  <2>4. \A t, c \in Tasks : ~Held(t, c)
    BY <1>4 DEF Held
  <2>5. QED
    BY <2>1, <2>3, <2>4 DEF InTime
<1>9. Opened /\ Closing /\ EndShape
  <2>1. Opened /\ Closing
    BY <1>2 DEF Opened, Closing, Going
  <2>2. \A k \in 1..Len(mem.log) : mem.log[k] = first
    <3>1. \A k \in 1..1 : k = 1
      OBVIOUS
    <3>2. mem.log[1] = first
      BY <1>2
    <3>3. QED
      BY <1>4, <3>1, <3>2
  <2>3. EndShape
    BY <1>3, <2>2 DEF EndShape, EndAt
  <2>4. QED
    BY <2>1, <2>3
<1>10. QED
  BY <1>6, <1>7, <1>8, <1>9 DEF JInv, Outward

\* Every step preserves it, given that it preserves the first.
LEMMA NextRecord ==
    ASSUME IInv, IInv', SentOK, JInv, [Next]_vars
    PROVE  JInv'
<1>1. CASE Monitor
  <2>1. CASE Drop
    BY <2>1, DropRecord
  <2>2. CASE Handle
    BY <2>2, HandleRecord
  <2>3. ASSUME NEW t \in Tasks,
               \/ Notify(t) \/ Advance(t) \/ DispatchDone(t) \/ WriteEnd(t)
               \/ TellEnd(t) \/ Clear(t) \/ Complete(t)
        PROVE  JInv'
    BY <2>3, NotifyRecord, AdvanceRecord, DispatchDoneRecord, WriteEndRecord, TellEndRecord,
       ClearRecord, CompleteRecord
  <2>4. ASSUME NEW t \in Tasks, NEW c \in Tasks, Dispatch(t, c)
        PROVE  JInv'
    BY <2>4, DispatchRecord DEF SentOK
  <2>5. QED
    BY <1>1, <2>1, <2>2, <2>3, <2>4 DEF Monitor
<1>2. CASE Sweep
  BY <1>2, SweepRecord
<1>3. CASE StopWorkflow
  BY <1>3, StopRecord
<1>4. CASE Crash
  BY <1>4, DownRecord DEF Crash
<1>5. CASE RecoverLog
  BY <1>5, RecoverLogRecord
<1>6. CASE RecoverSave
  BY <1>6, RecoverSaveRecord
<1>7. CASE Recovered
  <2>1. /\ core' # "up" /\ last' = last /\ busy' = busy
        /\ UNCHANGED <<mem, acc, disk, told, dispatched, orders>> /\ core # "up"
    BY <1>7 DEF Recovered
  <2>2. InTurn' /\ Caught' /\ Level' /\ Opened' /\ Closing'
    BY <2>1 DEF JInv, Inward, InTurn, Caught, Level, Opened, Closing, Going, Sent
  <2>3. QED
    BY <2>1, <2>2, QuietRecord DEF JInv, Inward, OnFile, Outward
<1>8. ASSUME NEW t \in Tasks, Arrive(t)
      PROVE  JInv'
  BY <1>8, ArriveRecord
<1>9. CASE UNCHANGED vars
  <2>1. UNCHANGED <<core, mem, acc, monitor, busy, disk, open, told, dispatched, orders, last,
                    faults, stops>>
    BY <1>9 DEF vars
  <2>2. InTurn' = InTurn /\ Caught' = Caught
    BY <2>1 DEF InTurn, Caught, Sent, Going, Ended, InWork, Welcome, Seen, Accepted,
                PreDispatch, Done
  <2>3. Level' = Level
    <3>1. Marked(busy.task, busy.event)' = Marked(busy.task, busy.event)
      BY <2>1 DEF Marked, Log, MarkStarted, MarkRetry, MarkFailed, MarkFinished, Event, Children
    <3>2. LastSeq' = LastSeq /\ FinishedOnDisk' = FinishedOnDisk /\ Going' = Going
      BY <2>1 DEF LastSeq, FinishedOnDisk, Going, Ended
    <3>3. Ahead' = Ahead
      BY <2>1, <3>1, <3>2 DEF Ahead, InWork, Accepted, PreDispatch, OnDisk, Logged
    <3>4. QED
      BY <2>1, <3>2, <3>3, QuietRecord DEF Level
  <2>4. Opened' = Opened
    BY <2>1 DEF Opened, Going, Ended
  <2>5. Closing' = Closing
    BY <2>1 DEF Closing, LastSeq, EndAt, OnDisk, Logged, ToldEnd, TheEnd, RunEvent, Event
  <2>6. QED
    BY <2>1, <2>2, <2>3, <2>4, <2>5, QuietRecord DEF JInv, Inward, OnFile, Outward
<1>10. QED
  BY <1>1, <1>2, <1>3, <1>4, <1>5, <1>6, <1>7, <1>8, <1>9 DEF Next

\* The second inductive invariant: the run in memory follows the messages received,
\* the files follow the run, and the messages sent follow both.
THEOREM RecordInvariance == Spec => []JInv
<1> DEFINE Inv == IInv /\ SentOK /\ JInv
<1>1. Init => Inv
  BY InitInv, SentType, InitRecord
<1>2. Inv /\ [Next]_vars => Inv'
  <2> SUFFICES ASSUME IInv, SentOK, JInv, [Next]_vars
               PROVE  Inv'
    OBVIOUS
  <2>1. IInv'
    BY NextInv
  <2>2. SentOK'
    BY SentType
  <2>3. JInv'
    BY <2>1, NextRecord
  <2>4. QED
    BY <2>1, <2>2, <2>3
<1>3. Inv => JInv
  OBVIOUS
<1> HIDE DEF Inv
<1>4. QED
  BY <1>1, <1>2, <1>3, PTL DEF Spec

-------------------------------------------------------------------------------
(* The safety properties. *)

\* Whatever a subscriber was told of a finished task or of the end, run.json says
\* too, after any later failure of a write, stop request, crash and recovery
\* (_record_static_event and _finish_static_workflow save before they publish).
THEOREM ToldStaysTrue == Spec => []ToldAgrees
<1>1. IInv /\ JInv => ToldAgrees
  <2> SUFFICES ASSUME IInv, JInv, NEW i \in 1..Len(told)
               PROVE  LET ev == told[i].event
                      IN  CASE ev.type = "finish_task"      -> disk.snap.task[ev.task] = "succeeded"
                            [] ev.type = "task_exception"   ->
                                 disk.snap.status \in {"failed", "timed_out"}
                            [] ev.type = "finish_workflow"  -> disk.snap.status = "succeeded"
                            [] ev.type = "timeout_workflow" -> disk.snap.status = "timed_out"
                            [] OTHER -> TRUE
    BY DEF ToldAgrees
  <2>1. PICK x \in ToSet(told) : x = told[i]
    BY Typed DEF ToSet
  <2>2. x.event.type \in {"task_exception", "finish_workflow", "timeout_workflow"} =>
           disk.snap.status = mem.status
    BY ByEvents DEF JInv, OnFile, EndKept
  <2>3. x.event.type = "finish_workflow" => mem.status = "succeeded"
    BY EndKnownBy DEF JInv, OnFile
  <2>4. /\ x.event.type = "finish_task" => disk.snap.task[x.event.task] = "succeeded"
        /\ x.event.type = "task_exception" => mem.status \in {"failed", "timed_out"}
        /\ x.event.type = "timeout_workflow" => mem.status = "timed_out"
    BY DEF JInv, OnFile, ToldKnown, Succeeded
  <2>5. QED
    BY <2>1, <2>2, <2>3, <2>4
<1>2. QED
  BY <1>1, Invariance, RecordInvariance, PTL

\* Between two messages every task of a run that goes on is as its last event says:
\* what the transaction undid was handled again, and nothing was missed.
THEOREM EventsCaughtUp == Spec => []CaughtUp
<1>1. IInv /\ JInv => CaughtUp
  <2> SUFFICES ASSUME IInv, JInv, core = "up", monitor = "idle", ~Ended(mem), NEW t \in Tasks
               PROVE  CASE last[t].kind = "none"      -> mem.task[t] \in {"pending", "queued"}
                        [] last[t].kind = "start"     -> mem.task[t] = "running"
                        [] last[t].kind = "retry"     -> mem.task[t] = "queued"
                        [] last[t].kind = "finish"    -> mem.task[t] = "succeeded"
                        [] last[t].kind = "exception" -> ~last[t].known
    BY DEF CaughtUp
  <2>1. busy = NoMsg
    BY DEF IInv, Conts, InHand
  <2>2. Seen(t)
    BY <2>1 DEF JInv, Inward, Caught, InWork, Going
  <2>3. last[t].kind \in Kinds
    BY DEF IInv, TypeInv, StreamOK
  <2>4. QED
    BY <2>2, <2>3 DEF Seen, Done, Kinds
<1>2. QED
  BY <1>1, Invariance, RecordInvariance, PTL

\* No task is forgotten and none is sent twice, and the success of a run is told
\* and the Scheduler cleared (Workflow.finish_task, _dispatch_static_tasks and the
\* stages of finish_continuations).
THEOREM DispatchesExact == Spec => []DispatchExact
<1>1. IInv /\ JInv => DispatchExact
  <2> SUFFICES ASSUME IInv, JInv
               PROVE  DispatchExact
    OBVIOUS
  <2>1. core = "up" /\ monitor = "idle" =>
           busy = NoMsg /\ \A t \in Tasks : mem.cont[t].stage \notin Hands
    BY DEF IInv, Conts, InHand
  <2>2. ASSUME core = "up", monitor = "idle", ~Ended(mem), NEW t \in Tasks
        PROVE  t \in ToSet(dispatched) <=> \A p \in Parents[t] : mem.task[p] = "succeeded"
    <3>1. Parents[t] \subseteq Tasks
      BY GraphAssumption
    <3>2. \A p \in Tasks : Completed(p) <=> Done(p)
      BY <2>1, <2>2 DEF JInv, OnFile, Succeeded, Completed, Hands
    <3>3. Due(t) <=> \A p \in Parents[t] : mem.task[p] = "succeeded"
      BY <3>1, <3>2 DEF Due, Done
    <3>4. Sent(t) <=> Due(t)
      BY <2>1, <2>2, <3>1 DEF JInv, Outward, InTime, Held, Hands
    <3>5. QED
      BY <3>3, <3>4 DEF Sent
  <2>3. ASSUME core = "up", monitor = "idle", mem.status = "succeeded", open
        PROVE  "clear_workflow" \in orders
               /\ \E i \in 1..Len(told) : told[i].event = RunEvent("finish_workflow")
    <3>1. ToldEnd /\ "clear_workflow" \in orders
      BY <2>1, <2>3 DEF JInv, Outward, Closing
    <3>2. DOMAIN told = 1..Len(told)
      BY Typed
    <3>3. QED
      BY <3>1, <3>2 DEF ToldEnd, TheEnd, ToSet
  <2>4. QED
    BY <2>2, <2>3 DEF DispatchExact, JInv, Outward, Once
<1>2. QED
  BY <1>1, Invariance, RecordInvariance, PTL

-------------------------------------------------------------------------------
(* The refinement of RunLifecycle. *)

\* An event on disk is a finish or leaves the finished tasks as they are.
LEMMA FinishedAppend ==
    ASSUME IInv, IInv', NEW ev \in LogEvents, NEW k \in Nat,
           disk'.log = Append(disk.log, Logged(k, ev))
    PROVE  FinishedOnDisk' = FinishedOnDisk
                             \cup {u \in Tasks : ev.type = "finish_task" /\ ev.task = u}
<1>1. Logged(k, ev) \in Entries /\ disk.log \in Seq(Entries) /\ Logged(k, ev).event = ev
  BY Typed DEF Logged, Entries
<1>2. ToSet(disk'.log) = ToSet(disk.log) \cup {Logged(k, ev)}
  BY <1>1, ToSetAppend
<1>3. QED
  BY <1>1, <1>2, ByEvents, ByEventsNext

\* The same for what was told.
LEMMA EndToldSame ==
    ASSUME IInv, IInv', ToSet(told) \subseteq ToSet(told'),
           \A x \in ToSet(told') : \/ x \in ToSet(told)
                                   \/ x.event.type \notin {"task_exception", "finish_workflow",
                                                           "timeout_workflow"}
    PROVE  EndTold' = EndTold
<1>1. EndTold' <=> EndTold
  BY ByEvents, ByEventsNext
<1>2. EndTold \in BOOLEAN /\ EndTold' \in BOOLEAN
  BY DEF EndTold
<1>3. QED
  BY <1>1, <1>2

\* Telling adds to what was told.
LEMMA TellMore ==
    ASSUME IInv, NEW k \in Nat, NEW ev \in LogEvents, Tell(k, ev)
    PROVE  ToSet(told) \subseteq ToSet(told')
           /\ \A x \in ToSet(told') : x \in ToSet(told) \/ x.event = ev
<1>1. Logged(k, ev) \in Entries /\ told \in Seq(Entries) /\ Logged(k, ev).event = ev
  BY Typed DEF Logged, Entries
<1>2. ToSet(Append(told, Logged(k, ev))) = ToSet(told) \cup {Logged(k, ev)}
  BY <1>1, ToSetAppend
<1>3. QED
  BY <1>1, <1>2 DEF Tell

\* A step that finishes and sends nothing stutters, or ends the run before its
\* end was told.
LEMMA PromisedEnd ==
    ASSUME FinishedOnDisk' = FinishedOnDisk, dispatched' = dispatched,
           \/ disk'.snap.status = disk.snap.status /\ EndTold' = EndTold
           \/ /\ ~EndTold /\ disk'.snap.status \in Endings
              /\ disk'.snap.status = "succeeded" => FinishedOnDisk = Tasks
    PROVE  [Promise!Next]_(Promise!vars)
<1>1. CASE disk'.snap.status = disk.snap.status /\ EndTold' = EndTold
  BY <1>1 DEF Promise!vars
<1>2. CASE /\ ~EndTold /\ disk'.snap.status \in Endings
           /\ disk'.snap.status = "succeeded" => FinishedOnDisk = Tasks
  <2>1. EndTold' \in BOOLEAN
    BY DEF EndTold
  <2>2. Promise!End(disk'.snap.status)
    BY <1>2, <2>1 DEF Promise!End
  <2>3. disk'.snap.status \in Promise!Endings
    BY <1>2 DEF Endings, Promise!Endings
  <2>4. QED
    BY <2>2, <2>3 DEF Promise!Next
<1>3. QED
  BY <1>1, <1>2

\* Steps that leave the files and the messages alone stutter.
LEMMA PromiseStutters ==
    ASSUME UNCHANGED <<disk, told, dispatched>>
    PROVE  [Promise!Next]_(Promise!vars)
<1>1. FinishedOnDisk' = FinishedOnDisk /\ EndTold' = EndTold
  BY DEF FinishedOnDisk, EndTold
<1>2. QED
  BY <1>1, PromisedEnd

\* A save in a continuation changes the status on disk only to an end that the
\* subscribers do not know, because its own write had failed.
LEMMA SaveChange ==
    ASSUME IInv, JInv, core = "up", busy # NoMsg, mem.cont[busy.task].stage # "none",
           NEW s \in {disk.snap.status, mem.status}
    PROVE  s = disk.snap.status \/ (~EndTold /\ s \in Endings \ {"succeeded"})
<1> SUFFICES ASSUME mem.status # disk.snap.status
             PROVE  ~EndTold /\ mem.status \in Endings \ {"succeeded"}
  OBVIOUS
<1>1. Level /\ EndKept
  BY DEF JInv, OnFile
<1>2. Ended(mem)
  BY <1>1 DEF Level, Going, Even, Ahead, InWork
<1>3. ~EndTold
  BY <1>1 DEF EndKept
<1>4. mem.status # "succeeded"
  BY DEF IInv, Saves, SuccessSaved
<1>5. QED
  BY <1>2, <1>3, <1>4 DEF Ended

\* The steps that only save.
LEMMA PromisedSave ==
    ASSUME IInv, IInv', JInv, core = "up", busy # NoMsg, mem.cont[busy.task].stage # "none",
           NEW w, NEW m \in Runs, m.status = mem.status, SaveOutcome(w), Save(w, m),
           EndTold' = EndTold, dispatched' = dispatched
    PROVE  [Promise!Next]_(Promise!vars)
<1>1. disk'.log = disk.log /\ disk'.snap \in {disk.snap, Snap(m)}
  BY StageSaved
<1>2. disk'.snap.status \in {disk.snap.status, mem.status}
  BY <1>1 DEF Snap
<1>3. FinishedOnDisk' = FinishedOnDisk
  BY <1>1 DEF FinishedOnDisk
<1>4. QED
  BY <1>2, <1>3, SaveChange, PromisedEnd

\* The stages that tell nothing of an end and send nothing.
LEMMA StagePromised ==
    ASSUME IInv, IInv', JInv, NEW t \in Tasks,
           Notify(t) \/ Advance(t) \/ Clear(t) \/ Complete(t)
    PROVE  [Promise!Next]_(Promise!vars)
<1>1. mem \in Runs /\ \A stage \in Stages : /\ Stage(mem, t, stage) \in Runs
                                           /\ Stage(mem, t, stage).status = mem.status
  BY Typed, StageType
<1>2. CASE Notify(t)
  <2> DEFINE k == Seq1("finish_task", t)
             ev == mem.log[k]
  <2>1. /\ core = "up" /\ busy # NoMsg /\ busy.task = t /\ mem.cont[t].stage = "notify"
        /\ Tell(k, ev) /\ SaveStage(Stage(mem, t, "advance")) /\ dispatched' = dispatched
    BY <1>2 DEF Notify, At
  <2>2. k \in Nat /\ ev \in LogEvents /\ ev.type = "finish_task"
    BY <2>1, Typed, Seq1Type DEF IInv, Conts, Accounted
  <2> HIDE DEF k, ev
  <2>3. EndTold' = EndTold
    BY <2>1, <2>2, TellMore, EndToldSame
  <2>4. QED
    BY <1>1, <2>1, <2>3, PromisedSave DEF SaveStage, Saved, Stages
<1>3. CASE Advance(t)
  <2> DEFINE m == [mem EXCEPT !.cont[t] = [stage |-> "dispatch", todo |-> Ready(t)]]
  <2>1. /\ core = "up" /\ busy # NoMsg /\ busy.task = t /\ mem.cont[t].stage = "advance"
        /\ SaveStage(m) /\ dispatched' = dispatched /\ told' = told
    BY <1>3 DEF Advance, At
  <2>2. m \in Runs /\ m.status = mem.status
    BY <1>1 DEF Runs, Ready, Children, Stages
  <2> HIDE DEF m
  <2>3. EndTold' = EndTold
    BY <2>1 DEF EndTold
  <2>4. QED
    BY <2>1, <2>2, <2>3, PromisedSave DEF SaveStage, Saved
<1>4. CASE Clear(t)
  <2>1. /\ core = "up" /\ busy # NoMsg /\ busy.task = t /\ mem.cont[t].stage = "clear"
        /\ SaveStage(Stage(mem, t, "completed")) /\ dispatched' = dispatched /\ told' = told
    BY <1>4 DEF Clear, At
  <2>2. EndTold' = EndTold
    BY <2>1 DEF EndTold
  <2>3. QED
    BY <1>1, <2>1, <2>2, PromisedSave DEF SaveStage, Saved, Stages
<1>5. CASE Complete(t)
  <2>1. /\ core = "up" /\ busy # NoMsg /\ busy.task = t /\ mem.cont[t].stage = "completed"
        /\ \E w : SaveOutcome(w) /\ Save(w, mem)
        /\ dispatched' = dispatched /\ told' = told
    BY <1>5 DEF Complete, At
  <2>2. EndTold' = EndTold
    BY <2>1 DEF EndTold
  <2>3. QED
    BY <1>1, <2>1, <2>2, PromisedSave
<1>6. QED
  BY <1>2, <1>3, <1>4, <1>5

\* The end of a run that has succeeded, with all its tasks on record.
LEMMA TellEndPromised ==
    ASSUME IInv, IInv', JInv, NEW t \in Tasks, TellEnd(t)
    PROVE  [Promise!Next]_(Promise!vars)
<1> DEFINE m == Stage(mem, t, "clear")
<1>1. /\ core = "up" /\ busy # NoMsg /\ busy.task = t /\ mem.cont[t].stage = "tell"
      /\ SaveStage(m) /\ dispatched' = dispatched
      /\ told' = told \/ \E x : told' = Append(told, x)
  BY DEF TellEnd, At, Tell
<1>2. m \in Runs /\ m.status = mem.status
  BY Typed, StageType DEF Stages
<1> HIDE DEF m
<1>3. disk'.log = disk.log /\ disk'.snap \in {disk.snap, Snap(m)}
  BY <1>1, <1>2, StageSaved DEF SaveStage, Saved
<1>4. mem.status = "succeeded" /\ disk.snap.status = "succeeded"
  BY <1>1 DEF IInv, Conts, EndThere, EndLate, Saves, SuccessSaved
<1>5. disk'.snap.status = "succeeded"
  BY <1>2, <1>3, <1>4 DEF Snap
<1>6. FinishedOnDisk' = FinishedOnDisk
  BY <1>3 DEF FinishedOnDisk
<1>7. FinishedOnDisk = Tasks
  <2>1. \A u \in Tasks : u \in FinishedOnDisk
    BY <1>4, DoneOnDisk DEF JInv, OnFile, AllDone, Succeeded
  <2>2. QED
    BY <2>1 DEF FinishedOnDisk
<1>8. EndTold => EndTold'
  <2>1. ToSet(told) \subseteq ToSet(told')
    <3> DEFINE k == Seq1("finish_workflow", NoTask)
    <3>1. k \in Nat /\ mem.log[k] \in LogEvents
      BY <1>1, Typed, Seq1Type DEF IInv, Conts, EndOnce, EndThere, HasEnd, EndAt
    <3>2. Tell(k, mem.log[k])
      BY DEF TellEnd
    <3>3. QED
      BY <3>1, <3>2, TellMore
  <2>2. QED
    BY <2>1, ByEvents, ByEventsNext
<1>9. EndTold /\ EndTold' => EndTold' = EndTold
  BY DEF EndTold
<1>10. QED
  BY <1>1, <1>4, <1>5, <1>6, <1>7, <1>8, <1>9, PromisedEnd DEF Endings

\* A dispatch comes after the ends of the parents are on record.
LEMMA DispatchPromised ==
    ASSUME IInv, IInv', JInv, SentOK, NEW t \in Tasks, NEW c \in Tasks, Dispatch(t, c)
    PROVE  [Promise!Next]_(Promise!vars)
<1> DEFINE queued == [mem EXCEPT !.task[c] = IF @ = "pending" THEN "queued" ELSE @]
           sent == [queued EXCEPT !.cont[t].todo = @ \ {c}]
<1>1. /\ core = "up" /\ busy # NoMsg /\ busy.task = t /\ mem.cont[t].stage = "dispatch"
      /\ c \in mem.cont[t].todo /\ told' = told
  BY DEF Dispatch, At
<1>2. /\ queued \in Runs /\ queued.status = mem.status
      /\ sent \in Runs /\ sent.status = mem.status
  <2>1. queued \in Runs /\ queued.status = mem.status /\ queued.cont = mem.cont
    BY Typed DEF Runs, TaskStates, Pending
  <2> HIDE DEF queued
  <2>2. [queued.cont EXCEPT ![t].todo = @ \ {c}] \in [Tasks -> [stage : Stages, todo : SUBSET Tasks]]
    BY <2>1 DEF Runs
  <2>3. sent = [queued EXCEPT !.cont = [queued.cont EXCEPT ![t].todo = @ \ {c}]]
    OBVIOUS
  <2>4. QED
    BY <2>1, <2>2, <2>3 DEF Runs
<1>3. PICK m \in {queued, sent} :
         /\ \E w : SaveOutcome(w) /\ Save(w, m)
         /\ dispatched' = dispatched \/ dispatched' = Append(dispatched, c)
  BY DEF Dispatch, Saved, queued, sent
<1> HIDE DEF queued, sent
<1>4. EndTold' = EndTold
  BY <1>1 DEF EndTold
<1>5. CASE dispatched' = dispatched
  BY <1>1, <1>2, <1>3, <1>4, <1>5, PromisedSave
<1>6. CASE dispatched' = Append(dispatched, c)
  <2>1. disk'.log = disk.log /\ disk'.snap \in {disk.snap, Snap(m)}
    BY <1>2, <1>3, StageSaved
  <2>2. disk'.snap.status \in {disk.snap.status, mem.status}
    BY <1>2, <1>3, <2>1 DEF Snap
  <2>3. FinishedOnDisk' = FinishedOnDisk
    BY <2>1 DEF FinishedOnDisk
  <2>4. \/ disk'.snap.status = disk.snap.status
        \/ ~EndTold /\ disk'.snap.status \in Endings \ {"succeeded"}
    BY <1>1, <2>2, SaveChange
  <2>5. Due(c) /\ ~Sent(c)
    BY <1>1 DEF JInv, Outward, InTime, Held
  <2>6. Parents[c] \subseteq FinishedOnDisk
    <3>1. Parents[c] \subseteq Tasks
      BY GraphAssumption
    <3>2. \A p \in Parents[c] : mem.cont[p].stage # "none"
      BY <2>5 DEF Due, Completed
    <3>3. QED
      BY <3>1, <3>2, DoneOnDisk DEF JInv, OnFile
  <2>7. ~Promise!IsDispatched(c)
    BY <2>5 DEF Promise!IsDispatched, Sent, SentOK, ToSet
  <2>8. Promise!Dispatch(c)
    BY <1>4, <1>6, <2>3, <2>4, <2>6, <2>7 DEF Promise!Dispatch, Endings, Promise!Endings
  <2>9. QED
    BY <2>8 DEF Promise!Next
<1>7. QED
  BY <1>3, <1>5, <1>6

\* The write of the end: run.json has the success already.
LEMMA WriteEndPromised ==
    ASSUME IInv, IInv', JInv, NEW t \in Tasks, WriteEnd(t)
    PROVE  [Promise!Next]_(Promise!vars)
<1>0. PICK k, ev : k = Seq1("finish_workflow", NoTask) /\ ev = mem.log[k]
  OBVIOUS
<1>1. mem.cont[t].stage = "event" /\ told' = told /\ dispatched' = dispatched
  BY DEF WriteEnd, At
<1>2. k \in Nat /\ ev \in LogEvents /\ ev.type = "finish_workflow"
  BY <1>0, <1>1, Typed, Seq1Type DEF IInv, Conts, EndOnce, EndThere, HasEnd, EndAt
<1>3. PICK w : Outcome(w, k, ev) /\ Record(w, mem, k, ev)
  BY <1>0 DEF WriteEnd
<1>4. /\ disk'.log \in {disk.log, Append(disk.log, Logged(k, ev))}
      /\ disk'.snap \in {disk.snap, Snap(mem)}
  BY <1>2, <1>3, RecordMore
<1>5. mem.status = "succeeded" /\ disk.snap.status = "succeeded"
  BY <1>1 DEF IInv, Conts, EndThere, EndLate, Saves, SuccessSaved
<1>6. disk'.snap.status = disk.snap.status
  BY <1>4, <1>5 DEF Snap
<1>7. FinishedOnDisk' = FinishedOnDisk
  <2>1. CASE disk'.log = disk.log
    BY <2>1 DEF FinishedOnDisk
  <2>2. CASE disk'.log = Append(disk.log, Logged(k, ev))
    BY <1>2, <2>2, FinishedAppend
  <2>3. QED
    BY <1>4, <2>1, <2>2
<1>8. EndTold' = EndTold
  BY <1>1 DEF EndTold
<1>9. QED
  BY <1>1, <1>6, <1>7, <1>8, PromisedEnd

\* The sweep and a stop request record and tell an end, or tell nothing.
LEMMA EndingPromised ==
    ASSUME IInv, IInv', JInv, core = "up", NEW m \in Runs, NEW ev \in LogEvents, NEW w,
           ev.type \in {"timeout_workflow", "cancel_workflow"},
           m.log = Append(mem.log, ev), Ended(m), m.status = mem.status \/ ~Ended(mem),
           m.status # "succeeded" \/ mem.status = "succeeded",
           Outcome(w, Len(m.log), ev), Record(w, m, Len(m.log), ev),
           dispatched' = dispatched, told' = told \/ (w = "done" /\ ~Ended(mem))
    PROVE  [Promise!Next]_(Promise!vars)
<1> DEFINE k == Len(m.log)
<1>1. k \in Nat
  BY DEF Runs
<1>2. /\ disk'.log \in {disk.log, Append(disk.log, Logged(k, ev))}
      /\ disk'.snap \in {disk.snap, Snap(m)} /\ (w = "done" => disk'.snap = Snap(m))
  BY <1>1, RecordMore
<1> HIDE DEF k
<1>3. FinishedOnDisk' = FinishedOnDisk
  <2>1. CASE disk'.log = disk.log
    BY <2>1 DEF FinishedOnDisk
  <2>2. CASE disk'.log = Append(disk.log, Logged(k, ev))
    BY <1>1, <2>2, FinishedAppend
  <2>3. QED
    BY <1>2, <2>1, <2>2
<1>4. EndKept /\ (EndTold => Ended(mem))
  BY EndKnownBy DEF JInv, OnFile
<1>5. disk'.snap.status \in {disk.snap.status, m.status} /\ m.status \in Endings
  BY <1>2 DEF Snap, Ended
<1>6. CASE disk'.snap.status = disk.snap.status /\ told' = told
  <2>1. EndTold' = EndTold
    BY <1>6 DEF EndTold
  <2>2. QED
    BY <1>3, <1>6, <2>1, PromisedEnd
<1>7. CASE disk'.snap.status # disk.snap.status \/ told' # told
  <2>1. disk'.snap.status = m.status
    BY <1>2, <1>5, <1>7 DEF Snap
  <2>2. ~EndTold /\ m.status # "succeeded"
    <3>1. CASE ~Ended(mem)
      BY <1>4, <3>1 DEF Ended, Endings
    <3>2. CASE m.status = mem.status /\ told' = told
      BY <1>4, <1>7, <2>1, <3>2 DEF EndKept, IInv, Saves, SuccessSaved
    <3>3. QED
      BY <3>1, <3>2
  <2>3. QED
    BY <1>3, <1>5, <2>1, <2>2, PromisedEnd
<1>8. QED
  BY <1>6, <1>7

\* The deadline sweep, and a stop request.
LEMMA StopsPromised ==
    ASSUME IInv, IInv', JInv, Sweep \/ StopWorkflow
    PROVE  [Promise!Next]_(Promise!vars)
<1>1. CASE Sweep
  <2> DEFINE r == EndPending(mem, "timed_out")
             ev == RunEvent("timeout_workflow")
             m == Log(r, ev)
             k == Len(m.log)
  <2>1. r \in Runs /\ r.log = mem.log /\ r.status = "timed_out"
    BY Typed, EndPendingType DEF Endings
  <2>2. ev \in LogEvents /\ ev.type = "timeout_workflow"
    BY EventTypes DEF Types, RunEvent, Event
  <2>3. /\ core = "up" /\ ~Ended(mem) /\ dispatched' = dispatched
        /\ \E w : /\ Outcome(w, k, m.log[k]) /\ Record(w, m, k, m.log[k])
                  /\ told' = told \/ w = "done"
    BY <1>1 DEF Sweep
  <2> HIDE DEF r, ev
  <2>4. /\ m \in Runs /\ m.log = Append(mem.log, ev) /\ m.status = "timed_out"
    BY <2>1, <2>2, LogType DEF Log, Runs
  <2>5. m.log[k] = ev
    BY <2>2, <2>4, Typed, EndOfLog
  <2> HIDE DEF m
  <2>6. Ended(m)
    BY <2>4 DEF Ended, Endings
  <2>7. PICK w : /\ Outcome(w, k, ev) /\ Record(w, m, k, ev)
                 /\ told' = told \/ (w = "done" /\ ~Ended(mem))
    BY <2>3, <2>5
  <2>8. m.status # "succeeded"
    BY <2>4
  <2>9. QED
    BY <2>2, <2>3, <2>4, <2>6, <2>7, <2>8, EndingPromised
<1>2. CASE StopWorkflow
  <2> DEFINE r == IF Ended(mem) THEN mem ELSE EndPending(mem, "cancelled")
             ev == RunEvent("cancel_workflow")
             m == Log(r, ev)
             k == Len(m.log)
  <2>1. /\ r \in Runs /\ r.log = mem.log /\ Ended(r)
        /\ r.status = mem.status \/ (~Ended(mem) /\ r.status # "succeeded")
    <3>1. CASE Ended(mem)
      BY <3>1, Typed
    <3>2. CASE ~Ended(mem)
      BY <3>2, Typed, EndPendingType DEF Endings, Ended
    <3>3. QED
      BY <3>1, <3>2
  <2>2. ev \in LogEvents /\ ev.type = "cancel_workflow"
    BY EventTypes DEF Types, RunEvent, Event
  <2>3. /\ core = "up" /\ dispatched' = dispatched /\ told' = told
        /\ \E w : Outcome(w, k, m.log[k]) /\ Record(w, m, k, m.log[k])
    BY <1>2 DEF StopWorkflow
  <2> HIDE DEF r, ev
  <2>4. /\ m \in Runs /\ m.log = Append(mem.log, ev) /\ m.status = r.status
    BY <2>1, <2>2, LogType DEF Log, Runs
  <2>5. m.log[k] = ev
    BY <2>1, <2>2, <2>4, Typed, EndOfLog
  <2> HIDE DEF m
  <2>6. Ended(m)
    BY <2>1, <2>4 DEF Ended
  <2>7. QED
    BY <2>1, <2>2, <2>3, <2>4, <2>5, <2>6, EndingPromised
<1>3. QED
  BY <1>1, <1>2

\* Recovery ends a run whose end nobody was told.
LEMMA RecoveryPromised ==
    ASSUME IInv, IInv', JInv, RecoverLog \/ RecoverSave
    PROVE  [Promise!Next]_(Promise!vars)
<1>1. EndTold' = EndTold /\ dispatched' = dispatched
  BY DEF RecoverLog, RecoverSave, EndTold
<1>2. CASE RecoverLog
  <2>1. LastSeq + 1 \in Nat /\ Interrupt \in LogEvents /\ Interrupt.type # "finish_task"
    BY LastIsMax, EventTypes DEF Types, Interrupt, RunEvent, Event
  <2>2. disk'.log = Append(disk.log, Logged(LastSeq + 1, Interrupt)) /\ disk'.snap = disk.snap
    BY <1>2, Typed DEF RecoverLog, Disks
  <2>3. FinishedOnDisk' = FinishedOnDisk
    BY <2>1, <2>2, FinishedAppend
  <2>4. QED
    BY <1>1, <2>2, <2>3, PromisedEnd
<1>3. CASE RecoverSave
  <2>1. disk.snap.status \in Active /\ disk'.log = disk.log /\ disk'.snap.status = "interrupted"
    BY <1>3, Typed DEF RecoverSave, Disks
  <2>2. FinishedOnDisk' = FinishedOnDisk
    BY <2>1 DEF FinishedOnDisk
  <2>3. ~EndTold
    BY <2>1, EndKnownBy DEF JInv, OnFile, EndKept, Ended, Active, Endings
  <2>4. QED
    BY <1>1, <2>1, <2>2, <2>3, PromisedEnd DEF Endings
<1>4. QED
  BY <1>2, <1>3

\* The transaction begins the run, puts a finish on record, or ends the run.
LEMMA HandlePromised ==
    ASSUME IInv, IInv', JInv, Handle
    PROVE  [Promise!Next]_(Promise!vars)
<1> DEFINE n == Len(mem.log)
           k == n + 1
<1>0. PICK t, e, m : t = busy.task /\ e = busy.event /\ m = Marked(busy.task, busy.event)
  OBVIOUS
<1>1. /\ core = "up" /\ busy # NoMsg /\ Accepted(t, e) /\ ~Ended(mem) /\ dispatched' = dispatched
  BY <1>0 DEF Handle
<1>2. t \in Tasks /\ mem \in Runs /\ m \in Runs /\ n \in Nat
  BY <1>0, <1>1, MarkedType, Typed DEF IInv, TypeInv, BusyOK
<1>3. PICK ev \in LogEvents : m.log = Append(mem.log, ev) /\ MarkedAs(m, ev)
  BY <1>0, <1>1, MarkedCases DEF IInv
<1>4. Len(m.log) = k /\ m.log[k] = ev /\ k \in Nat
  BY <1>2, <1>3, Typed, EndOfLog
<1>5. /\ \A u \in Tasks \ {t} : \/ m.task[u] = mem.task[u]
                                \/ mem.task[u] = "pending" /\ m.task[u] = "queued"
      /\ \/ ev.type = "start_task" /\ m.status \in {mem.status, "running"}
         \/ ev.type = "task_retry" /\ m.status = mem.status
         \/ ev.type = "task_exception" /\ m.status \in {"failed", "timed_out"}
         \/ /\ ev.type = "finish_task" /\ ev.task = t
            /\ \/ m.status = mem.status
               \/ m.status = "succeeded" /\ \A u \in Tasks : m.task[u] = "succeeded"
  BY <1>0, <1>3 DEF MarkedAs
<1>6. PICK w : /\ Outcome(w, k, ev) /\ Record(w, m, k, ev)
               /\ told' = told \/ (w = "done" /\ ev.type # "finish_task" /\ Tell(k, ev))
  BY <1>0, <1>4 DEF Handle
<1>7. /\ \/ disk'.log = disk.log
         \/ disk'.log = Append(disk.log, Logged(k, ev)) /\ k > LastSeq
      /\ \/ disk'.snap = disk.snap /\ w # "done"
         \/ disk'.snap = Snap(m) /\ Logged(k, ev) \in ToSet(disk'.log)
  BY <1>4, <1>6, RecordMore
<1>8. Going /\ InTurn /\ (Even \/ Ahead) /\ Succeeded /\ ~EndTold
  BY <1>1, EndKnownBy DEF JInv, Inward, OnFile, Level, Going
<1>9. mem.cont[t].stage = "none" /\ mem.status \in Active
  <2>1. acc[t].state # "terminal"
    BY <1>1 DEF Accepted
  <2>2. mem.cont[t].stage = "none"
    BY <1>2, <2>1 DEF IInv, Conts, Accounted
  <2>3. QED
    BY <1>1, <1>2, <2>2 DEF Runs, Statuses, Ended
<1>10. /\ disk.snap.status \in {mem.status, m.status}
       /\ disk'.snap.status \in {disk.snap.status, m.status}
       /\ (w = "done" => disk'.snap.status = m.status)
  BY <1>0, <1>7, <1>8 DEF Even, Ahead, Snap
<1>11. \A u \in Tasks \ {t} : m.task[u] = "succeeded" => u \in FinishedOnDisk
  BY <1>5, <1>8, DoneOnDisk DEF Succeeded, Done
<1>12. (\A u \in Tasks : m.task[u] = "succeeded") /\ t \in FinishedOnDisk => FinishedOnDisk = Tasks
  BY <1>11 DEF FinishedOnDisk
<1> HIDE DEF k, n
<1>13. CASE ev.type = "finish_task" /\ disk'.log = Append(disk.log, Logged(k, ev)) /\ k > LastSeq
  <2>1. FinishedOnDisk' = FinishedOnDisk \cup {t}
    BY <1>2, <1>4, <1>5, <1>13, FinishedAppend
  <2>2. Even
    <3>1. Ahead => LastSeq = k /\ LastSeq \in Nat
      BY <1>0, <1>4, LastIsMax DEF Ahead
    <3>2. QED
      BY <1>4, <1>8, <1>13, <3>1
  <2>3. t \notin FinishedOnDisk
    BY <1>2, <1>8, <1>9, <2>2 DEF Even, Succeeded
  <2>4. disk.snap.status = mem.status
    BY <2>2 DEF Even
  <2>5. disk'.snap.status = disk.snap.status
        \/ (disk'.snap.status = "succeeded" /\ FinishedOnDisk' = Tasks)
    <3>1. (\A u \in Tasks : m.task[u] = "succeeded") => FinishedOnDisk' = Tasks
      BY <1>2, <1>11, <2>1 DEF FinishedOnDisk
    <3>2. QED
      BY <1>5, <1>10, <1>13, <2>4, <3>1
  <2>6. Promise!IsDispatched(t)
    BY <1>0, <1>1, <1>8 DEF InTurn, Sent, ToSet, Promise!IsDispatched
  <2>7. EndTold' = EndTold
    BY <1>6, <1>13 DEF EndTold
  <2>8. Promise!Finish(t)
    BY <1>1, <1>9, <2>1, <2>3, <2>4, <2>5, <2>6, <2>7
       DEF Promise!Finish, Active, Promise!Active
  <2>9. QED
    BY <1>2, <2>8 DEF Promise!Next
<1>14. CASE ev.type = "finish_task" /\ disk'.log = disk.log
  <2>1. FinishedOnDisk' = FinishedOnDisk
    BY <1>14 DEF FinishedOnDisk
  <2>2. EndTold' = EndTold
    BY <1>6, <1>14 DEF EndTold
  <2>3. CASE disk'.snap.status = disk.snap.status
    BY <1>1, <2>1, <2>2, <2>3, PromisedEnd
  <2>4. CASE disk'.snap.status # disk.snap.status
    <3>1. disk'.snap = Snap(m) /\ Logged(k, ev) \in ToSet(disk.log)
      BY <1>7, <1>14, <2>4
    <3>2. t \in FinishedOnDisk
      <4>1. Logged(k, ev).event = ev
        BY DEF Logged
      <4>2. QED
        BY <1>2, <1>5, <1>14, <3>1, <4>1, ByEvents
    <3>3. disk'.snap.status = "succeeded" /\ FinishedOnDisk = Tasks
      BY <1>5, <1>10, <1>12, <1>14, <2>4, <3>2
    <3>4. QED
      BY <1>1, <1>8, <2>1, <3>3, PromisedEnd DEF Endings
  <2>5. QED
    BY <2>3, <2>4
<1>15. CASE ev.type # "finish_task"
  <2>1. FinishedOnDisk' = FinishedOnDisk
    <3>1. CASE disk'.log = disk.log
      BY <3>1 DEF FinishedOnDisk
    <3>2. CASE disk'.log = Append(disk.log, Logged(k, ev))
      BY <1>4, <1>15, <3>2, FinishedAppend
    <3>3. QED
      BY <1>7, <3>1, <3>2
  <2>2. EndTold' = EndTold \/ (ev.type = "task_exception" /\ w = "done")
    <3>1. CASE told' = told
      BY <3>1 DEF EndTold
    <3>2. CASE w = "done" /\ Tell(k, ev)
      <4>1. CASE ev.type = "task_exception"
        BY <3>2, <4>1
      <4>2. CASE ev.type # "task_exception"
        <5>1. ev.type \notin {"task_exception", "finish_workflow", "timeout_workflow"}
          BY <1>5, <1>15, <4>2
        <5>2. QED
          BY <1>4, <3>2, <5>1, TellMore, EndToldSame
      <4>3. QED
        BY <4>1, <4>2
    <3>3. QED
      BY <1>6, <3>1, <3>2
  <2>3. CASE ev.type = "task_exception"
    <3>1. CASE disk'.snap.status = disk.snap.status /\ EndTold' = EndTold
      BY <1>1, <2>1, <3>1, PromisedEnd
    <3>2. CASE ~(disk'.snap.status = disk.snap.status /\ EndTold' = EndTold)
      <4>1. disk'.snap.status = m.status /\ m.status \in {"failed", "timed_out"}
        BY <1>5, <1>10, <2>2, <2>3, <3>2
      <4>2. QED
        BY <1>1, <1>8, <2>1, <4>1, PromisedEnd DEF Endings
    <3>3. QED
      BY <3>1, <3>2
  <2>4. CASE ev.type # "task_exception"
    <3>1. EndTold' = EndTold /\ m.status \in {mem.status, "running"}
      BY <1>5, <1>15, <2>2, <2>4
    <3>2. CASE disk'.snap.status = disk.snap.status
      BY <1>1, <2>1, <3>1, <3>2, PromisedEnd
    <3>3. CASE disk'.snap.status # disk.snap.status
      <4>1. disk.snap.status = "created" /\ disk'.snap.status = "running"
        BY <1>9, <1>10, <3>1, <3>3 DEF Active
      <4>2. Promise!Begin
        BY <1>1, <2>1, <3>1, <4>1 DEF Promise!Begin
      <4>3. QED
        BY <4>2 DEF Promise!Next
    <3>4. QED
      BY <3>2, <3>3
  <2>5. QED
    BY <2>3, <2>4
<1>16. QED
  BY <1>7, <1>13, <1>14, <1>15

-------------------------------------------------------------------------------
\* Every step is one that RunLifecycle allows, or changes nothing that it speaks of.
LEMMA NextPromised ==
    ASSUME IInv, IInv', SentOK, JInv, [Next]_vars
    PROVE  [Promise!Next]_(Promise!vars)
<1>1. CASE Monitor
  <2>1. CASE Drop
    BY <2>1, PromiseStutters DEF Drop
  <2>2. CASE Handle
    BY <2>2, HandlePromised
  <2>3. ASSUME NEW t \in Tasks, Notify(t) \/ Advance(t) \/ Clear(t) \/ Complete(t)
        PROVE  [Promise!Next]_(Promise!vars)
    BY <2>3, StagePromised
  <2>4. ASSUME NEW t \in Tasks, DispatchDone(t)
        PROVE  [Promise!Next]_(Promise!vars)
    BY <2>4, PromiseStutters DEF DispatchDone
  <2>5. ASSUME NEW t \in Tasks, WriteEnd(t) \/ TellEnd(t)
        PROVE  [Promise!Next]_(Promise!vars)
    BY <2>5, WriteEndPromised, TellEndPromised
  <2>6. ASSUME NEW t \in Tasks, NEW c \in Tasks, Dispatch(t, c)
        PROVE  [Promise!Next]_(Promise!vars)
    BY <2>6, DispatchPromised
  <2>7. QED
    BY <1>1, <2>1, <2>2, <2>3, <2>4, <2>5, <2>6 DEF Monitor
<1>2. CASE Sweep \/ StopWorkflow
  BY <1>2, StopsPromised
<1>3. CASE RecoverLog \/ RecoverSave
  BY <1>3, RecoveryPromised
<1>4. CASE Crash \/ Recovered \/ \E t \in Tasks : Arrive(t)
  BY <1>4, PromiseStutters DEF Crash, Recovered, Arrive
<1>5. CASE UNCHANGED vars
  BY <1>5, PromiseStutters DEF vars
<1>6. QED
  BY <1>1, <1>2, <1>3, <1>4, <1>5 DEF Next

\* The record of a run is the one that RunLifecycle promises its users, whatever
\* fails: tasks are sent once and after their parents' ends are on record, a finish
\* is never taken back, success takes all the tasks, and an end that was announced
\* is on record and final.
THEOREM RunImplementsLifecycle == Spec => LifecycleKept
<1> DEFINE Inv == IInv /\ SentOK /\ JInv
<1>1. Init => Inv
  BY InitInv, SentType, InitRecord
<1>2. Inv /\ [Next]_vars => Inv'
  <2> SUFFICES ASSUME IInv, SentOK, JInv, [Next]_vars
               PROVE  Inv'
    OBVIOUS
  <2>1. IInv'
    BY NextInv
  <2>2. SentOK'
    BY SentType
  <2>3. JInv'
    BY <2>1, NextRecord
  <2>4. QED
    BY <2>1, <2>2, <2>3
<1>3. Init => Promise!Init
  <2> SUFFICES ASSUME Init
               PROVE  Promise!Init
    OBVIOUS
  <2>1. /\ disk.snap.status = "created" /\ told = <<>> /\ dispatched = SetToSeq(Roots)
        /\ \E k : disk.log = <<Logged(k, RunEvent("start_workflow"))>>
    BY DEF Init, Snap
  <2>2. FinishedOnDisk = {} /\ EndTold = FALSE
    <3>1. \A t \in Tasks : mem.task[t] # "succeeded"
      BY DEF Init
    <3>2. \A t \in FinishedOnDisk : FALSE
      <4>1. IInv /\ Logged(1, RunEvent("start_workflow")).event.type = "start_workflow"
        BY InitInv DEF Logged, RunEvent, Event
      <4>2. \A x \in ToSet(disk.log) : x.event.type = "start_workflow"
        BY <2>1 DEF ToSet, Logged, RunEvent, Event
      <4>3. QED
        BY <4>1, <4>2, ByEvents
    <3>3. EndTold = FALSE
      BY <2>1 DEF EndTold
    <3>4. QED
      BY <3>2, <3>3
  <2>3. /\ dispatched \in Seq(Tasks) /\ ToSet(dispatched) = Roots /\ IsInjective(dispatched)
    BY <2>1, RootsInOrder
  <2>4. \A t \in Tasks : Promise!IsDispatched(t) <=> Parents[t] = {}
    BY <2>3 DEF Promise!IsDispatched, ToSet, Roots
  <2>5. QED
    BY <2>1, <2>2, <2>3, <2>4 DEF Promise!Init, IsInjective
<1>4. Inv /\ Inv' /\ [Next]_vars => [Promise!Next]_(Promise!vars)
  BY NextPromised
<1> HIDE DEF Inv
<1>5. Spec => Promise!Spec
  BY <1>1, <1>2, <1>3, <1>4, PTL DEF Spec, Promise!Spec
<1>6. QED
  BY <1>5 DEF LifecycleKept
===============================================================================
