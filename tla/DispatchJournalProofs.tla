------------------------ MODULE DispatchJournalProofs ------------------------
(***************************************************************************)
(* Theorems about DispatchJournal, for any number of root tasks, failed    *)
(* writes, refused stops and crashes: a submission that has failed leaves  *)
(* no task behind, and what the client was answered stands.  The invariant *)
(* JInv says, for each stage of the submission, how the run in memory,     *)
(* run.json and the log may differ after the writes that failed, and what  *)
(* the messages under way can still start.                                 *)
(***************************************************************************)
EXTENDS DispatchJournal, TLAPS

Typed == TypeOK /\ faults \in Nat

\* No task of the run can run any more.
NoTasks == held = {} /\ leased = {} /\ \A t \in Roots : t \notin ToSet(inbox)

FailLogged      == Logged("workflow_submission_failed")
InterruptLogged == Logged("interrupt_workflow")

-------------------------------------------------------------------------------
(* The inductive invariant. *)

Shape(m) ==
    m # NoRun => /\ m.run = "failed" <=> m.dispatch = "terminal"
                 /\ m.run = "interrupted" => m.dispatch = "active"

\* There is no run before its journal.
Untouched ==
    disk = NoRun => /\ step = "idle" /\ mem = NoRun /\ log = <<>> /\ caps = "none"
                    /\ held = {} /\ leased = {} /\ inbox = <<>> /\ outbox = <<>>
                    /\ ~sched.stopped /\ sent = [t \in Roots |-> 0]
                    /\ ~acked /\ ~told /\ ~cleanup.on

\* What memory and run.json say while the submission is in progress.
Ahead ==
    /\ mem.run = "created" /\ disk.run = "created"
    /\ \/ mem.dispatch = "prepared" /\ disk = mem /\ NoTasks /\ \A t \in Roots : sent[t] = 0
       \/ mem.dispatch = "dispatching" /\ disk.dispatch \in {"prepared", "dispatching"}
       \/ mem.dispatch = "active" /\ (disk.dispatch = "active" => faults > 0)
          /\ disk.dispatch \in {"dispatching", "active"}

Submitting ==
    step # "idle" =>
       /\ core = "up" /\ mem # NoRun /\ disk # NoRun /\ ~acked /\ ~told /\ caps # "revoked"
       /\ ~FailLogged /\ ~InterruptLogged
       /\ ~sched.stopped /\ "stop" \notin ToSet(inbox) /\ "ok" \notin ToSet(outbox)
       /\ Ahead
       /\ step \in {"prepare", "event", "dispatching"} => mem.dispatch = "prepared"
       /\ step \in {"send", "active"} => mem.dispatch = "dispatching" /\ disk = mem
       /\ step = "active" => \A t \in Roots : sent[t] = 1

\* ... and after it.  Each write that failed is one step they are apart.
Settling ==
    step = "idle" /\ mem # NoRun =>
       /\ core = "up" /\ mem.dispatch \in {"active", "cleanup_pending", "terminal"}
       /\ mem.dispatch = "active" => acked
       /\ disk.dispatch = "terminal" => mem.dispatch = "terminal"
       /\ disk.dispatch = "active" /\ mem.dispatch = "cleanup_pending" => faults > 1
       /\ disk.dispatch = "active" /\ mem.dispatch = "terminal" => faults > 2

Answered ==
    acked => /\ step = "idle" /\ disk # NoRun /\ disk.dispatch = "active"
             /\ mem # NoRun => mem.dispatch = "active"
             /\ \A t \in Roots : sent[t] = 1

\* A stop follows the tasks that it stops.
InOrder ==
    /\ \A i, j \in 1..Len(inbox) : i < j /\ inbox[i] = "stop" => inbox[j] \notin Roots
    /\ sched.stopped => \A t \in Roots : t \notin ToSet(inbox)
    /\ "ok" \in ToSet(outbox) => NoTasks
    /\ ~sched.alive => inbox = <<>>
    /\ exit.ray => ~sched.alive /\ held = {} /\ leased = {}

Down ==
    core = "down" => /\ step = "idle" /\ mem = NoRun /\ exit = NoExit /\ ~cleanup.on
                     /\ NoTasks /\ inbox = <<>> /\ outbox = <<>> /\ ~sched.stopped

Cleared ==
    /\ Over(mem) \/ Over(disk) \/ caps = "revoked" => step = "idle" /\ (shutdown \/ NoTasks)
    /\ Over(disk) => caps # "issued"
    /\ told => FailLogged /\ Over(disk)

FailureLast ==
    \A i \in 1..Len(log) : log[i] = "workflow_submission_failed" =>
       \/ i = Len(log)
       \/ i + 1 = Len(log) /\ log[i + 1] = "interrupt_workflow" /\ faults > 2

InLog ==
    /\ FailLogged => /\ step = "idle" /\ ~acked /\ (mem # NoRun => Over(mem))
                     /\ disk.dispatch = "active" => faults > 2
    /\ InterruptLogged => /\ disk.dispatch = "active"
                          /\ mem # NoRun => mem.dispatch = "active"
    /\ FailureLast

JInv ==
    /\ Typed /\ Shape(mem) /\ Shape(disk) /\ \A t \in Roots : sent[t] \in {0, 1}
    /\ Untouched /\ Submitting /\ Settling /\ Answered /\ InOrder /\ Down /\ Cleared /\ InLog

-------------------------------------------------------------------------------
(* Sequences. *)

\* What is in a sequence after an element was added at its end.
LEMMA AppendSet ==
    ASSUME NEW S, NEW s \in Seq(S), NEW x
    PROVE  ToSet(Append(s, x)) = ToSet(s) \cup {x}
<1> DEFINE a == Append(s, x)
<1>1. Len(s) \in Nat /\ DOMAIN s = 1..Len(s) /\ DOMAIN a = 1..Len(s) + 1
  OBVIOUS
<1>2. \A i \in 1..Len(s) : a[i] = s[i]
  OBVIOUS
<1>3. a[Len(s) + 1] = x
  OBVIOUS
<1>4. QED
  BY <1>1, <1>2, <1>3 DEF ToSet

\* What is in a sequence that is not empty.
LEMMA TailSet ==
    ASSUME NEW S, NEW s \in Seq(S), s # <<>>
    PROVE  /\ Head(s) \in ToSet(s) /\ Head(s) \in S /\ Tail(s) \in Seq(S)
           /\ ToSet(Tail(s)) \subseteq ToSet(s)
<1>1. Len(s) \in Nat /\ Len(s) # 0 /\ DOMAIN s = 1..Len(s)
  OBVIOUS
<1>2. /\ Tail(s) \in Seq(S) /\ Len(Tail(s)) = Len(s) - 1
      /\ \A i \in 1..Len(s) - 1 : Tail(s)[i] = s[i + 1]
  OBVIOUS
<1>3. Head(s) = s[1] /\ 1 \in 1..Len(s)
  BY <1>1
<1>4. ASSUME NEW x \in ToSet(Tail(s)) PROVE x \in ToSet(s)
  <2>1. PICK i \in 1..Len(s) - 1 : x = Tail(s)[i]
    BY <1>1, <1>2 DEF ToSet
  <2>2. x = s[i + 1] /\ i + 1 \in 1..Len(s)
    BY <1>1, <1>2, <2>1
  <2>3. QED
    BY <1>1, <2>2 DEF ToSet
<1>5. QED
  BY <1>1, <1>2, <1>3, <1>4 DEF ToSet

\* Nothing is in the empty sequence.
LEMMA EmptySet == ToSet(<<>>) = {}
BY DEF ToSet

-------------------------------------------------------------------------------
(* Writes. *)

\* What the state of a run is made of.
LEMMA EntryShape ==
    ASSUME NEW m \in Entry
    PROVE  /\ m # NoRun /\ m.dispatch \in Journal /\ m.run \in RunStates
           /\ \A d \in Journal, r \in RunStates :
                 /\ [m EXCEPT !.dispatch = d] \in Entry
                 /\ [m EXCEPT !.dispatch = d].dispatch = d
                 /\ [m EXCEPT !.dispatch = d].run = m.run
                 /\ [m EXCEPT !.run = r] \in Entry
                 /\ [m EXCEPT !.run = r].run = r /\ [m EXCEPT !.run = r].dispatch = m.dispatch
           /\ Failed(m) \in Entry /\ Failed(m).dispatch = "terminal" /\ Failed(m).run = "failed"
BY ValueAssumption DEF Entry, Journal, RunStates, Failed

\* What a write of run.json does.
LEMMA Saved ==
    ASSUME Typed, NEW m \in Entry, NEW w, Save(w, m)
    PROVE  /\ faults' \in Nat /\ faults' >= faults /\ disk' \in Entry \cup {NoRun}
           /\ disk' \in {disk, m} /\ (w = "done" => disk' = m)
           /\ w # "done" => faults' > faults
BY DEF Typed, TypeOK, Save, Count

\* What a write of an event and of run.json does.
LEMMA Recorded ==
    ASSUME Typed, NEW m \in Entry, NEW w, NEW type \in Events, Record(w, type, m)
    PROVE  /\ faults' \in Nat /\ faults' >= faults /\ disk' \in {disk, m}
           /\ w = "done" => disk' = m
           /\ w # "done" => faults' > faults
           /\ log' \in Seq(Events) /\ log' \in {log, Append(log, type)}
           /\ ToSet(log') \subseteq ToSet(log) \cup {type} /\ ToSet(log) \subseteq ToSet(log')
           /\ log' # log => ~Logged(type)
           /\ w # "nothing" => type \in ToSet(log')
<1>1. log \in Seq(Events) /\ Append(log, type) \in Seq(Events)
  BY DEF Typed, TypeOK
<1>2. ToSet(Append(log, type)) = ToSet(log) \cup {type}
  BY <1>1, AppendSet
<1>3. log' \in {log, Append(log, type)} /\ (log' # log => ~Logged(type))
  BY DEF Record
<1>4. w # "nothing" => type \in ToSet(log')
  BY <1>2 DEF Record, Logged
<1>5. /\ faults' \in Nat /\ faults' >= faults /\ disk' \in {disk, m} /\ (w = "done" => disk' = m)
      /\ w # "done" => faults' > faults
  BY DEF Typed, TypeOK, Record, Count
<1>6. QED
  BY <1>1, <1>2, <1>3, <1>4, <1>5

\* When an event may follow.
LEMMA LastKept ==
    ASSUME Typed, FailureLast, faults' \in Nat, faults' >= faults, NEW type \in Events,
           log' \in {log, Append(log, type)},
           log' # log /\ FailLogged => /\ type = "interrupt_workflow" /\ ~InterruptLogged
                                       /\ faults' > 2
    PROVE  FailureLast'
<1>1. log \in Seq(Events) /\ Len(log) \in Nat /\ DOMAIN log = 1..Len(log) /\ faults \in Nat
  BY DEF Typed, TypeOK
<1>2. CASE log' = log
  <2>1. faults > 2 => faults' > 2
    BY <1>1
  <2>2. QED
    BY <1>2, <2>1 DEF FailureLast
<1>3. CASE log' = Append(log, type) /\ log' # log
  <2>1. /\ Len(log') = Len(log) + 1 /\ log'[Len(log) + 1] = type
        /\ \A i \in 1..Len(log) : log'[i] = log[i]
    <3>1. /\ Len(Append(log, type)) = Len(log) + 1 /\ Append(log, type)[Len(log) + 1] = type
          /\ \A i \in 1..Len(log) : Append(log, type)[i] = log[i]
      BY <1>1
    <3>2. QED
      BY <1>3, <3>1
  <2>2. SUFFICES ASSUME NEW i \in 1..Len(log'), log'[i] = "workflow_submission_failed",
                        i # Len(log')
                 PROVE  i + 1 = Len(log') /\ log'[i + 1] = "interrupt_workflow" /\ faults' > 2
    BY DEF FailureLast
  <2>3. i \in 1..Len(log) /\ log[i] = "workflow_submission_failed"
    BY <1>1, <2>1, <2>2
  <2>4. FailLogged
    BY <1>1, <2>3 DEF FailLogged, Logged, ToSet
  <2>5. ~InterruptLogged /\ type = "interrupt_workflow" /\ faults' > 2
    BY <1>3, <2>4
  <2>6. \A j \in 1..Len(log) : log[j] # "interrupt_workflow"
    BY <1>1, <2>5 DEF InterruptLogged, Logged, ToSet
  <2>7. i = Len(log)
    <3>1. i + 1 = Len(log) => i + 1 \in 1..Len(log)
      BY <1>1, <2>3
    <3>2. i = Len(log) \/ (i + 1 = Len(log) /\ log[i + 1] = "interrupt_workflow")
      BY <2>3 DEF FailureLast
    <3>3. QED
      BY <2>6, <3>1, <3>2
  <2>8. QED
    BY <1>1, <2>1, <2>5, <2>7
<1>4. QED
  BY <1>2, <1>3

-------------------------------------------------------------------------------
(* Types. *)

\* The types of what the provers are told of the state.
LEMMA Types ==
    ASSUME Typed
    PROVE  /\ core \in {"up", "down"} /\ step \in Steps
           /\ mem \in Entry \cup {NoRun} /\ disk \in Entry \cup {NoRun}
           /\ log \in Seq(Events) /\ caps \in {"none", "issued", "revoked"}
           /\ cleanup \in [on : BOOLEAN, tries : 0..MaxAttempts]
           /\ exit \in [asked : BOOLEAN, ray : BOOLEAN, complete : BOOLEAN]
           /\ sched \in [alive : BOOLEAN, fatal : BOOLEAN, stopped : BOOLEAN, done : 0..Stages]
           /\ inbox \in Seq(Roots \cup {"stop", "shutdown"})
           /\ outbox \in Seq({"task", "ok", "refused"})
           /\ leased \subseteq Roots /\ held \subseteq Roots /\ sent \in [Roots -> Nat]
           /\ acked \in BOOLEAN /\ told \in BOOLEAN /\ shutdown \in BOOLEAN /\ faults \in Nat
BY DEF Typed, TypeOK

\* A run that is known to this process is one.
LEMMA KnownType ==
    ASSUME Typed, Pending(Known) \/ RequiresCleanup(Known) \/ mem # NoRun \/ disk # NoRun
    PROVE  Known \in Entry
<1>1. Known # NoRun
  BY DEF Known, Pending, RequiresCleanup
<1>2. QED
  BY <1>1, Types DEF Known

\* The end of a failed dispatch keeps the types.
LEMMA FinishType ==
    ASSUME Typed, Known \in Entry, NEW w \in Outcomes, FinishFailure(w)
    PROVE  /\ mem' \in Entry \cup {NoRun} /\ disk' \in Entry \cup {NoRun}
           /\ log' \in Seq(Events) /\ caps' = "revoked" /\ told' \in BOOLEAN /\ faults' \in Nat
<1>1. Failed(Known) \in Entry /\ (mem # NoRun => Failed(mem) \in Entry)
  BY Types, EntryShape
<1>2. /\ disk' \in Entry \cup {NoRun} /\ log' \in Seq(Events) /\ faults' \in Nat
  BY <1>1, Recorded, Types DEF FinishFailure, Events
<1>3. QED
  BY <1>1, <1>2, Types DEF FinishFailure

\* So does the request of a cleanup, and its repetition.
LEMMA CleanupType ==
    ASSUME Typed, SendCleanup
    PROVE  /\ cleanup' \in [on : BOOLEAN, tries : 0..MaxAttempts]
           /\ inbox' \in Seq(Roots \cup {"stop", "shutdown"})
<1>1. cleanup.tries \in 0..MaxAttempts /\ MaxAttempts \in Nat
  BY Types, JournalAssumption
<1>2. cleanup'.tries \in 0..MaxAttempts
  BY <1>1 DEF SendCleanup
<1>3. Append(inbox, "stop") \in Seq(Roots \cup {"stop", "shutdown"})
  BY Types
<1>4. QED
  BY <1>2, <1>3, Types DEF SendCleanup

LEMMA RequestType ==
    ASSUME Typed, Known \in Entry, NEW w \in Outcomes, RequestCleanup(w)
    PROVE  /\ mem' \in Entry \cup {NoRun} /\ disk' \in Entry \cup {NoRun}
           /\ faults' \in Nat /\ UNCHANGED <<log, caps, told>>
           /\ cleanup' \in [on : BOOLEAN, tries : 0..MaxAttempts]
           /\ inbox' \in Seq(Roots \cup {"stop", "shutdown"})
<1> DEFINE m == [Known EXCEPT !.dispatch = "cleanup_pending"]
<1>1. m \in Entry
  BY EntryShape DEF Journal
<1>2. mem' \in Entry \cup {NoRun} /\ disk' \in Entry \cup {NoRun} /\ faults' \in Nat
  <2>1. CASE Pending(Known)
    BY <2>1, Types DEF RequestCleanup
  <2>2. CASE ~Pending(Known)
    <3>1. Save(w, m) /\ mem' = IF mem = NoRun THEN NoRun ELSE m
      BY <2>2 DEF RequestCleanup
    <3>2. QED
      BY <1>1, <3>1, Saved
  <2>3. QED
    BY <2>1, <2>2
<1>3. /\ cleanup' \in [on : BOOLEAN, tries : 0..MaxAttempts]
      /\ inbox' \in Seq(Roots \cup {"stop", "shutdown"})
  BY CleanupType, Types DEF RequestCleanup
<1>4. QED
  BY <1>2, <1>3 DEF RequestCleanup

\* So does a confirmation.
LEMMA ConfirmType ==
    ASSUME Typed, NEW w \in Outcomes, Confirm(w)
    PROVE  /\ mem' \in Entry \cup {NoRun} /\ disk' \in Entry \cup {NoRun}
           /\ log' \in Seq(Events) /\ caps' \in {"none", "issued", "revoked"}
           /\ told' \in BOOLEAN /\ faults' \in Nat
           /\ cleanup' \in [on : BOOLEAN, tries : 0..MaxAttempts]
<1>1. NoCleanup \in [on : BOOLEAN, tries : 0..MaxAttempts]
  BY JournalAssumption DEF NoCleanup
<1>2. CASE Pending(Known)
  <2>1. Known \in Entry /\ FinishFailure(w) /\ cleanup' \in {NoCleanup, cleanup}
    BY <1>2, KnownType DEF Confirm
  <2>2. QED
    BY <1>1, <2>1, FinishType, Types
<1>3. CASE ~Pending(Known)
  BY <1>1, <1>3, Types DEF Confirm, runVars
<1>4. QED
  BY <1>2, <1>3

\* Every step keeps the types.
LEMMA NextTyped == Typed /\ Submitting /\ [Next]_vars => Typed'
<1> SUFFICES ASSUME Typed, Submitting, [Next]_vars
             PROVE  Typed'
  OBVIOUS
<1> DEFINE new == [dispatch |-> "prepared", run |-> "created"]
<1>1. new \in Entry
  BY DEF Entry, Journal, RunStates
<1> DEFINE Goal ==
         /\ core' \in {"up", "down"} /\ step' \in Steps
         /\ mem' \in Entry \cup {NoRun} /\ disk' \in Entry \cup {NoRun}
         /\ log' \in Seq(Events) /\ caps' \in {"none", "issued", "revoked"}
         /\ cleanup' \in [on : BOOLEAN, tries : 0..MaxAttempts]
         /\ exit' \in [asked : BOOLEAN, ray : BOOLEAN, complete : BOOLEAN]
         /\ sched' \in [alive : BOOLEAN, fatal : BOOLEAN, stopped : BOOLEAN, done : 0..Stages]
         /\ inbox' \in Seq(Roots \cup {"stop", "shutdown"})
         /\ outbox' \in Seq({"task", "ok", "refused"})
         /\ leased' \subseteq Roots /\ held' \subseteq Roots /\ sent' \in [Roots -> Nat]
         /\ acked' \in BOOLEAN /\ told' \in BOOLEAN /\ shutdown' \in BOOLEAN
         /\ faults' \in Nat
<1>a. SUFFICES Goal
  BY DEF Typed, TypeOK
<1>2. CASE Submit
  <2>1. PICK w \in Outcomes :
           /\ Save(w, new)
           /\ IF w = "done" THEN mem' = disk' /\ step' = "prepare" ELSE UNCHANGED <<mem, step>>
    BY <1>2 DEF Submit
  <2>2. disk' \in Entry \cup {NoRun} /\ faults' \in Nat
    BY <1>1, <2>1, Saved
  <2>3. QED
    BY <1>2, <2>1, <2>2, Types DEF Submit, schedVars, Steps
<1>3. ASSUME NEW m \in Entry, NEW next \in Steps, Persist(m, next)
      PROVE  mem' \in Entry /\ disk' \in Entry \cup {NoRun} /\ faults' \in Nat /\ step' \in Steps
  BY <1>3, Saved DEF Persist, Steps
<1>4. step # "idle" => mem \in Entry /\ disk \in Entry
  BY Types DEF Submitting
<1> USE DEF schedVars, runVars, Steps
<1>5. CASE Prepare
  <2>1. CASE Persist(mem, "event")
    BY <1>3, <1>4, <1>5, <2>1, Types DEF Prepare, Starting, OnlyRun
  <2>2. CASE step' = "failing" /\ UNCHANGED <<mem, disk, faults>>
    BY <1>5, <2>2, Types DEF Prepare, OnlyRun
  <2>3. QED
    BY <1>5, <2>1, <2>2 DEF Prepare
<1>6. CASE StartEvent
  <2>1. PICK w \in {"done", "nothing", "event"} :
           /\ Record(w, "start_workflow", disk)
           /\ step' = IF w = "done" THEN "dispatching" ELSE "failing"
    BY <1>6 DEF StartEvent
  <2>2. log' \in Seq(Events) /\ faults' \in Nat
    BY <1>4, <1>6, <2>1, Recorded DEF StartEvent, Starting, Events
  <2>3. QED
    BY <1>6, <2>1, <2>2, Types DEF StartEvent, OnlyRun
<1>7. CASE MarkDispatching
  <2>1. [mem EXCEPT !.dispatch = "dispatching"] \in Entry
    BY <1>4, <1>7, EntryShape DEF MarkDispatching, Starting, Journal
  <2>2. QED
    BY <1>3, <1>7, <2>1, Types DEF MarkDispatching, OnlyRun
<1>8. ASSUME NEW t \in Roots, Send(t)
      PROVE  Goal
  <2>1. Append(inbox, t) \in Seq(Roots \cup {"stop", "shutdown"})
    BY Types
  <2>2. [sent EXCEPT ![t] = @ + 1] \in [Roots -> Nat]
    BY Types
  <2>3. inbox' \in Seq(Roots \cup {"stop", "shutdown"}) /\ sent' \in [Roots -> Nat] /\ step' \in Steps
    BY <1>8, <2>1, <2>2, Types DEF Send
  <2>4. UNCHANGED <<mem, disk, log, caps, faults>> /\ OnlyRun
    BY <1>8 DEF Send
  <2>5. QED
    BY <2>3, <2>4, Types DEF OnlyRun
<1>9. CASE Activate
  <2>1. [mem EXCEPT !.dispatch = "active"] \in Entry
    BY <1>4, <1>9, EntryShape DEF Activate, Starting, Journal
  <2>2. QED
    BY <1>3, <1>9, <2>1, Types DEF Activate
<1>10. ASSUME NEW w \in Outcomes, Known \in Entry, RequestCleanup(w) \/ FinishFailure(w),
              (cleanup' \in {cleanup, NoCleanup} /\ inbox' = inbox) \/ RequestCleanup(w)
       PROVE  /\ mem' \in Entry \cup {NoRun} /\ disk' \in Entry \cup {NoRun}
              /\ log' \in Seq(Events) /\ caps' \in {"none", "issued", "revoked"}
              /\ told' \in BOOLEAN /\ faults' \in Nat
              /\ cleanup' \in [on : BOOLEAN, tries : 0..MaxAttempts]
              /\ inbox' \in Seq(Roots \cup {"stop", "shutdown"})
  <2>1. NoCleanup \in [on : BOOLEAN, tries : 0..MaxAttempts]
    BY JournalAssumption DEF NoCleanup
  <2>2. CASE RequestCleanup(w)
    BY <1>10, <2>2, RequestType, Types
  <2>3. CASE FinishFailure(w) /\ ~RequestCleanup(w)
    BY <1>10, <2>1, <2>3, FinishType, Types
  <2>4. QED
    BY <1>10, <2>2, <2>3
<1>11. CASE FailDispatch
  <2>1. Known \in Entry
    <3>1. mem # NoRun
      BY <1>4, <1>11, EntryShape DEF FailDispatch, Starting
    <3>2. QED
      BY <3>1, KnownType
  <2>2. QED
    BY <1>10, <1>11, <2>1, Types DEF FailDispatch, OnlyCleanup
<1>12. CASE StopWorkflow
  <2>1. Known \in Entry
    BY <1>12, KnownType DEF StopWorkflow, RequiresCleanup
  <2>2. QED
    BY <1>10, <1>12, <2>1, Types DEF StopWorkflow, OnlyCleanup
<1>13. CASE Reply
  <2>1. Tail(outbox) \in Seq({"task", "ok", "refused"})
    BY <1>13, TailSet, Types DEF Reply
  <2>2. PICK w \in Outcomes :
           /\ IF Head(outbox) = "ok" THEN Confirm(w)
              ELSE w = "done" /\ UNCHANGED <<runVars, cleanup>>
           /\ outbox' = IF w = "done" THEN Tail(outbox) ELSE outbox
    BY <1>13 DEF Reply
  <2>3. CASE Confirm(w)
    BY <1>13, <2>1, <2>2, <2>3, ConfirmType, Types DEF Reply
  <2>4. CASE UNCHANGED <<runVars, cleanup>>
    BY <1>13, <2>1, <2>2, <2>4, Types DEF Reply
  <2>5. QED
    BY <2>2, <2>3, <2>4
<1>14. CASE TaskEvent
  <2>1. Tail(outbox) \in Seq({"task", "ok", "refused"})
    BY <1>14, TailSet, Types DEF TaskEvent
  <2>2. CASE mem # NoRun /\ Record("done", "task", mem)
    <3>1. disk' \in Entry \cup {NoRun} /\ log' \in Seq(Events) /\ faults' \in Nat
      BY <2>2, Recorded, Types DEF Events
    <3>2. QED
      BY <1>14, <2>1, <3>1, Types DEF TaskEvent
  <2>3. CASE UNCHANGED <<log, disk, faults>>
    BY <1>14, <2>1, <2>3, Types DEF TaskEvent
  <2>4. QED
    BY <1>14, <2>2, <2>3 DEF TaskEvent
<1>15. CASE Retry
  <2>1. NoCleanup \in [on : BOOLEAN, tries : 0..MaxAttempts]
    BY JournalAssumption DEF NoCleanup
  <2>2. CASE /\ ~Pending(Known) /\ cleanup' = NoCleanup /\ UNCHANGED <<runVars, inbox, shutdown>>
    BY <1>15, <2>1, <2>2, Types DEF Retry
  <2>3. CASE SendCleanup /\ UNCHANGED <<runVars, shutdown>>
    BY <1>15, <2>3, CleanupType, Types DEF Retry
  <2>4. CASE /\ Pending(Known) /\ cleanup.tries = MaxAttempts /\ shutdown' = TRUE
             /\ inbox' = IF Available /\ ~shutdown THEN Append(inbox, "shutdown") ELSE inbox
             /\ \E w \in Outcomes :
                   FinishFailure(w) /\ cleanup' = IF w = "done" THEN NoCleanup ELSE cleanup
    <3>1. Append(inbox, "shutdown") \in Seq(Roots \cup {"stop", "shutdown"})
      BY Types
    <3>2. PICK w \in Outcomes :
             FinishFailure(w) /\ cleanup' = IF w = "done" THEN NoCleanup ELSE cleanup
      BY <2>4
    <3>3. Known \in Entry
      BY <2>4, KnownType
    <3>4. QED
      BY <1>15, <2>1, <2>4, <3>1, <3>2, <3>3, FinishType, Types DEF Retry
  <2>5. QED
    BY <1>15, <2>2, <2>3, <2>4 DEF Retry
<1>16. CASE ExitAsk
  <2>1. Known \in Entry /\ exit' \in [asked : BOOLEAN, ray : BOOLEAN, complete : BOOLEAN]
    BY <1>16, KnownType, Types DEF ExitAsk, RequiresCleanup
  <2>2. CASE cleanup' = [cleanup EXCEPT !.on = TRUE] /\ UNCHANGED <<runVars, inbox>>
    <3>1. [cleanup EXCEPT !.on = TRUE] \in [on : BOOLEAN, tries : 0..MaxAttempts]
      BY Types
    <3>2. QED
      BY <1>16, <2>1, <2>2, <3>1, Types DEF ExitAsk
  <2>3. CASE \E w \in Outcomes : RequestCleanup(w)
    BY <1>10, <1>16, <2>1, <2>3, Types DEF ExitAsk
  <2>4. QED
    BY <1>16, <2>2, <2>3 DEF ExitAsk
<1>17. CASE ExitRay
  <2>1. [exit EXCEPT !.ray = TRUE] \in [asked : BOOLEAN, ray : BOOLEAN, complete : BOOLEAN]
    BY Types
  <2>2. QED
    BY <1>17, <2>1, Types DEF ExitRay
<1>18. CASE ExitConfirm
  <2>1. exit' \in [asked : BOOLEAN, ray : BOOLEAN, complete : BOOLEAN]
    BY <1>18, Types DEF ExitConfirm
  <2>2. QED
    BY <1>18, <2>1, ConfirmType, Types DEF ExitConfirm
<1>19. CASE ExitInterrupt
  <2>1. exit' \in [asked : BOOLEAN, ray : BOOLEAN, complete : BOOLEAN]
    BY <1>19, Types DEF ExitInterrupt
  <2>2. CASE UNCHANGED <<mem, disk, log, faults>>
    BY <1>19, <2>1, <2>2, Types DEF ExitInterrupt
  <2>3. CASE ~UNCHANGED <<mem, disk, log, faults>>
    <3>1. mem \in Entry /\ mem' = [mem EXCEPT !.run = "interrupted"]
      BY <1>19, <2>3, Types DEF ExitInterrupt
    <3>2. mem' \in Entry
      BY <3>1, EntryShape DEF RunStates
    <3>3. PICK w \in Outcomes : Record(w, "interrupt_workflow", mem')
      BY <1>19, <2>3 DEF ExitInterrupt
    <3>4. disk' \in Entry \cup {NoRun} /\ log' \in Seq(Events) /\ faults' \in Nat
      BY <3>2, <3>3, Recorded, Types DEF Events
    <3>5. QED
      BY <1>19, <2>1, <3>2, <3>4, Types DEF ExitInterrupt
  <2>4. QED
    BY <2>2, <2>3
<1>20. ASSUME Take PROVE inbox' \in Seq(Roots \cup {"stop", "shutdown"})
  BY <1>20, TailSet, Types DEF Take
<1>21. CASE TakeTask
  <2>1. held' \subseteq Roots
    BY <1>21, Types DEF TakeTask
  <2>2. QED
    BY <1>20, <1>21, <2>1, Types DEF TakeTask, OnlySched
<1>22. \A x \in {"task", "ok", "refused"} : Append(outbox, x) \in Seq({"task", "ok", "refused"})
  BY Types
<1>23. ASSUME NEW t \in Roots, Start(t) \/ Finish(t)
       PROVE  Goal
  <2>1. outbox' \in Seq({"task", "ok", "refused"})
    BY <1>22, <1>23 DEF Start, Finish
  <2>2. leased' \subseteq Roots /\ held' \subseteq Roots
    BY <1>23, Types DEF Start, Finish
  <2>3. UNCHANGED <<inbox, sched>> /\ OnlySched
    BY <1>23 DEF Start, Finish
  <2>4. QED
    BY <2>1, <2>2, <2>3, Types DEF OnlySched
<1>24. CASE TakeStop
  <2>1. PICK k \in sched.done..Stages :
           /\ sched' = [sched EXCEPT !.stopped = TRUE, !.done = IF k = Stages THEN 0 ELSE k]
           /\ IF k = 0 THEN held' \in {held, held \cap leased}
              ELSE held' = IF k >= 2 THEN {} ELSE held \cap leased
           /\ leased' = IF k >= 2 THEN {} ELSE leased
           /\ outbox' = Append(outbox, IF k = Stages THEN "ok" ELSE "refused")
    BY <1>24 DEF TakeStop
  <2>2. k \in 0..Stages
    BY <2>1, Types DEF Stages
  <2>3. sched' \in [alive : BOOLEAN, fatal : BOOLEAN, stopped : BOOLEAN, done : 0..Stages]
    <3>1. (IF k = Stages THEN 0 ELSE k) \in 0..Stages
      BY <2>2 DEF Stages
    <3>2. QED
      BY <2>1, <3>1, Types
  <2>4. leased' \subseteq Roots /\ held' \subseteq Roots /\ outbox' \in Seq({"task", "ok", "refused"})
    BY <1>22, <2>1, Types
  <2>5. QED
    BY <1>20, <1>24, <2>3, <2>4, Types DEF TakeStop, OnlySched
<1> DEFINE Sched == [alive : BOOLEAN, fatal : BOOLEAN, stopped : BOOLEAN, done : 0..Stages]
<1>25. CASE Fail
  <2>1. [sched EXCEPT !.fatal = TRUE] \in Sched
    BY Types
  <2>2. QED
    BY <1>25, <2>1, Types DEF Fail, OnlySched
<1>26. CASE Die
  <2>1. [sched EXCEPT !.alive = FALSE] \in Sched
    BY Types
  <2>2. <<>> \in Seq(Roots \cup {"stop", "shutdown"})
    OBVIOUS
  <2>3. QED
    BY <1>26, <2>1, <2>2, Types DEF Die, OnlySched
<1>27. CASE Kill
  BY <1>26, <1>27 DEF Kill
<1>28. CASE Crash
  <2>1. /\ NoCleanup \in [on : BOOLEAN, tries : 0..MaxAttempts] /\ Fresh \in Sched
        /\ NoExit \in [asked : BOOLEAN, ray : BOOLEAN, complete : BOOLEAN]
    BY JournalAssumption DEF NoCleanup, NoExit, Fresh, Stages
  <2>2. /\ <<>> \in Seq(Roots \cup {"stop", "shutdown"}) /\ <<>> \in Seq({"task", "ok", "refused"})
        /\ {} \subseteq Roots
    OBVIOUS
  <2>3. QED
    BY <1>28, <2>1, <2>2, Types DEF Crash
<1>29. CASE Recover
  <2>1. PICK w \in Outcomes :
          /\ core' = IF w = "done" THEN "up" ELSE "down"
          /\ \/ /\ Settled(disk)
                /\ w = "done" /\ UNCHANGED <<runVars, cleanup, inbox>>
             \/ /\ disk # NoRun /\ disk.dispatch = "active" /\ disk.run = "created"
                /\ Record(w, "interrupt_workflow", [disk EXCEPT !.run = "interrupted"])
                /\ UNCHANGED <<mem, caps, told, cleanup, inbox>>
             \/ /\ disk # NoRun /\ disk.dispatch = "prepared"
                /\ FinishFailure(w) /\ UNCHANGED <<cleanup, inbox>>
             \/ RequiresCleanup(disk) /\ RequestCleanup(w)
    BY <1>29 DEF Recover
  <2>2. CASE UNCHANGED <<runVars, cleanup, inbox>>
    BY <1>29, <2>1, <2>2, Types DEF Recover
  <2>3. CASE /\ disk # NoRun
             /\ Record(w, "interrupt_workflow", [disk EXCEPT !.run = "interrupted"])
             /\ UNCHANGED <<mem, caps, told, cleanup, inbox>>
    <3>1. [disk EXCEPT !.run = "interrupted"] \in Entry
      BY <2>3, EntryShape, Types DEF RunStates
    <3>2. disk' \in Entry \cup {NoRun} /\ log' \in Seq(Events) /\ faults' \in Nat
      BY <2>3, <3>1, Recorded, Types DEF Events
    <3>3. QED
      BY <1>29, <2>1, <2>3, <3>2, Types DEF Recover
  <2>4. CASE disk # NoRun /\ ((FinishFailure(w) /\ UNCHANGED <<cleanup, inbox>>) \/ RequestCleanup(w))
    BY <1>10, <1>29, <2>1, <2>4, KnownType, Types DEF Recover
  <2>5. QED
    BY <2>1, <2>2, <2>3, <2>4 DEF RequiresCleanup
<1>30. CASE UNCHANGED vars
  BY <1>30, Types DEF vars
<1>31. QED
  BY <1>2, <1>5, <1>6, <1>7, <1>8, <1>9, <1>11, <1>12, <1>13, <1>14, <1>15, <1>16, <1>17, <1>18,
     <1>19, <1>21, <1>23, <1>24, <1>25, <1>26, <1>27, <1>28, <1>29, <1>30
     DEF Next, Submission, Core, Scheduler, Sweep

-------------------------------------------------------------------------------
(* Steps of the Scheduler. *)

\* A step of the Scheduler keeps the invariant when it starts nothing.
LEMMA SchedulerStep ==
    ASSUME JInv, Typed', InOrder', NoTasks => NoTasks',
           UNCHANGED <<core, step, runVars, cleanup, sent, acked, shutdown>>,
           disk = NoRun => /\ held' = {} /\ leased' = {} /\ inbox' = <<>> /\ outbox' = <<>>
                           /\ ~sched'.stopped,
           step # "idle" => /\ ~sched'.stopped /\ "stop" \notin ToSet(inbox')
                            /\ "ok" \notin ToSet(outbox'),
           core = "down" => /\ inbox' = <<>> /\ outbox' = <<>> /\ ~sched'.stopped
                            /\ exit' = exit
    PROVE  JInv'
<1> USE DEF JInv, runVars
<1>1. Shape(mem)' /\ Shape(disk)' /\ \A t \in Roots : sent'[t] \in {0, 1}
  BY DEF Shape
<1>2. Untouched'
  BY DEF Untouched
<1>3. FailLogged' = FailLogged /\ InterruptLogged' = InterruptLogged
  BY DEF FailLogged, InterruptLogged, Logged
<1>4. Submitting'
  <2>1. Ahead => Ahead'
    BY DEF Ahead
  <2>2. QED
    BY <1>3, <2>1 DEF Submitting
<1>5. Settling' /\ Answered'
  BY DEF Settling, Answered
<1>6. Down'
  BY DEF Down, NoExit
<1>7. Cleared'
  BY <1>3 DEF Cleared, Over
<1>8. InLog'
  BY <1>3 DEF InLog, FailureLast, Over
<1>9. QED
  BY <1>1, <1>2, <1>4, <1>5, <1>6, <1>7, <1>8

\* What is in the inbox after its first message was taken is in order.
LEMMA InboxTail ==
    ASSUME Typed, InOrder, inbox # <<>>, inbox' = Tail(inbox)
    PROVE  /\ \A i, j \in 1..Len(inbox') : i < j /\ inbox'[i] = "stop" => inbox'[j] \notin Roots
           /\ Head(inbox) = "stop" => \A t \in Roots : t \notin ToSet(inbox')
           /\ Head(inbox) \in ToSet(inbox) /\ ToSet(inbox') \subseteq ToSet(inbox)
<1> DEFINE S == Roots \cup {"stop", "shutdown"}
<1>1. inbox \in Seq(S)
  BY Types
<1>2. Len(inbox) \in Nat /\ Len(inbox) # 0 /\ Head(inbox) = inbox[1]
  BY <1>1
<1>3. /\ Len(inbox') = Len(inbox) - 1
      /\ \A i \in 1..Len(inbox) - 1 : inbox'[i] = inbox[i + 1]
  BY <1>1
<1>4. DOMAIN inbox' = 1..Len(inbox')
  <2>1. inbox' \in Seq(S)
    BY <1>1, TailSet
  <2>2. QED
    BY <2>1
<1>5. \A i, j \in 1..Len(inbox) : i < j /\ inbox[i] = "stop" => inbox[j] \notin Roots
  BY DEF InOrder
<1>6. \A i \in 1..Len(inbox') : i \in 1..Len(inbox) - 1 /\ i + 1 \in 1..Len(inbox) /\ 1 < i + 1
  BY <1>2, <1>3
<1>7. \A i, j \in 1..Len(inbox') : i < j /\ inbox'[i] = "stop" => inbox'[j] \notin Roots
  <2>1. SUFFICES ASSUME NEW i \in 1..Len(inbox'), NEW j \in 1..Len(inbox'),
                        i < j, inbox'[i] = "stop"
                 PROVE  inbox'[j] \notin Roots
    OBVIOUS
  <2>2. i + 1 < j + 1
    BY <2>1, <1>2, <1>3
  <2>3. QED
    BY <1>3, <1>5, <1>6, <2>1, <2>2
<1>8. Head(inbox) = "stop" => \A t \in Roots : t \notin ToSet(inbox')
  <2>1. 1 \in 1..Len(inbox)
    BY <1>2
  <2>2. QED
    BY <1>2, <1>3, <1>4, <1>5, <1>6, <2>1 DEF ToSet
<1>9. Head(inbox) \in ToSet(inbox) /\ ToSet(inbox') \subseteq ToSet(inbox)
  BY <1>1, TailSet
<1>10. QED
  BY <1>7, <1>8, <1>9

\* A task is taken from the inbox, or left when the workflow is stopped.
LEMMA TakeTaskStep == JInv /\ Typed' /\ TakeTask => JInv'
<1> SUFFICES ASSUME JInv, Typed', TakeTask
             PROVE  JInv'
  OBVIOUS
<1>1. /\ sched.alive /\ inbox # <<>> /\ inbox' = Tail(inbox) /\ Head(inbox) \in Roots
      /\ UNCHANGED <<core, step, runVars, cleanup, exit, sent, acked, shutdown>>
      /\ UNCHANGED <<sched, outbox, leased>>
      /\ held' \in {held, held \cup {Head(inbox)}}
  BY DEF TakeTask, Take, OnlySched
<1>2. /\ \A i, j \in 1..Len(inbox') : i < j /\ inbox'[i] = "stop" => inbox'[j] \notin Roots
      /\ Head(inbox) \in ToSet(inbox) /\ ToSet(inbox') \subseteq ToSet(inbox)
  BY <1>1, InboxTail DEF JInv
<1>3. ~NoTasks /\ ~sched.stopped /\ disk # NoRun /\ core # "down"
  BY <1>1, <1>2 DEF JInv, NoTasks, InOrder, Untouched, Down
<1>4. InOrder'
  BY <1>1, <1>2, <1>3 DEF JInv, InOrder
<1>5. step # "idle" => "stop" \notin ToSet(inbox') /\ "ok" \notin ToSet(outbox')
  BY <1>1, <1>2 DEF JInv, Submitting
<1>6. QED
  BY <1>1, <1>3, <1>4, <1>5, SchedulerStep

\* A task starts or ends.
LEMMA TaskStep ==
    ASSUME JInv, Typed', NEW t \in Roots, Start(t) \/ Finish(t)
    PROVE  JInv'
<1>1. /\ sched.alive /\ t \in held \cup leased /\ ~sched.stopped
      /\ UNCHANGED <<core, step, runVars, cleanup, exit, sent, acked, shutdown>>
      /\ UNCHANGED <<inbox, sched>> /\ outbox' = Append(outbox, "task")
  BY DEF Start, Finish, OnlySched
<1>2. ~NoTasks /\ disk # NoRun /\ core # "down" /\ ~exit.ray
  BY <1>1 DEF JInv, NoTasks, InOrder, Untouched, Down
<1>3. ToSet(outbox') = ToSet(outbox) \cup {"task"}
  BY <1>1, AppendSet, Types DEF JInv
<1>4. InOrder'
  BY <1>1, <1>2, <1>3 DEF JInv, InOrder
<1>5. step # "idle" => ~sched'.stopped /\ "stop" \notin ToSet(inbox') /\ "ok" \notin ToSet(outbox')
  BY <1>1, <1>3 DEF JInv, Submitting
<1>6. QED
  BY <1>1, <1>2, <1>4, <1>5, SchedulerStep

\* A stop is carried out as far as it comes.
LEMMA TakeStopStep == JInv /\ Typed' /\ TakeStop => JInv'
<1> SUFFICES ASSUME JInv, Typed', TakeStop
             PROVE  JInv'
  OBVIOUS
<1>1. /\ sched.alive /\ inbox # <<>> /\ inbox' = Tail(inbox) /\ Head(inbox) = "stop"
      /\ UNCHANGED <<core, step, runVars, cleanup, exit, sent, acked, shutdown>>
  BY DEF TakeStop, Take, OnlySched
<1>2. PICK k \in sched.done..Stages :
         /\ sched' = [sched EXCEPT !.stopped = TRUE, !.done = IF k = Stages THEN 0 ELSE k]
         /\ IF k = 0 THEN held' \in {held, held \cap leased}
            ELSE held' = IF k >= 2 THEN {} ELSE held \cap leased
         /\ leased' = IF k >= 2 THEN {} ELSE leased
         /\ outbox' = Append(outbox, IF k = Stages THEN "ok" ELSE "refused")
  BY DEF TakeStop
<1>3. /\ \A i, j \in 1..Len(inbox') : i < j /\ inbox'[i] = "stop" => inbox'[j] \notin Roots
      /\ \A t \in Roots : t \notin ToSet(inbox')
      /\ Head(inbox) \in ToSet(inbox) /\ ToSet(inbox') \subseteq ToSet(inbox)
  BY <1>1, InboxTail DEF JInv
<1>4. step = "idle" /\ disk # NoRun /\ core # "down"
  BY <1>1, <1>3 DEF JInv, Submitting, Untouched, Down
<1>5. ~exit.ray
  BY <1>1 DEF JInv, InOrder
<1>6. sched'.alive
  BY <1>1, <1>2, Types DEF JInv
<1>7. NoTasks => NoTasks'
  BY <1>2, <1>3 DEF NoTasks
<1>8. "ok" \in ToSet(outbox') => NoTasks'
  <2>1. CASE k = Stages
    BY <1>2, <1>3, <2>1 DEF NoTasks, Stages
  <2>2. CASE k # Stages
    <3>1. ToSet(outbox') = ToSet(outbox) \cup {"refused"}
      BY <1>2, <2>2, AppendSet, Types DEF JInv
    <3>2. "ok" \in ToSet(outbox') => NoTasks
      BY <3>1 DEF JInv, InOrder
    <3>3. QED
      BY <1>7, <3>2
  <2>3. QED
    BY <2>1, <2>2
<1>9. InOrder'
  BY <1>1, <1>3, <1>5, <1>6, <1>8 DEF InOrder
<1>10. QED
  BY <1>1, <1>4, <1>7, <1>9, SchedulerStep

\* The Scheduler fails or dies, and Ray is stopped.
LEMMA EndStep == JInv /\ Typed' /\ (Fail \/ Die \/ ExitRay) => JInv'
<1> SUFFICES ASSUME JInv, Typed', Fail \/ Die \/ ExitRay
             PROVE  JInv'
  OBVIOUS
<1>1. /\ UNCHANGED <<core, step, runVars, cleanup, sent, acked, shutdown, outbox>>
      /\ sched'.stopped = sched.stopped
      /\ inbox' \in {inbox, <<>>} /\ held' \in {held, {}} /\ leased' \in {leased, {}}
      /\ sched'.alive => sched.alive
      /\ ~sched'.alive => inbox' = <<>> \/ ~sched.alive
  BY Types DEF JInv, Fail, Die, ExitRay, OnlySched, Available
<1>2. exit' = exit \/ (core # "down" /\ ~sched'.alive /\ held' = {} /\ leased' = {})
  BY DEF Fail, Die, ExitRay, OnlySched, Free
<1>3. ToSet(inbox') \subseteq ToSet(inbox) /\ (NoTasks => NoTasks')
  BY <1>1, EmptySet DEF NoTasks
<1>4. \A i, j \in 1..Len(inbox') : i < j /\ inbox'[i] = "stop" => inbox'[j] \notin Roots
  BY <1>1 DEF JInv, InOrder
<1>5. InOrder'
  BY <1>1, <1>2, <1>3, <1>4 DEF JInv, InOrder
<1>6. /\ disk = NoRun => held' = {} /\ leased' = {} /\ inbox' = <<>> /\ outbox' = <<>>
      /\ core = "down" => inbox' = <<>> /\ outbox' = <<>> /\ ~sched'.stopped /\ exit' = exit
      /\ disk = NoRun => ~sched'.stopped
      /\ step # "idle" => /\ ~sched'.stopped /\ "stop" \notin ToSet(inbox')
                          /\ "ok" \notin ToSet(outbox')
  BY <1>1, <1>2, <1>3 DEF JInv, Untouched, Down, Submitting
<1>7. QED
  BY <1>1, <1>3, <1>5, <1>6, SchedulerStep

-------------------------------------------------------------------------------
(* Steps of the submission. *)

\* A message is added to the inbox in order.
LEMMA InboxAppend ==
    ASSUME Typed, InOrder, NEW x \in Roots \cup {"stop", "shutdown"}, inbox' = Append(inbox, x),
           x \in Roots => "stop" \notin ToSet(inbox)
    PROVE  /\ \A i, j \in 1..Len(inbox') : i < j /\ inbox'[i] = "stop" => inbox'[j] \notin Roots
           /\ ToSet(inbox') = ToSet(inbox) \cup {x}
<1>1. inbox \in Seq(Roots \cup {"stop", "shutdown"}) /\ Len(inbox) \in Nat
      /\ DOMAIN inbox = 1..Len(inbox)
  BY Types
<1>2. /\ Len(inbox') = Len(inbox) + 1 /\ inbox'[Len(inbox) + 1] = x
      /\ \A i \in 1..Len(inbox) : inbox'[i] = inbox[i]
  <2>1. /\ Len(Append(inbox, x)) = Len(inbox) + 1 /\ Append(inbox, x)[Len(inbox) + 1] = x
        /\ \A i \in 1..Len(inbox) : Append(inbox, x)[i] = inbox[i]
    BY <1>1
  <2>2. QED
    BY <2>1
<1>3. ASSUME NEW i \in 1..Len(inbox'), NEW j \in 1..Len(inbox'), i < j, inbox'[i] = "stop"
      PROVE  inbox'[j] \notin Roots
  <2>1. i \in 1..Len(inbox) /\ inbox[i] = "stop"
    BY <1>1, <1>2, <1>3
  <2>2. CASE j \in 1..Len(inbox)
    BY <1>2, <1>3, <2>1, <2>2 DEF InOrder
  <2>3. CASE j = Len(inbox) + 1
    <3>1. "stop" \in ToSet(inbox)
      BY <1>1, <2>1 DEF ToSet
    <3>2. QED
      BY <1>2, <2>3, <3>1, ValueAssumption
  <2>4. QED
    BY <1>1, <1>2, <2>2, <2>3
<1>4. ToSet(inbox') = ToSet(inbox) \cup {x}
  BY <1>1, AppendSet
<1>5. QED
  BY <1>3, <1>4

\* The messages stay in order when only those that start nothing are added.
LEMMA Undisturbed ==
    ASSUME Typed, InOrder, UNCHANGED <<sched, held, leased>>, exit'.ray => exit.ray,
           inbox' = inbox \/ (sched.alive /\ inbox' \in {Append(inbox, x) : x \in {"stop", "shutdown"}}),
           outbox' = outbox \/ (outbox # <<>> /\ outbox' = Tail(outbox))
    PROVE  InOrder' /\ (NoTasks' <=> NoTasks) /\ ToSet(outbox') \subseteq ToSet(outbox)
<1>1. /\ \A i, j \in 1..Len(inbox') : i < j /\ inbox'[i] = "stop" => inbox'[j] \notin Roots
      /\ \A t \in Roots : t \in ToSet(inbox') <=> t \in ToSet(inbox)
  <2>1. CASE inbox' = inbox
    BY <2>1 DEF InOrder
  <2>2. CASE inbox' # inbox
    <3>1. PICK x \in {"stop", "shutdown"} : inbox' = Append(inbox, x)
      BY <2>2
    <3>2. x \notin Roots
      BY ValueAssumption
    <3>3. QED
      BY <3>1, <3>2, InboxAppend
  <2>3. QED
    BY <2>1, <2>2
<1>2. NoTasks' <=> NoTasks
  BY <1>1 DEF NoTasks
<1>3. ToSet(outbox') \subseteq ToSet(outbox)
  BY TailSet, Types
<1>4. QED
  BY <1>1, <1>2, <1>3 DEF InOrder

\* A run is submitted.
LEMMA SubmitStep == JInv /\ Typed' /\ Submit => JInv'
<1> SUFFICES ASSUME JInv, Typed', Submit
             PROVE  JInv'
  OBVIOUS
<1> DEFINE new == [dispatch |-> "prepared", run |-> "created"]
<1>1. PICK w \in Outcomes :
         /\ Save(w, new)
         /\ IF w = "done" THEN mem' = disk' /\ step' = "prepare" ELSE UNCHANGED <<mem, step>>
  BY DEF Submit
<1>2. /\ core = "up" /\ step = "idle" /\ disk = NoRun
      /\ UNCHANGED <<core, log, caps, told, cleanup, exit, inbox, sent, acked, shutdown, crashes>>
      /\ UNCHANGED <<sched, outbox, held, leased, refusals>>
  BY DEF Submit, Free, schedVars
<1>3. /\ mem = NoRun /\ log = <<>> /\ caps = "none" /\ held = {} /\ leased = {} /\ inbox = <<>>
      /\ outbox = <<>> /\ ~sched.stopped /\ sent = [t \in Roots |-> 0] /\ ~acked /\ ~told /\ ~cleanup.on
  BY <1>2 DEF JInv, Untouched
<1>4. disk' \in {NoRun, new} /\ (w = "done" => disk' = new)
  BY <1>1, <1>2 DEF Save
<1>5. new \in Entry /\ new.dispatch = "prepared" /\ new.run = "created"
  BY DEF Entry, Journal, RunStates
<1>6. new # NoRun
  BY <1>5, ValueAssumption
<1>7. InOrder' /\ NoTasks /\ NoTasks'
  BY <1>2, <1>3, EmptySet DEF JInv, InOrder, NoTasks
<1>8. ~FailLogged' /\ ~InterruptLogged' /\ FailureLast'
  BY <1>2, <1>3, EmptySet DEF FailLogged, InterruptLogged, Logged, FailureLast
<1>9. Shape(mem)' /\ Shape(disk)' /\ (\A t \in Roots : sent'[t] \in {0, 1}) /\ Untouched'
  BY <1>1, <1>2, <1>3, <1>4, <1>5, <1>6 DEF Shape, Untouched
<1>10. Submitting'
  <2>1. w = "done" => Ahead'
    BY <1>1, <1>2, <1>3, <1>4, <1>5, <1>7 DEF Ahead
  <2>2. "stop" \notin ToSet(inbox') /\ "ok" \notin ToSet(outbox')
    BY <1>2, <1>3, EmptySet
  <2>3. QED
    BY <1>1, <1>2, <1>3, <1>4, <1>5, <1>6, <1>8, <2>1, <2>2 DEF Submitting
<1>11. Settling' /\ Answered' /\ Down'
  BY <1>1, <1>2, <1>3 DEF Settling, Answered, Down
<1>12. Cleared'
  BY <1>1, <1>2, <1>3, <1>4, <1>5, <1>6, <1>7 DEF Cleared, Over
<1>13. QED
  BY <1>7, <1>8, <1>9, <1>10, <1>11, <1>12 DEF JInv, InLog

\* A step of the submission keeps the invariant when it keeps its own part.
LEMMA SubmissionStep ==
    ASSUME JInv, Typed', step # "idle", step' # "idle",
           UNCHANGED <<core, told, cleanup, exit, acked, shutdown, sched, outbox, held, leased>>,
           mem' # NoRun, disk' # NoRun, caps' # "revoked", faults' >= faults,
           ToSet(log') \subseteq ToSet(log) \cup {"start_workflow"},
           "stop" \notin ToSet(inbox'),
           inbox' # inbox => sched.alive /\ mem.dispatch # "prepared",
           inbox' = inbox \/ \E t \in Roots : inbox' = Append(inbox, t),
           Ahead', \A t \in Roots : sent'[t] \in {0, 1},
           step' \in {"prepare", "event", "dispatching"} => mem'.dispatch = "prepared",
           step' \in {"send", "active"} => mem'.dispatch = "dispatching" /\ disk' = mem',
           step' = "active" => \A t \in Roots : sent'[t] = 1
    PROVE  JInv'
<1>1. /\ core = "up" /\ mem # NoRun /\ disk # NoRun /\ ~acked /\ ~told
      /\ ~FailLogged /\ ~InterruptLogged /\ ~sched.stopped /\ "ok" \notin ToSet(outbox)
  BY DEF JInv, Submitting
<1>2. ~FailLogged' /\ ~InterruptLogged'
  BY <1>1 DEF FailLogged, InterruptLogged, Logged
<1>3. FailureLast'
  <2>1. log' \in Seq(Events) /\ DOMAIN log' = 1..Len(log')
    BY DEF Typed, TypeOK
  <2>2. QED
    BY <1>2, <2>1 DEF FailureLast, FailLogged, Logged, ToSet
<1>4. InOrder'
  <2>1. \A i, j \in 1..Len(inbox') : i < j /\ inbox'[i] = "stop" => inbox'[j] \notin Roots
    <3>1. CASE inbox' = inbox
      BY <3>1 DEF JInv, InOrder
    <3>2. CASE inbox' # inbox
      <4>1. PICK t \in Roots : inbox' = Append(inbox, t)
        BY <3>2
      <4>2. "stop" \notin ToSet(inbox)
        BY DEF JInv, Submitting
      <4>3. QED
        BY <4>1, <4>2, InboxAppend DEF JInv
    <3>3. QED
      BY <3>1, <3>2
  <2>2. QED
    BY <1>1, <2>1 DEF JInv, InOrder
<1>5. Shape(mem)' /\ Shape(disk)' /\ Untouched' /\ Settling' /\ Answered' /\ Down'
  BY <1>1 DEF Ahead, Shape, Untouched, Settling, Answered, Down
<1>6. Submitting'
  BY <1>1, <1>2 DEF Submitting
<1>7. Cleared'
  BY <1>1 DEF Ahead, Cleared, Over
<1>8. QED
  BY <1>2, <1>3, <1>4, <1>5, <1>6, <1>7 DEF JInv, InLog

\* The state of the submission before one of its steps.
LEMMA InStep ==
    ASSUME JInv, NEW at, Starting(at), at # "idle"
    PROVE  /\ step = at /\ core = "up" /\ mem \in Entry /\ disk \in Entry /\ caps # "revoked"
           /\ "stop" \notin ToSet(inbox) /\ ~FailLogged /\ ~InterruptLogged /\ Ahead /\ ~acked /\ ~told
           /\ faults \in Nat
           /\ at \in {"prepare", "event", "dispatching"} =>
                 mem.dispatch = "prepared" /\ disk = mem /\ NoTasks /\ \A t \in Roots : sent[t] = 0
           /\ at \in {"send", "active"} => mem.dispatch = "dispatching" /\ disk = mem
           /\ at = "active" => \A t \in Roots : sent[t] = 1
           /\ mem.run = "created" /\ disk.run = "created"
BY Types DEF JInv, Submitting, Starting, Ahead

\* The artifacts are prepared.
LEMMA PrepareStep == JInv /\ Typed' /\ Prepare => JInv'
<1> SUFFICES ASSUME JInv, Typed', Prepare
             PROVE  JInv'
  OBVIOUS
<1>1. /\ step = "prepare" /\ mem \in Entry /\ disk = mem /\ "stop" \notin ToSet(inbox)
      /\ mem.dispatch = "prepared" /\ Ahead /\ faults \in Nat
  BY InStep DEF Prepare
<1>2. /\ UNCHANGED <<core, told, cleanup, exit, acked, shutdown, sched, outbox, held, leased>>
      /\ UNCHANGED <<log, inbox, sent>> /\ caps' = "issued"
  BY DEF Prepare, OnlyRun, schedVars
<1>3. disk' = mem /\ mem' = mem /\ faults' \in Nat /\ faults' >= faults /\ step' \in {"event", "failing"}
  <2>1. CASE Persist(mem, "event")
    <3>1. PICK w \in Outcomes :
             Save(w, mem) /\ mem' = mem /\ step' = IF w = "done" THEN "event" ELSE "failing"
      BY <2>1 DEF Persist
    <3>2. faults' \in Nat /\ faults' >= faults /\ disk' \in {disk, mem}
      BY <1>1, <3>1, Saved DEF JInv
    <3>3. QED
      BY <1>1, <3>1, <3>2
  <2>2. CASE step' = "failing" /\ UNCHANGED <<mem, disk, faults>>
    BY <1>1, <2>2
  <2>3. QED
    BY <2>1, <2>2 DEF Prepare
<1>4. Ahead' /\ \A t \in Roots : sent'[t] \in {0, 1}
  BY <1>1, <1>2, <1>3 DEF JInv, Ahead, NoTasks
<1>5. mem # NoRun
  BY <1>1, EntryShape
<1>6. QED
  BY <1>1, <1>2, <1>3, <1>4, <1>5, SubmissionStep

\* The start is recorded.
LEMMA StartEventStep == JInv /\ Typed' /\ StartEvent => JInv'
<1> SUFFICES ASSUME JInv, Typed', StartEvent
             PROVE  JInv'
  OBVIOUS
<1>1. /\ step = "event" /\ mem \in Entry /\ disk = mem /\ "stop" \notin ToSet(inbox)
      /\ mem.dispatch = "prepared" /\ Ahead /\ caps # "revoked"
  BY InStep DEF StartEvent
<1>2. /\ UNCHANGED <<core, told, cleanup, exit, acked, shutdown, sched, outbox, held, leased>>
      /\ UNCHANGED <<mem, caps, inbox, sent>> /\ disk' = disk /\ step' \in {"dispatching", "failing"}
  BY DEF StartEvent, OnlyRun, schedVars
<1>3. faults' \in Nat /\ faults' >= faults /\ ToSet(log') \subseteq ToSet(log) \cup {"start_workflow"}
  BY <1>1, Recorded DEF StartEvent, Events, JInv
<1>4. Ahead' /\ \A t \in Roots : sent'[t] \in {0, 1}
  BY <1>1, <1>2 DEF JInv, Ahead, NoTasks
<1>5. mem # NoRun
  BY <1>1, EntryShape
<1>6. QED
  BY <1>1, <1>2, <1>3, <1>4, <1>5, SubmissionStep

\* The journal says that tasks may have been sent.
LEMMA MarkDispatchingStep == JInv /\ Typed' /\ MarkDispatching => JInv'
<1> SUFFICES ASSUME JInv, Typed', MarkDispatching
             PROVE  JInv'
  OBVIOUS
<1> DEFINE m == [mem EXCEPT !.dispatch = "dispatching"]
<1>1. /\ step = "dispatching" /\ mem \in Entry /\ disk = mem /\ "stop" \notin ToSet(inbox)
      /\ mem.dispatch = "prepared" /\ mem.run = "created" /\ caps # "revoked"
  BY InStep DEF MarkDispatching
<1>2. /\ UNCHANGED <<core, told, cleanup, exit, acked, shutdown, sched, outbox, held, leased>>
      /\ UNCHANGED <<log, caps, inbox, sent>>
  BY DEF MarkDispatching, OnlyRun, schedVars
<1>3. m \in Entry /\ m.dispatch = "dispatching" /\ m.run = "created"
  BY <1>1, EntryShape DEF Journal
<1>4. PICK w \in Outcomes :
         Save(w, m) /\ mem' = m /\ step' = IF w = "done" THEN "send" ELSE "failing"
  BY DEF MarkDispatching, Persist
<1> HIDE DEF m
<1>5. faults' \in Nat /\ faults' >= faults /\ disk' \in {disk, m} /\ (w = "done" => disk' = m)
  BY <1>3, <1>4, Saved DEF JInv
<1>6. Ahead' /\ \A t \in Roots : sent'[t] \in {0, 1}
  BY <1>1, <1>2, <1>3, <1>4, <1>5 DEF JInv, Ahead
<1>7. mem' # NoRun /\ disk' # NoRun
  BY <1>1, <1>3, <1>4, <1>5, EntryShape
<1>8. QED
  BY <1>1, <1>2, <1>3, <1>4, <1>5, <1>6, <1>7, SubmissionStep

\* A root task is sent.
LEMMA SendStep ==
    ASSUME JInv, Typed', NEW t \in Roots, Send(t)
    PROVE  JInv'
<1>1. /\ step = "send" /\ mem \in Entry /\ disk = mem /\ "stop" \notin ToSet(inbox)
      /\ mem.dispatch = "dispatching" /\ mem.run = "created" /\ caps # "revoked" /\ Ahead
      /\ faults \in Nat
  BY InStep DEF Send
<1>2. /\ UNCHANGED <<core, told, cleanup, exit, acked, shutdown, sched, outbox, held, leased>>
      /\ UNCHANGED <<mem, disk, log, caps, faults>> /\ sent[t] = 0
  BY DEF Send, OnlyRun, schedVars
<1>3. Ahead'
  BY <1>1, <1>2 DEF Ahead
<1>4. mem # NoRun
  BY <1>1, EntryShape
<1>5. sent \in [Roots -> Nat] /\ \A u \in Roots : sent[u] \in {0, 1}
  BY Types DEF JInv
<1>6. CASE Available
  <2>1. /\ inbox' = Append(inbox, t) /\ sent' = [sent EXCEPT ![t] = @ + 1]
        /\ step' = IF \A u \in Roots : sent'[u] > 0 THEN "active" ELSE "send"
    BY <1>6 DEF Send
  <2>2. \A u \in Roots : sent'[u] = IF u = t THEN 1 ELSE sent[u]
    BY <1>2, <1>5, <2>1
  <2>3. \A u \in Roots : sent'[u] \in {0, 1} /\ (sent'[u] > 0 => sent'[u] = 1)
    BY <1>5, <2>2
  <2>4. "stop" \notin ToSet(inbox')
    BY <1>1, <2>1, InboxAppend, ValueAssumption DEF JInv
  <2>5. QED
    BY <1>1, <1>2, <1>3, <1>4, <1>6, <2>1, <2>3, <2>4, SubmissionStep DEF Available
<1>7. CASE ~Available
  <2>1. step' = "failing" /\ UNCHANGED <<inbox, sent>>
    BY <1>7 DEF Send
  <2>2. QED
    BY <1>1, <1>2, <1>3, <1>4, <1>5, <2>1, SubmissionStep
<1>8. QED
  BY <1>6, <1>7

\* The dispatch is active, and the client is answered.
LEMMA ActivateStep == JInv /\ Typed' /\ Activate => JInv'
<1> SUFFICES ASSUME JInv, Typed', Activate
             PROVE  JInv'
  OBVIOUS
<1> DEFINE m == [mem EXCEPT !.dispatch = "active"]
<1>1. /\ step = "active" /\ mem \in Entry /\ disk = mem /\ "stop" \notin ToSet(inbox) /\ core = "up"
      /\ mem.dispatch = "dispatching" /\ mem.run = "created" /\ caps # "revoked"
      /\ \A t \in Roots : sent[t] = 1
      /\ ~FailLogged /\ ~InterruptLogged /\ ~told /\ ~acked
  BY InStep DEF Activate
<1>2. /\ UNCHANGED <<core, told, cleanup, exit, shutdown, sched, outbox, held, leased>>
      /\ UNCHANGED <<log, caps, inbox, sent>> /\ acked' = (step' = "idle")
  BY DEF Activate, schedVars
<1>3. m \in Entry /\ m.dispatch = "active" /\ m.run = "created"
  BY <1>1, EntryShape DEF Journal
<1>4. PICK w \in Outcomes :
         Save(w, m) /\ mem' = m /\ step' = IF w = "done" THEN "idle" ELSE "failing"
  BY DEF Activate, Persist
<1> HIDE DEF m
<1>5. /\ faults' \in Nat /\ faults' >= faults /\ disk' \in {disk, m} /\ (w = "done" => disk' = m)
      /\ w # "done" => faults' > faults /\ faults \in Nat
  BY <1>3, <1>4, Saved, Types DEF JInv
<1>6. mem' # NoRun /\ disk' # NoRun
  BY <1>1, <1>3, <1>4, <1>5, EntryShape
<1>7. CASE w # "done"
  <2>1. step' = "failing" /\ acked' = acked
    BY <1>1, <1>2, <1>4, <1>7, Types DEF JInv
  <2>2. Ahead'
    <3>1. faults' > 0
      BY <1>5, <1>7
    <3>2. QED
      BY <1>1, <1>3, <1>4, <1>5, <3>1 DEF Ahead
  <2>3. QED
    BY <1>1, <1>2, <1>3, <1>4, <1>5, <1>6, <2>1, <2>2, SubmissionStep
<1>8. CASE w = "done"
  <2>1. step' = "idle" /\ acked' /\ disk' = m /\ mem' = m
    BY <1>2, <1>4, <1>5, <1>8
  <2>2. Shape(mem)' /\ Shape(disk)' /\ Untouched' /\ Submitting' /\ Settling' /\ Answered' /\ Down'
    BY <1>1, <1>2, <1>3, <1>6, <2>1 DEF Shape, Untouched, Submitting, Settling, Answered, Down
  <2>3. ~FailLogged' /\ ~InterruptLogged'
    BY <1>1, <1>2 DEF FailLogged, InterruptLogged, Logged
  <2>4. FailureLast'
    BY <1>1, <1>2, Types DEF FailureLast, FailLogged, Logged, ToSet, JInv
  <2>5. InOrder'
    BY <1>2 DEF JInv, InOrder, NoTasks
  <2>6. Cleared'
    BY <1>1, <1>2, <1>3, <2>1 DEF Cleared, Over
  <2>7. QED
    BY <1>2, <2>2, <2>3, <2>4, <2>5, <2>6 DEF JInv, InLog
<1>9. QED
  BY <1>7, <1>8

-------------------------------------------------------------------------------
(* Steps of the cleanup. *)

\* A run that this process knows has a journal.
LEMMA KnownRun ==
    ASSUME JInv, Known \in Entry
    PROVE  /\ disk \in Entry /\ disk # NoRun /\ (mem = NoRun => Known = disk)
           /\ mem # NoRun => mem = Known /\ mem \in Entry
<1>1. Known # NoRun
  BY EntryShape
<1>2. disk # NoRun
  BY <1>1 DEF JInv, Untouched, Known
<1>3. QED
  BY <1>2, Types DEF JInv, Known

\* A failed dispatch ends once nothing is left of it.
LEMMA FinishStep ==
    ASSUME JInv, Typed', NEW w \in Outcomes, FinishFailure(w), Known \in Entry,
           Known.dispatch \in {"prepared", "cleanup_pending"},
           disk.dispatch = "active" => faults > 1,
           step' = "idle", ~acked, UNCHANGED <<sent, acked>>, mem' # NoRun => core' = "up",
           shutdown' \/ NoTasks', InOrder', Down'
    PROVE  JInv'
<1>1. /\ disk \in Entry /\ disk # NoRun /\ (mem = NoRun => Known = disk)
      /\ mem # NoRun => mem = Known /\ mem \in Entry
  BY KnownRun
<1>2. /\ Failed(Known) \in Entry /\ Failed(Known) # NoRun
      /\ Failed(Known).dispatch = "terminal" /\ Failed(Known).run = "failed"
  BY EntryShape
<1>3. /\ Record(w, "workflow_submission_failed", Failed(Known)) /\ caps' = "revoked"
      /\ mem' = IF mem = NoRun THEN NoRun ELSE Failed(Known)
      /\ told' => told \/ w = "done"
  BY <1>1 DEF FinishFailure
<1> DEFINE type == "workflow_submission_failed"
           m == Failed(Known)
<1>4. /\ faults' \in Nat /\ faults' >= faults /\ disk' \in {disk, m}
      /\ w = "done" => disk' = m
      /\ w # "done" => faults' > faults
      /\ log' \in Seq(Events) /\ log' \in {log, Append(log, type)}
      /\ ToSet(log') \subseteq ToSet(log) \cup {type} /\ ToSet(log) \subseteq ToSet(log')
      /\ log' # log => ~Logged(type)
      /\ w # "nothing" => type \in ToSet(log')
  <2>1. type \in Events
    BY DEF Events
  <2>2. QED
    BY <1>2, <1>3, <2>1, Recorded DEF JInv
<1> HIDE DEF m
<1>5. m.dispatch = "terminal" /\ m.run = "failed" /\ m # NoRun /\ m = Failed(Known)
  BY <1>2 DEF m
<1>6. disk'.dispatch = "active" => disk' = disk /\ faults' > 2
  <2>1. disk'.dispatch = "active" => disk' = disk /\ w # "done"
    BY <1>4, <1>5
  <2>2. faults \in Nat
    BY Types DEF JInv
  <2>3. QED
    BY <1>4, <2>1, <2>2
<1>7. FailLogged => FailLogged'
  BY <1>4 DEF FailLogged, Logged
<1>8. Shape(mem)' /\ Shape(disk)' /\ \A t \in Roots : sent'[t] \in {0, 1}
  BY <1>3, <1>4, <1>5 DEF JInv, Shape
<1>9. Untouched' /\ Submitting' /\ Answered'
  BY <1>1, <1>4, <1>5 DEF Untouched, Submitting, Answered
<1>10. Settling'
  BY <1>3, <1>5, <1>6 DEF Settling
<1>11. Cleared'
  <2>1. told' => FailLogged' /\ Over(disk)'
    <3>1. CASE told
      BY <1>4, <1>5, <1>7, <3>1 DEF JInv, Cleared, Over
    <3>2. CASE w = "done"
      BY <1>4, <1>5, <3>2 DEF Over, FailLogged, Logged
    <3>3. QED
      BY <1>3, <3>1, <3>2
  <2>2. QED
    BY <1>3, <2>1 DEF Cleared
<1>12. ~InterruptLogged'
  <2>1. ~InterruptLogged
    BY <1>1 DEF JInv, InLog
  <2>2. QED
    BY <1>4, <2>1 DEF InterruptLogged, Logged
<1>13. FailureLast'
  <2>1. type \in Events /\ (log' # log => ~FailLogged)
    BY <1>4 DEF Events, FailLogged
  <2>2. QED
    BY <1>4, <2>1, LastKept DEF JInv, InLog
<1>14. InLog'
  <2>1. mem' # NoRun => Over(mem)'
    BY <1>3, <1>5 DEF Over
  <2>2. QED
    BY <1>6, <1>12, <1>13, <2>1 DEF InLog
<1>15. QED
  BY <1>8, <1>9, <1>10, <1>11, <1>14 DEF JInv

\* The cleanup of a failed dispatch is requested.
LEMMA RequestStep ==
    ASSUME JInv, Typed', NEW w \in Outcomes, RequestCleanup(w), Known \in Entry,
           \/ step = "failing" /\ mem.dispatch # "prepared"
           \/ step = "idle" /\ Pending(mem)
           \/ mem = NoRun /\ step = "idle" /\ RequiresCleanup(disk),
           step' = "idle", UNCHANGED <<sent, acked, shutdown, sched, outbox, held, leased>>,
           exit'.ray = exit.ray, core' = "up" \/ mem' = NoRun, Down'
    PROVE  JInv'
<1> DEFINE m == [Known EXCEPT !.dispatch = "cleanup_pending"]
<1>1. /\ disk \in Entry /\ disk # NoRun /\ (mem = NoRun => Known = disk)
      /\ mem # NoRun => mem = Known /\ mem \in Entry
  BY KnownRun
<1>2. m \in Entry /\ m # NoRun /\ m.dispatch = "cleanup_pending" /\ m.run = Known.run
  BY EntryShape DEF Journal
<1>3. /\ UNCHANGED <<log, caps, told>>
      /\ inbox' = inbox \/ (sched.alive /\ inbox' = Append(inbox, "stop"))
      /\ Pending(Known) => UNCHANGED <<mem, disk, faults>>
      /\ ~Pending(Known) => Save(w, m) /\ mem' = IF mem = NoRun THEN NoRun ELSE m
  BY DEF RequestCleanup, SendCleanup, Available
<1>4. /\ faults' \in Nat /\ faults' >= faults /\ disk' \in {disk, m} /\ disk' # NoRun
      /\ disk' = disk => (Pending(Known) \/ faults' > faults \/ disk = m)
  <2>1. CASE Pending(Known)
    BY <1>1, <1>3, <2>1, Types DEF JInv
  <2>2. CASE ~Pending(Known)
    BY <1>1, <1>2, <1>3, <2>2, Saved DEF JInv
  <2>3. QED
    BY <2>1, <2>2
<1>5. mem' = IF mem = NoRun THEN NoRun ELSE m
  <2>1. CASE Pending(Known)
    <3>1. m = Known
      BY <2>1 DEF Pending, Entry
    <3>2. QED
      BY <1>1, <1>3, <2>1, <3>1
  <2>2. QED
    BY <1>3, <2>1
<1>6. Known.dispatch \in {"dispatching", "active", "cleanup_pending"} /\ Known.run = "created"
  <2>1. CASE step = "failing"
    BY <1>1, <2>1 DEF JInv, Submitting, Ahead
  <2>2. CASE step # "failing"
    BY <1>1, <2>2 DEF JInv, Shape, Pending, RequiresCleanup, Entry, RunStates
  <2>3. QED
    BY <2>1, <2>2
<1> HIDE DEF m
<1>7. /\ disk.dispatch # "terminal" /\ ~acked /\ ~told /\ ~InterruptLogged
      /\ FailLogged => mem = NoRun /\ disk.dispatch # "active"
      /\ mem = NoRun => disk.dispatch # "active"
      /\ disk.dispatch = "active" => IF Pending(Known) THEN faults > 1 ELSE faults > 0
  <2>1. CASE step = "failing"
    BY <1>1, <2>1 DEF JInv, Submitting, Ahead, Pending
  <2>2. CASE step = "idle" /\ Pending(mem)
    BY <1>1, <2>2 DEF JInv, Settling, Answered, Cleared, InLog, Over, Pending
  <2>3. CASE mem = NoRun /\ RequiresCleanup(disk)
    BY <1>1, <2>3 DEF JInv, Answered, Cleared, InLog, Over, RequiresCleanup
  <2>4. QED
    BY <2>1, <2>2, <2>3
<1>8. disk'.dispatch = "active" => disk' = disk /\ faults' > 1
  <2>1. faults \in Nat
    BY Types DEF JInv
  <2>2. disk'.dispatch = "active" => disk' = disk /\ (Pending(Known) \/ faults' > faults)
    BY <1>2, <1>4
  <2>3. QED
    BY <1>4, <1>7, <2>1, <2>2
<1>9. InOrder' /\ (NoTasks' <=> NoTasks)
  BY <1>3, Undisturbed DEF JInv
<1>10. Shape(mem)' /\ Shape(disk)' /\ \A t \in Roots : sent'[t] \in {0, 1}
  BY <1>2, <1>4, <1>5, <1>6 DEF JInv, Shape
<1>11. Untouched' /\ Submitting' /\ Answered'
  BY <1>4, <1>7 DEF Untouched, Submitting, Answered
<1>12. Settling'
  BY <1>2, <1>4, <1>5, <1>7, <1>8 DEF Settling
<1>13. FailLogged' = FailLogged /\ InterruptLogged' = InterruptLogged
  BY <1>3 DEF FailLogged, InterruptLogged, Logged
<1>14. Cleared'
  <2>1. ~Over(mem)' /\ ~Over(disk)'
    BY <1>2, <1>4, <1>5, <1>7 DEF Over
  <2>2. caps = "revoked" => shutdown \/ NoTasks
    BY DEF JInv, Cleared
  <2>3. QED
    BY <1>3, <1>7, <1>9, <2>1, <2>2 DEF Cleared
<1>15. InLog'
  <2>1. FailureLast'
    BY <1>3, <1>4, <1>7, LastKept, Types DEF JInv, InLog, Events
  <2>2. FailLogged => mem' = NoRun /\ disk'.dispatch # "active"
    BY <1>2, <1>4, <1>5, <1>7
  <2>3. QED
    BY <1>7, <1>13, <2>1, <2>2 DEF InLog
<1>16. QED
  BY <1>9, <1>10, <1>11, <1>12, <1>14, <1>15 DEF JInv

\* The submission fails.
LEMMA FailDispatchStep == JInv /\ Typed' /\ FailDispatch => JInv'
<1> SUFFICES ASSUME JInv, Typed', FailDispatch
             PROVE  JInv'
  OBVIOUS
<1>1. /\ step = "failing" /\ step' = "idle" /\ core = "up"
      /\ UNCHANGED <<core, exit, sent, acked, shutdown, sched, outbox, held, leased>>
  BY DEF FailDispatch, Starting, OnlyCleanup, schedVars
<1>2. mem \in Entry /\ disk \in Entry /\ Ahead /\ ~acked
  BY <1>1, InStep DEF Starting
<1>3. Known = mem /\ Known \in Entry
  BY <1>2, EntryShape DEF Known
<1>4. Down'
  BY <1>1 DEF Down
<1>5. CASE mem.dispatch = "prepared"
  <2>1. PICK w \in Outcomes : FinishFailure(w) /\ UNCHANGED <<cleanup, inbox>>
    BY <1>5 DEF FailDispatch
  <2>2. disk = mem /\ NoTasks
    BY <1>2, <1>5 DEF Ahead
  <2>3. NoTasks' /\ InOrder'
    BY <1>1, <2>1, <2>2 DEF JInv, InOrder, NoTasks
  <2>4. QED
    BY <1>1, <1>2, <1>3, <1>4, <1>5, <2>1, <2>2, <2>3, FinishStep
<1>6. CASE mem.dispatch # "prepared"
  <2>1. PICK w \in Outcomes : RequestCleanup(w)
    BY <1>6 DEF FailDispatch
  <2>2. QED
    BY <1>1, <1>3, <1>4, <1>6, <2>1, RequestStep
<1>7. QED
  BY <1>5, <1>6

\* In memory, only a pending cleanup requires one when no submission is in progress.
LEMMA PendingOnly ==
    ASSUME JInv, step = "idle", RequiresCleanup(mem)
    PROVE  Pending(mem) /\ Known = mem /\ Known \in Entry
BY Types DEF JInv, Settling, RequiresCleanup, Pending, Known

\* A client stops the run.
LEMMA StopWorkflowStep == JInv /\ Typed' /\ StopWorkflow => JInv'
<1> SUFFICES ASSUME JInv, Typed', StopWorkflow
             PROVE  JInv'
  OBVIOUS
<1>1. /\ step = "idle" /\ core = "up" /\ RequiresCleanup(mem)
      /\ UNCHANGED <<core, step, exit, sent, acked, shutdown, sched, outbox, held, leased>>
  BY DEF StopWorkflow, Free, OnlyCleanup, schedVars
<1>2. PICK w \in Outcomes : RequestCleanup(w)
  BY DEF StopWorkflow
<1>3. Pending(mem) /\ Known \in Entry
  BY <1>1, PendingOnly
<1>4. Down'
  BY <1>1 DEF Down
<1>5. QED
  BY <1>1, <1>2, <1>3, <1>4, RequestStep

\* A dispatch whose cleanup is pending is no further than that.
LEMMA PendingKnown ==
    ASSUME JInv, step = "idle", Pending(Known)
    PROVE  /\ Known \in Entry /\ Known.dispatch = "cleanup_pending" /\ ~acked
           /\ disk.dispatch = "active" => faults > 1
<1>1. Known \in Entry /\ Known.dispatch = "cleanup_pending"
  BY KnownType DEF JInv, Pending
<1>2. /\ disk \in Entry /\ disk # NoRun /\ (mem = NoRun => Known = disk)
      /\ mem # NoRun => mem = Known /\ mem \in Entry
  BY <1>1, KnownRun
<1>3. QED
  BY <1>1, <1>2 DEF JInv, Settling, Answered

\* The cleanup is confirmed when nothing is left.
LEMMA ConfirmStep ==
    ASSUME JInv, Typed', NEW w \in Outcomes, Confirm(w), core = "up", step = "idle",
           UNCHANGED <<core, step, sent, acked, shutdown>>, NoTasks', InOrder',
           disk = NoRun => UNCHANGED <<held, leased, inbox, outbox, sched>>
    PROVE  JInv'
<1>1. Down'
  BY DEF Down
<1>2. CASE Pending(Known)
  <2>1. FinishFailure(w)
    BY <1>2 DEF Confirm
  <2>2. QED
    BY <1>1, <1>2, <2>1, PendingKnown, FinishStep
<1>3. CASE ~Pending(Known)
  <2>1. UNCHANGED runVars /\ cleanup' = NoCleanup
    BY <1>3 DEF Confirm
  <2>2. FailLogged' = FailLogged /\ InterruptLogged' = InterruptLogged
    BY <2>1 DEF FailLogged, InterruptLogged, Logged, runVars
  <2>3. Shape(mem)' /\ Shape(disk)' /\ \A t \in Roots : sent'[t] \in {0, 1}
    BY <2>1 DEF JInv, Shape, runVars
  <2>4. Untouched' /\ Submitting' /\ Settling' /\ Answered'
    BY <2>1 DEF JInv, Untouched, Submitting, Settling, Answered, runVars, NoCleanup
  <2>5. Cleared' /\ InLog'
    BY <2>1, <2>2 DEF JInv, Cleared, InLog, FailureLast, Over, runVars
  <2>6. QED
    BY <1>1, <2>3, <2>4, <2>5 DEF JInv
<1>4. QED
  BY <1>2, <1>3

\* What a step that leaves the run alone keeps.
LEMMA RunKept ==
    ASSUME JInv, Typed', UNCHANGED runVars, core = "up", step = "idle", disk # NoRun,
           UNCHANGED <<core, step, sent, acked>>, shutdown' \/ (~shutdown /\ (NoTasks => NoTasks')),
           InOrder'
    PROVE  JInv'
<1>1. FailLogged' = FailLogged /\ InterruptLogged' = InterruptLogged
  BY DEF FailLogged, InterruptLogged, Logged, runVars
<1>2. Shape(mem)' /\ Shape(disk)' /\ \A t \in Roots : sent'[t] \in {0, 1}
  BY DEF JInv, Shape, runVars
<1>3. Untouched' /\ Submitting' /\ Settling' /\ Answered' /\ Down'
  BY DEF JInv, Untouched, Submitting, Settling, Answered, Down, runVars
<1>4. Cleared' /\ InLog'
  BY <1>1 DEF JInv, Cleared, InLog, FailureLast, Over, runVars
<1>5. QED
  BY <1>2, <1>3, <1>4 DEF JInv

\* The Scheduler answers.
LEMMA ReplyStep == JInv /\ Typed' /\ Reply => JInv'
<1> SUFFICES ASSUME JInv, Typed', Reply
             PROVE  JInv'
  OBVIOUS
<1>1. /\ core = "up" /\ step = "idle" /\ outbox # <<>>
      /\ UNCHANGED <<core, step, exit, inbox, sent, acked, shutdown, sched, held, leased>>
  BY DEF Reply, Free
<1>2. PICK w \in Outcomes :
         /\ IF Head(outbox) = "ok" THEN Confirm(w)
            ELSE w = "done" /\ UNCHANGED <<runVars, cleanup>>
         /\ outbox' = IF w = "done" THEN Tail(outbox) ELSE outbox
  BY DEF Reply
<1>3. disk # NoRun
  BY <1>1 DEF JInv, Untouched
<1>4. InOrder' /\ (NoTasks' <=> NoTasks)
  BY <1>1, <1>2, Undisturbed DEF JInv
<1>5. CASE Head(outbox) = "ok"
  <2>1. "ok" \in ToSet(outbox)
    BY <1>1, <1>5, TailSet, Types DEF JInv
  <2>2. NoTasks'
    BY <1>4, <2>1 DEF JInv, InOrder
  <2>3. QED
    BY <1>1, <1>2, <1>3, <1>4, <1>5, <2>2, ConfirmStep
<1>6. CASE Head(outbox) # "ok"
  BY <1>1, <1>2, <1>3, <1>4, <1>6, RunKept, Types DEF JInv
<1>7. QED
  BY <1>5, <1>6

-------------------------------------------------------------------------------
(* Steps of an active run, of the maintenance, and of the end of the Core. *)

\* An active run is written, with an event of a task or with its interruption.
LEMMA ActiveStep ==
    ASSUME JInv, Typed', NEW w \in Outcomes, NEW type \in {"task", "interrupt_workflow"},
           NEW m \in Entry, Record(w, type, m), m.dispatch = "active", m.run # "failed",
           disk # NoRun, disk.dispatch = "active", step = "idle",
           \/ mem' = NoRun /\ mem = NoRun
           \/ mem' = m /\ mem # NoRun /\ mem.dispatch = "active",
           type = "task" => mem # NoRun, core' = "up" \/ mem' = NoRun,
           UNCHANGED <<step, caps, told, sent, acked, shutdown>>,
           InOrder', Down', NoTasks => NoTasks'
    PROVE  JInv'
<1>1. type \in Events
  BY DEF Events
<1>2. /\ faults' \in Nat /\ faults' >= faults /\ disk' \in {disk, m} /\ faults \in Nat
      /\ log' \in Seq(Events) /\ log' \in {log, Append(log, type)}
      /\ ToSet(log') \subseteq ToSet(log) \cup {type} /\ ToSet(log) \subseteq ToSet(log')
      /\ log' # log => ~Logged(type)
  BY <1>1, Recorded, Types DEF JInv
<1>3. m # NoRun /\ disk' # NoRun /\ disk'.dispatch = "active"
  BY <1>2, EntryShape
<1>4. FailLogged' <=> FailLogged
  BY <1>2 DEF FailLogged, Logged
<1>5. FailLogged => mem = NoRun /\ faults > 2 /\ ~acked
  BY DEF JInv, InLog, Over
<1>6. ~told /\ (mem # NoRun => acked)
  BY DEF JInv, Cleared, Settling, Over
<1>7. Shape(mem)' /\ Shape(disk)' /\ \A t \in Roots : sent'[t] \in {0, 1}
  BY <1>2 DEF JInv, Shape
<1>8. Untouched' /\ Submitting'
  BY <1>3 DEF Untouched, Submitting
<1>9. Settling' /\ Answered'
  BY <1>3, <1>6 DEF JInv, Settling, Answered
<1>10. Cleared'
  <2>1. ~Over(mem)' /\ ~Over(disk)'
    BY <1>3 DEF Over
  <2>2. caps = "revoked" => shutdown \/ NoTasks
    BY DEF JInv, Cleared
  <2>3. QED
    BY <1>6, <2>1, <2>2 DEF Cleared
<1>11. FailureLast'
  <2>1. faults' > 2 \/ ~FailLogged
    BY <1>2, <1>5
  <2>2. log' # log /\ FailLogged => type = "interrupt_workflow" /\ ~InterruptLogged
    BY <1>2, <1>5 DEF InterruptLogged
  <2>3. QED
    BY <1>1, <1>2, <2>1, <2>2, LastKept DEF JInv, InLog
<1>12. InLog'
  <2>1. FailLogged => mem' = NoRun /\ faults' > 2 /\ ~acked
    BY <1>2, <1>5
  <2>2. mem' # NoRun => mem'.dispatch = "active"
    OBVIOUS
  <2>3. QED
    BY <1>3, <1>4, <1>11, <2>1, <2>2 DEF InLog
<1>13. QED
  BY <1>7, <1>8, <1>9, <1>10, <1>12 DEF JInv

\* An event of a task is recorded or dropped.
LEMMA TaskEventStep == JInv /\ Typed' /\ TaskEvent => JInv'
<1> SUFFICES ASSUME JInv, Typed', TaskEvent
             PROVE  JInv'
  OBVIOUS
<1>1. /\ core = "up" /\ step = "idle" /\ outbox # <<>> /\ outbox' = Tail(outbox)
      /\ UNCHANGED <<core, step, mem, caps, told, cleanup, exit, inbox, sent, acked, shutdown>>
      /\ UNCHANGED <<sched, held, leased>>
  BY DEF TaskEvent, Free
<1>2. disk # NoRun
  BY <1>1 DEF JInv, Untouched
<1>3. InOrder' /\ (NoTasks' <=> NoTasks)
  BY <1>1, Undisturbed DEF JInv
<1>4. CASE mem # NoRun /\ ~RequiresCleanup(mem) /\ mem.run = "created"
  <2>1. Record("done", "task", mem)
    BY <1>4 DEF TaskEvent
  <2>2. mem \in Entry /\ mem.dispatch = "active" /\ acked
    BY <1>1, <1>4, Types DEF JInv, Settling, Shape, RequiresCleanup
  <2>3. disk.dispatch = "active"
    BY <2>2 DEF JInv, Answered
  <2>4. Down'
    BY <1>1 DEF Down
  <2>5. "done" \in Outcomes /\ "task" \in {"task", "interrupt_workflow"}
    BY DEF Outcomes
  <2>6. QED
    BY <1>1, <1>2, <1>3, <1>4, <2>1, <2>2, <2>3, <2>4, <2>5, ActiveStep
<1>5. CASE UNCHANGED <<log, disk, faults>>
  BY <1>1, <1>2, <1>3, <1>5, RunKept, Types DEF runVars, JInv
<1>6. QED
  BY <1>4, <1>5 DEF TaskEvent

\* A cleanup that is not confirmed is asked for again, or given up.
LEMMA RetryStep == JInv /\ Typed' /\ Retry => JInv'
<1> SUFFICES ASSUME JInv, Typed', Retry
             PROVE  JInv'
  OBVIOUS
<1>1. /\ core = "up" /\ step = "idle" /\ cleanup.on
      /\ UNCHANGED <<core, step, exit, sent, acked, sched, outbox, held, leased>>
  BY DEF Retry, Free, schedVars
<1>2. disk # NoRun
  BY <1>1 DEF JInv, Untouched
<1>3. inbox' = inbox \/ (sched.alive /\ inbox' \in {Append(inbox, x) : x \in {"stop", "shutdown"}})
  BY DEF Retry, SendCleanup, Available
<1>4. InOrder' /\ (NoTasks' <=> NoTasks)
  BY <1>1, <1>3, Undisturbed DEF JInv
<1>5. CASE UNCHANGED <<runVars, shutdown>>
  BY <1>1, <1>2, <1>4, <1>5, RunKept, Types DEF JInv
<1>6. CASE /\ Pending(Known) /\ shutdown' = TRUE
           /\ \E w \in Outcomes : FinishFailure(w)
  <2>1. Down'
    BY <1>1 DEF Down
  <2>2. PICK w \in Outcomes : FinishFailure(w)
    BY <1>6
  <2>3. QED
    BY <1>1, <1>4, <1>6, <2>1, <2>2, PendingKnown, FinishStep
<1>7. QED
  BY <1>5, <1>6 DEF Retry

\* The Core learns that the Scheduler has ended: what it does about a dispatch in
\* cleanup ...
LEMMA ExitAskStep == JInv /\ Typed' /\ ExitAsk => JInv'
<1> SUFFICES ASSUME JInv, Typed', ExitAsk
             PROVE  JInv'
  OBVIOUS
<1>1. /\ core = "up" /\ step = "idle" /\ RequiresCleanup(mem)
      /\ UNCHANGED <<core, step, sent, acked, shutdown, sched, outbox, held, leased>>
  BY DEF ExitAsk, Free, schedVars
<1>2. Pending(mem) /\ Known = mem /\ Known \in Entry /\ disk # NoRun
  BY <1>1, PendingOnly, KnownRun
<1>3. exit'.ray = exit.ray
  BY Types DEF JInv, ExitAsk
<1>4. UNCHANGED runVars /\ inbox' = inbox
  BY <1>2 DEF ExitAsk
<1>5. InOrder' /\ (NoTasks' <=> NoTasks)
  BY <1>1, <1>3, <1>4, Undisturbed DEF JInv
<1>6. QED
  BY <1>1, <1>2, <1>4, <1>5, RunKept, Types DEF JInv

\* ... and once Ray is stopped ...
LEMMA ExitConfirmStep == JInv /\ Typed' /\ ExitConfirm => JInv'
<1> SUFFICES ASSUME JInv, Typed', ExitConfirm
             PROVE  JInv'
  OBVIOUS
<1>1. /\ core = "up" /\ step = "idle" /\ ~sched.alive /\ exit.ray
      /\ UNCHANGED <<core, step, inbox, sent, acked, shutdown, sched, outbox, held, leased>>
  BY DEF ExitConfirm, Free, schedVars
<1>2. PICK w \in Outcomes : Confirm(w) /\ exit' = [exit EXCEPT !.complete = (w = "done")]
  BY DEF ExitConfirm
<1>3. exit'.ray = exit.ray
  BY <1>2, Types DEF JInv
<1>4. InOrder' /\ (NoTasks' <=> NoTasks)
  BY <1>1, <1>3, Undisturbed DEF JInv
<1>5. NoTasks
  BY <1>1, EmptySet DEF JInv, InOrder, NoTasks
<1>6. QED
  BY <1>1, <1>2, <1>4, <1>5, ConfirmStep

\* ... and to an active run.
LEMMA ExitInterruptStep == JInv /\ Typed' /\ ExitInterrupt => JInv'
<1> SUFFICES ASSUME JInv, Typed', ExitInterrupt
             PROVE  JInv'
  OBVIOUS
<1>1. /\ core = "up" /\ step = "idle" /\ mem # NoRun /\ ~RequiresCleanup(mem)
      /\ UNCHANGED <<core, step, caps, told, cleanup, inbox, sent, acked, shutdown>>
      /\ UNCHANGED <<sched, outbox, held, leased>>
  BY DEF ExitInterrupt, Free, schedVars
<1>2. disk # NoRun /\ mem \in Entry
  BY <1>1, Types DEF JInv, Untouched
<1>3. exit'.ray = exit.ray
  BY Types DEF JInv, ExitInterrupt
<1>4. InOrder' /\ (NoTasks' <=> NoTasks)
  BY <1>1, <1>3, Undisturbed DEF JInv
<1>5. CASE mem.run = "failed"
  BY <1>1, <1>2, <1>4, <1>5, RunKept, Types DEF ExitInterrupt, runVars, JInv
<1>6. CASE mem.run # "failed"
  <2>1. mem' = [mem EXCEPT !.run = "interrupted"] /\ mem.dispatch = "active"
    BY <1>1, <1>2, <1>6 DEF ExitInterrupt, JInv, Settling, Shape, RequiresCleanup
  <2>2. mem' \in Entry /\ mem'.dispatch = "active" /\ mem'.run = "interrupted"
    BY <1>2, <2>1, EntryShape DEF RunStates
  <2>3. PICK w \in Outcomes : Record(w, "interrupt_workflow", mem')
    BY <1>6 DEF ExitInterrupt
  <2>4. disk.dispatch = "active"
    BY <1>1, <2>1 DEF JInv, Settling, Answered
  <2>5. Down'
    BY <1>1 DEF Down
  <2>6. "interrupt_workflow" \in {"task", "interrupt_workflow"}
    OBVIOUS
  <2>7. PICK m \in Entry : m = mem'
    BY <2>2
  <2>8. Record(w, "interrupt_workflow", m)
    BY <2>3, <2>7
  <2>9. QED
    BY <1>1, <1>2, <1>4, <2>1, <2>2, <2>4, <2>5, <2>6, <2>7, <2>8, ActiveStep
<1>7. QED
  BY <1>5, <1>6

\* The Core crashes, and Ray with it.
LEMMA CrashStep == JInv /\ Typed' /\ Crash => JInv'
<1> SUFFICES ASSUME JInv, Typed', Crash
             PROVE  JInv'
  OBVIOUS
<1>1. /\ core' = "down" /\ step' = "idle" /\ mem' = NoRun /\ cleanup' = NoCleanup /\ exit' = NoExit
      /\ shutdown' = FALSE /\ sched' = Fresh /\ inbox' = <<>> /\ outbox' = <<>>
      /\ held' = {} /\ leased' = {}
      /\ UNCHANGED <<disk, log, caps, told, faults, sent, acked>>
  BY DEF Crash
<1>2. sched'.alive /\ ~sched'.stopped /\ ~cleanup'.on /\ ~exit'.ray
  BY <1>1 DEF Fresh, NoCleanup, NoExit
<1>3. NoTasks' /\ InOrder'
  BY <1>1, <1>2, EmptySet DEF NoTasks, InOrder
<1>4. FailLogged' = FailLogged /\ InterruptLogged' = InterruptLogged
  BY <1>1 DEF FailLogged, InterruptLogged, Logged
<1>5. Shape(mem)' /\ Shape(disk)' /\ \A t \in Roots : sent'[t] \in {0, 1}
  BY <1>1 DEF JInv, Shape
<1>6. Untouched' /\ Submitting' /\ Settling' /\ Down'
  BY <1>1, <1>2, <1>3 DEF JInv, Untouched, Submitting, Settling, Down
<1>7. Answered'
  BY <1>1 DEF JInv, Answered
<1>8. Cleared'
  BY <1>1, <1>3, <1>4 DEF JInv, Cleared, Over
<1>9. InLog'
  BY <1>1, <1>4 DEF JInv, InLog, FailureLast
<1>10. QED
  BY <1>3, <1>5, <1>6, <1>7, <1>8, <1>9 DEF JInv

\* The next Core finds the journal.
LEMMA RecoverStep == JInv /\ Typed' /\ Recover => JInv'
<1> SUFFICES ASSUME JInv, Typed', Recover
             PROVE  JInv'
  OBVIOUS
<1>1. /\ core = "down"
      /\ UNCHANGED <<step, exit, sent, acked, shutdown, sched, outbox, held, leased>>
  BY DEF Recover, schedVars
<1>2. /\ step = "idle" /\ mem = NoRun /\ exit = NoExit /\ ~cleanup.on /\ NoTasks
      /\ inbox = <<>> /\ outbox = <<>> /\ ~sched.stopped
  BY <1>1 DEF JInv, Down
<1>3. PICK w \in Outcomes :
         /\ core' = IF w = "done" THEN "up" ELSE "down"
         /\ \/ /\ Settled(disk)
               /\ w = "done" /\ UNCHANGED <<runVars, cleanup, inbox>>
            \/ /\ disk # NoRun /\ disk.dispatch = "active" /\ disk.run = "created"
               /\ Record(w, "interrupt_workflow", [disk EXCEPT !.run = "interrupted"])
               /\ UNCHANGED <<mem, caps, told, cleanup, inbox>>
            \/ /\ disk # NoRun /\ disk.dispatch = "prepared"
               /\ FinishFailure(w) /\ UNCHANGED <<cleanup, inbox>>
            \/ RequiresCleanup(disk) /\ RequestCleanup(w)
  BY DEF Recover
<1>4. /\ mem' = NoRun
      /\ inbox' = inbox \/ (sched.alive /\ inbox' = Append(inbox, "stop"))
      /\ w # "done" => UNCHANGED <<cleanup, inbox>>
  BY <1>2, <1>3 DEF runVars, FinishFailure, RequestCleanup, SendCleanup, Available
<1>5. InOrder' /\ NoTasks'
  BY <1>1, <1>2, <1>4, Undisturbed DEF JInv
<1>6. Down'
  BY <1>1, <1>2, <1>3, <1>4, <1>5 DEF Down
<1>7. CASE UNCHANGED <<runVars, cleanup, inbox>>
  <2>1. FailLogged' = FailLogged /\ InterruptLogged' = InterruptLogged
    BY <1>7 DEF FailLogged, InterruptLogged, Logged, runVars
  <2>2. Shape(mem)' /\ Shape(disk)' /\ \A t \in Roots : sent'[t] \in {0, 1}
    BY <1>1, <1>7 DEF JInv, Shape, runVars
  <2>3. Untouched' /\ Submitting' /\ Settling' /\ Answered'
    BY <1>1, <1>2, <1>7 DEF JInv, Untouched, Submitting, Settling, Answered, runVars
  <2>4. Cleared' /\ InLog'
    BY <1>1, <1>2, <1>5, <1>7, <2>1 DEF JInv, Cleared, InLog, FailureLast, Over, runVars
  <2>5. QED
    BY <1>5, <1>6, <2>2, <2>3, <2>4 DEF JInv
<1>8. CASE /\ disk # NoRun /\ disk.dispatch = "active"
           /\ Record(w, "interrupt_workflow", [disk EXCEPT !.run = "interrupted"])
           /\ UNCHANGED <<mem, caps, told, cleanup, inbox>>
  <2>1. PICK m \in Entry : /\ m = [disk EXCEPT !.run = "interrupted"]
                           /\ m.dispatch = "active" /\ m.run = "interrupted"
    <3>1. disk \in Entry /\ "interrupted" \in RunStates
      BY <1>8, Types DEF JInv, RunStates
    <3>2. QED
      BY <1>8, <3>1, EntryShape DEF Entry
  <2>2. Record(w, "interrupt_workflow", m)
    BY <1>8, <2>1
  <2>3. QED
    BY <1>1, <1>2, <1>4, <1>5, <1>6, <1>8, <2>1, <2>2, ActiveStep
<1>9. disk # NoRun => Known = disk /\ Known \in Entry
  BY <1>2, Types DEF JInv, Known
<1>10. CASE disk # NoRun /\ disk.dispatch = "prepared" /\ FinishFailure(w)
  <2>1. ~acked
    BY <1>10 DEF JInv, Answered
  <2>2. QED
    BY <1>1, <1>2, <1>4, <1>5, <1>6, <1>9, <1>10, <2>1, FinishStep, Types DEF JInv
<1>11. CASE RequiresCleanup(disk) /\ RequestCleanup(w)
  <2>1. exit'.ray = exit.ray /\ disk # NoRun
    BY <1>1, <1>11 DEF RequiresCleanup
  <2>2. QED
    BY <1>1, <1>2, <1>4, <1>6, <1>9, <1>11, <2>1, RequestStep
<1>12. QED
  BY <1>3, <1>7, <1>8, <1>10, <1>11

-------------------------------------------------------------------------------
(* The invariant holds. *)

\* It holds in the beginning, ...
LEMMA InitInv == Init => JInv
<1> SUFFICES ASSUME Init
             PROVE  JInv
  OBVIOUS
<1>1. Typed
  <2>1. /\ NoCleanup \in [on : BOOLEAN, tries : 0..MaxAttempts]
        /\ Fresh \in [alive : BOOLEAN, fatal : BOOLEAN, stopped : BOOLEAN, done : 0..Stages]
        /\ NoExit \in [asked : BOOLEAN, ray : BOOLEAN, complete : BOOLEAN]
    BY JournalAssumption DEF NoCleanup, NoExit, Fresh, Stages
  <2>2. /\ <<>> \in Seq(Roots \cup {"stop", "shutdown"}) /\ <<>> \in Seq({"task", "ok", "refused"})
        /\ <<>> \in Seq(Events) /\ [t \in Roots |-> 0] \in [Roots -> Nat]
    OBVIOUS
  <2>3. QED
    BY <2>1, <2>2 DEF Init, Typed, TypeOK, Steps
<1>2. sched.alive /\ ~sched.stopped /\ ~cleanup.on /\ ~exit.ray
  BY DEF Init, Fresh, NoCleanup, NoExit
<1>3. NoTasks /\ InOrder
  BY <1>2, EmptySet DEF Init, NoTasks, InOrder
<1>4. ~FailLogged /\ ~InterruptLogged /\ FailureLast
  BY EmptySet DEF Init, FailLogged, InterruptLogged, Logged, FailureLast
<1>5. Shape(mem) /\ Shape(disk) /\ \A t \in Roots : sent[t] \in {0, 1}
  BY DEF Init, Shape
<1>6. Untouched /\ Submitting /\ Settling /\ Answered /\ Down /\ Cleared /\ InLog
  BY <1>2, <1>4 DEF Init, Untouched, Submitting, Settling, Answered, Down, Cleared, InLog, Over
<1>7. QED
  BY <1>1, <1>3, <1>5, <1>6 DEF JInv

\* ... and every step keeps it.
LEMMA NextInv == JInv /\ [Next]_vars => JInv'
<1> SUFFICES ASSUME JInv, [Next]_vars
             PROVE  JInv'
  OBVIOUS
<1>1. Typed'
  BY NextTyped DEF JInv
<1>2. CASE Submission
  BY <1>1, <1>2, PrepareStep, StartEventStep, MarkDispatchingStep, ActivateStep, FailDispatchStep,
     SendStep DEF Submission
<1>3. CASE Core
  BY <1>1, <1>3, ReplyStep, TaskEventStep, RetryStep, ExitAskStep, EndStep, ExitConfirmStep,
     ExitInterruptStep DEF Core
<1>4. CASE Scheduler
  BY <1>1, <1>4, TakeTaskStep, TakeStopStep, TaskStep DEF Scheduler
<1>5. CASE Submit \/ StopWorkflow \/ Sweep \/ Fail \/ Die \/ Kill \/ Crash \/ Recover
  BY <1>1, <1>5, SubmitStep, StopWorkflowStep, EndStep, CrashStep, RecoverStep DEF Sweep, Kill
<1>6. CASE UNCHANGED vars
  <2>1. FailLogged' = FailLogged /\ InterruptLogged' = InterruptLogged
    BY <1>6 DEF vars, runVars, FailLogged, InterruptLogged, Logged
  <2>2. Shape(mem)' /\ Shape(disk)' /\ \A t \in Roots : sent'[t] \in {0, 1}
    BY <1>6 DEF vars, runVars, JInv, Shape
  <2>3. NoTasks' <=> NoTasks
    BY <1>6 DEF vars, schedVars, NoTasks
  <2>4. Untouched' /\ Settling' /\ Answered' /\ Down'
    BY <1>6, <2>3 DEF vars, runVars, schedVars, JInv, Untouched, Settling, Answered, Down
  <2>5. Submitting'
    BY <1>6, <2>1, <2>3 DEF vars, runVars, schedVars, JInv, Submitting, Ahead
  <2>6. InOrder'
    BY <1>6, <2>3 DEF vars, runVars, schedVars, JInv, InOrder
  <2>7. Cleared' /\ InLog'
    BY <1>6, <2>1, <2>3 DEF vars, runVars, schedVars, JInv, Cleared, InLog, FailureLast, Over
  <2>8. QED
    BY <1>1, <2>2, <2>4, <2>5, <2>6, <2>7 DEF JInv
<1>7. QED
  BY <1>2, <1>3, <1>4, <1>5, <1>6 DEF Next

\* In every state of the submission of a run, memory, run.json and the log differ
\* by no more than the writes that failed, tasks come before the stop that ends
\* them, and no task can start once the run is cleared.
THEOREM JournalInvariance == Spec => []JInv
<1>1. QED
  BY InitInv, NextInv, PTL DEF Spec

\* The variables keep their types.
THEOREM JournalTypes == Spec => []TypeOK
<1>1. JInv => TypeOK
  BY DEF JInv, Typed
<1>2. QED
  BY <1>1, JournalInvariance, PTL

\* A submission that has failed has left no task in the Scheduler, on Ray or on
\* its way there, and no capability (_finish_workflow_dispatch_failure and its
\* callers), whatever writes, stops or processes fail.
THEOREM FailureLeavesNothing == Spec => []NothingLeft
<1>1. JInv => NothingLeft
  <2> SUFFICES ASSUME JInv
               PROVE  NothingLeft
    OBVIOUS
  <2>1. Cleared /\ FailureLast
    BY DEF JInv, InLog
  <2>2. QED
    BY <2>1 DEF NothingLeft, Cleared, NoTasks, FailureLast, FailLogged
<1>2. QED
  BY <1>1, JournalInvariance, PTL

-------------------------------------------------------------------------------
(* The refinement of Submission. *)

\* What the client may know of the submission.
Result == IF acked THEN "started"
          ELSE IF disk = NoRun THEN "none"
          ELSE IF disk.run = "created" THEN "trying" ELSE "failed"

\* It is the outcome of the abstract submission.
LEMMA ResultIsOutcome ==
    ASSUME JInv
    PROVE  Result = CASE acked                -> IF disk.dispatch = "active" THEN "started" ELSE "lost"
                      [] disk = NoRun         -> "none"
                      [] ~acked /\ disk # NoRun ->
                           IF disk.run = "created" THEN "trying" ELSE "failed"
<1>1. acked => disk # NoRun /\ disk.dispatch = "active"
  BY DEF JInv, Answered
<1>2. CASE acked
  BY <1>1, <1>2 DEF Result
<1>3. CASE ~acked /\ disk = NoRun
  BY <1>3 DEF Result
<1>4. CASE ~acked /\ disk # NoRun
  BY <1>4 DEF Result
<1>5. QED
  BY <1>2, <1>3, <1>4

\* run.json never comes back from the end of a submission.
Onward == \/ disk' = disk
          \/ /\ disk # NoRun /\ disk' # NoRun
             /\ disk.run # "created" /\ ~acked => disk'.run # "created"

\* A write of a failure, or of a cleanup request, is a step onward.
LEMMA FinishOnward ==
    ASSUME JInv, Known \in Entry, NEW w \in Outcomes, FinishFailure(w)
    PROVE  Onward
<1>1. disk # NoRun
  BY KnownRun
<1>2. /\ Failed(Known) \in Entry /\ Failed(Known) # NoRun /\ Failed(Known).run = "failed"
  BY EntryShape
<1>3. disk' \in {disk, Failed(Known)}
  BY DEF FinishFailure, Record
<1>4. QED
  BY <1>1, <1>2, <1>3 DEF Onward

LEMMA RequestOnward ==
    ASSUME JInv, Known \in Entry, NEW w \in Outcomes, RequestCleanup(w)
    PROVE  disk # NoRun /\ disk' # NoRun /\ (disk' = disk \/ (~Pending(Known) /\ disk'.run = Known.run))
<1> DEFINE m == [Known EXCEPT !.dispatch = "cleanup_pending"]
<1>1. disk # NoRun
  BY KnownRun
<1>2. m # NoRun /\ m.run = Known.run
  BY EntryShape DEF Journal
<1>3. disk' = disk \/ (~Pending(Known) /\ disk' = m)
  BY DEF RequestCleanup, Save
<1>4. QED
  BY <1>1, <1>2, <1>3

\* Every step but Submit is a step onward.
LEMMA NextOnward ==
    ASSUME JInv, [Next]_vars, ~Submit
    PROVE  Onward
<1> USE DEF schedVars, runVars
<1>1. ASSUME step # "idle", NEW m \in Entry, disk' \in {disk, m}
      PROVE  Onward
  <2>1. disk # NoRun /\ disk.run = "created" /\ m # NoRun
    BY <1>1, EntryShape DEF JInv, Submitting, Ahead
  <2>2. QED
    BY <1>1, <2>1 DEF Onward
<1>2. CASE Prepare \/ MarkDispatching \/ Activate
  <2>1. step # "idle" /\ mem \in Entry
    BY <1>2, InStep DEF Prepare, MarkDispatching, Activate
  <2>2. \E m \in Entry : disk' \in {disk, m}
    <3>1. /\ [mem EXCEPT !.dispatch = "dispatching"] \in Entry
          /\ [mem EXCEPT !.dispatch = "active"] \in Entry
      BY <2>1, EntryShape DEF Journal
    <3>2. \/ disk' \in {disk, mem}
          \/ disk' \in {disk, [mem EXCEPT !.dispatch = "dispatching"]}
          \/ disk' \in {disk, [mem EXCEPT !.dispatch = "active"]}
      BY <1>2 DEF Prepare, MarkDispatching, Activate, Persist, Save
    <3>3. QED
      BY <2>1, <3>1, <3>2
  <2>3. QED
    BY <1>1, <2>1, <2>2
<1>3. CASE FailDispatch
  <2>1. /\ step # "idle" /\ mem \in Entry /\ mem.run = "created" /\ Known = mem
        /\ disk.run = "created"
    BY <1>3, InStep, EntryShape DEF FailDispatch, Starting, Known
  <2>2. PICK w \in Outcomes : FinishFailure(w) \/ RequestCleanup(w)
    BY <1>3 DEF FailDispatch
  <2>3. QED
    BY <2>1, <2>2, FinishOnward, RequestOnward DEF Onward
<1>4. CASE StopWorkflow \/ ExitAsk
  <2>1. step = "idle" /\ RequiresCleanup(mem)
    BY <1>4 DEF StopWorkflow, ExitAsk, Free
  <2>2. Pending(Known) /\ Known \in Entry
    BY <2>1, PendingOnly
  <2>3. disk' = disk
    BY <1>4, <2>1, <2>2, PendingOnly DEF StopWorkflow, ExitAsk, RequestCleanup
  <2>4. QED
    BY <2>3 DEF Onward
<1>5. ASSUME NEW w \in Outcomes, Confirm(w), step = "idle"
      PROVE  Onward
  <2>1. CASE Pending(Known)
    BY <1>5, <2>1, PendingKnown, FinishOnward DEF Confirm
  <2>2. CASE ~Pending(Known)
    BY <1>5, <2>2 DEF Confirm, Onward
  <2>3. QED
    BY <2>1, <2>2
<1>6. CASE Reply \/ ExitConfirm
  BY <1>5, <1>6 DEF Reply, ExitConfirm, Free, Onward
<1>7. CASE TaskEvent
  <2>1. disk' # disk => Record("done", "task", mem) /\ mem # NoRun /\ mem.run = "created"
                        /\ step = "idle" /\ ~RequiresCleanup(mem)
    BY <1>7 DEF TaskEvent, Free
  <2>2. disk' # disk => mem \in Entry /\ mem.dispatch = "active" /\ acked
    BY <2>1, Types DEF JInv, Settling, Shape, RequiresCleanup
  <2>3. disk' # disk => disk # NoRun /\ disk' # NoRun
    BY <2>1, <2>2 DEF JInv, Answered, Record
  <2>4. QED
    BY <2>2, <2>3 DEF Onward
<1>8. CASE Retry
  <2>1. disk' # disk => step = "idle" /\ Pending(Known) /\ \E w \in Outcomes : FinishFailure(w)
    BY <1>8 DEF Retry, Free
  <2>2. QED
    BY <2>1, PendingKnown, FinishOnward DEF Onward
<1>9. CASE ExitInterrupt
  <2>1. disk' # disk => /\ step = "idle" /\ mem # NoRun /\ ~RequiresCleanup(mem) /\ mem.run # "failed"
                        /\ disk' = mem' /\ mem' = [mem EXCEPT !.run = "interrupted"]
    BY <1>9 DEF ExitInterrupt, Free, Record
  <2>2. disk' # disk => /\ mem \in Entry /\ mem.dispatch = "active" /\ acked
    BY <2>1, Types DEF JInv, Settling, Shape, RequiresCleanup
  <2>3. disk' # disk => disk' # NoRun /\ disk # NoRun
    <3>1. disk' # disk => [mem EXCEPT !.run = "interrupted"] \in Entry
      BY <2>2, EntryShape DEF RunStates
    <3>2. QED
      BY <2>1, <2>2, <3>1, ValueAssumption DEF JInv, Answered
  <2>4. QED
    BY <2>2, <2>3 DEF Onward
<1>10. CASE Recover
  <2>1. PICK w \in Outcomes :
          \/ UNCHANGED runVars
          \/ /\ disk # NoRun /\ disk.run = "created"
             /\ Record(w, "interrupt_workflow", [disk EXCEPT !.run = "interrupted"])
          \/ disk # NoRun /\ FinishFailure(w)
          \/ RequiresCleanup(disk) /\ RequestCleanup(w)
    BY <1>10 DEF Recover
  <2>2. mem = NoRun
    BY <1>10 DEF Recover, JInv, Down
  <2>3. disk # NoRun => Known = disk /\ Known \in Entry
    BY <2>2, Types DEF JInv, Known
  <2>4. CASE UNCHANGED runVars
    BY <2>4 DEF Onward
  <2>5. CASE /\ disk # NoRun /\ disk.run = "created"
             /\ Record(w, "interrupt_workflow", [disk EXCEPT !.run = "interrupted"])
    <3>1. [disk EXCEPT !.run = "interrupted"] # NoRun
      BY <2>3, <2>5, EntryShape DEF RunStates
    <3>2. QED
      BY <2>5, <3>1 DEF Onward, Record
  <2>6. CASE disk # NoRun /\ FinishFailure(w)
    BY <2>3, <2>6, FinishOnward
  <2>7. CASE RequiresCleanup(disk) /\ RequestCleanup(w)
    BY <2>3, <2>7, RequestOnward DEF RequiresCleanup, Onward
  <2>8. QED
    BY <2>1, <2>4, <2>5, <2>6, <2>7
<1>11. CASE UNCHANGED disk
  BY <1>11 DEF Onward
<1>12. StartEvent \/ (\E t \in Roots : Send(t) \/ Start(t) \/ Finish(t)) \/ ExitRay \/ TakeTask
       \/ TakeStop \/ Fail \/ Die \/ Kill \/ Crash \/ UNCHANGED vars => UNCHANGED disk
  BY DEF StartEvent, Send, Start, Finish, ExitRay, TakeTask, TakeStop, Fail, Die, Kill, Crash,
         OnlySched, vars
<1>13. QED
  BY <1>2, <1>3, <1>4, <1>6, <1>7, <1>8, <1>9, <1>10, <1>11, <1>12
     DEF Next, Submission, Core, Scheduler, Sweep

\* Tasks are sent, and the client is answered, by one action each.
LEMMA SentAndAnswered ==
    ASSUME JInv, [Next]_vars
    PROVE  /\ sent' = sent \/ \E t \in Roots : Send(t)
           /\ acked' = acked \/ Activate
<1>1. CASE Submission
  BY <1>1 DEF Submission, OnlyRun, OnlyCleanup, Prepare, StartEvent, MarkDispatching, Activate,
              FailDispatch, Send
<1>2. CASE Core
  BY <1>2 DEF Core, Reply, TaskEvent, Retry, ExitAsk, ExitRay, ExitConfirm, ExitInterrupt
<1>3. CASE Scheduler \/ Fail \/ Die \/ Kill
  BY <1>3 DEF Scheduler, OnlySched, TakeTask, Start, Finish, TakeStop, Fail, Die, Kill
<1>4. CASE Submit \/ StopWorkflow \/ Sweep \/ Crash \/ Recover
  BY <1>4 DEF Submit, StopWorkflow, Sweep, OnlyCleanup, Crash, Recover
<1>5. CASE UNCHANGED vars
  BY <1>5 DEF vars
<1>6. QED
  BY <1>1, <1>2, <1>3, <1>4, <1>5 DEF Next

\* The same of the state after a step.
LEMMA ResultNext ==
    ASSUME JInv'
    PROVE  Result' = (CASE acked                -> IF disk.dispatch = "active" THEN "started" ELSE "lost"
                       [] disk = NoRun         -> "none"
                       [] ~acked /\ disk # NoRun ->
                            IF disk.run = "created" THEN "trying" ELSE "failed")'
<1>1. acked' => disk' # NoRun /\ disk'.dispatch = "active"
  BY DEF JInv, Answered
<1>2. CASE acked'
  BY <1>1, <1>2 DEF Result
<1>3. CASE ~acked' /\ disk' = NoRun
  BY <1>3 DEF Result
<1>4. CASE ~acked' /\ disk' # NoRun
  BY <1>4 DEF Result
<1>5. QED
  BY <1>2, <1>3, <1>4

\* Every step is one of the abstract submission, or none.
LEMMA NextPromised ==
    JInv /\ JInv' /\ [Next]_vars => [Promise!Next]_(Promise!vars)
<1> SUFFICES ASSUME JInv, JInv', [Next]_vars
             PROVE  [Promise!Next]_(Promise!vars)
  OBVIOUS
<1> DEFINE o == CASE acked                -> IF disk.dispatch = "active" THEN "started" ELSE "lost"
                  [] disk = NoRun         -> "none"
                  [] ~acked /\ disk # NoRun ->
                       IF disk.run = "created" THEN "trying" ELSE "failed"
<1>1. o = Result
  BY ResultIsOutcome
<1>2. o' = Result'
  BY ResultNext
<1> HIDE DEF o
<1>3. SUFFICES \/ o = "none" /\ o' = "trying" /\ UNCHANGED sent
               \/ o = "trying" /\ (\A t \in Roots : sent[t] = 1) /\ o' = "started" /\ UNCHANGED sent
               \/ o = "trying" /\ o' = "failed" /\ UNCHANGED sent
               \/ \E t \in Roots : /\ o = "trying" /\ sent[t] = 0
                                   /\ sent' = [sent EXCEPT ![t] = 1] /\ o' = o
               \/ o' = o /\ sent' = sent
  BY DEF o, Promise!Next, Promise!Begin, Promise!Succeed, Promise!Fail, Promise!Send, Promise!vars
<1>4. CASE Submit
  <2>1. disk = NoRun /\ ~acked /\ ~acked' /\ sent' = sent
    BY <1>4 DEF Submit, JInv, Untouched
  <2>2. disk' # NoRun => disk'.run = "created"
    BY <1>4, <2>1 DEF Submit, Save
  <2>3. QED
    BY <1>1, <1>2, <2>1, <2>2 DEF Result
<1>5. CASE Activate
  <2>1. /\ \A t \in Roots : sent[t] = 1
        /\ disk \in Entry /\ disk.run = "created" /\ ~acked
    BY <1>5, InStep DEF Activate
  <2>2. sent' = sent /\ disk # NoRun
    BY <1>5, <2>1, EntryShape DEF Activate
  <2>3. CASE acked'
    BY <1>1, <1>2, <2>1, <2>2, <2>3 DEF Result
  <2>4. CASE ~acked'
    <3>1. step' # "idle"
      BY <1>5, <2>4 DEF Activate
    <3>2. disk' # NoRun /\ disk'.run = "created"
      BY <3>1 DEF JInv, Submitting, Ahead
    <3>3. QED
      BY <1>1, <1>2, <2>1, <2>2, <2>4, <3>2 DEF Result
  <2>5. QED
    BY <2>3, <2>4
<1>6. ASSUME NEW t \in Roots, Send(t)
      PROVE  \/ /\ o = "trying" /\ sent[t] = 0
                /\ sent' = [sent EXCEPT ![t] = 1] /\ o' = o
             \/ o' = o /\ sent' = sent
  <2>1. disk \in Entry /\ disk.run = "created" /\ ~acked
    BY <1>6, InStep DEF Send
  <2>2. UNCHANGED <<disk, acked>> /\ sent[t] = 0 /\ disk # NoRun
    BY <1>6, <2>1, EntryShape DEF Send, OnlyRun
  <2>3. sent' = sent \/ sent' = [sent EXCEPT ![t] = 1]
    <3>1. sent' = sent \/ sent' = [sent EXCEPT ![t] = @ + 1]
      BY <1>6 DEF Send
    <3>2. QED
      BY <2>2, <3>1
  <2>4. QED
    BY <1>1, <1>2, <2>1, <2>2, <2>3 DEF Result
<1>7. CASE ~Submit /\ sent' = sent /\ acked' = acked
  <2>1. Onward
    BY <1>7, NextOnward
  <2>2. CASE disk' = disk
    BY <1>1, <1>2, <1>7, <2>2 DEF Result
  <2>3. CASE /\ disk # NoRun /\ disk' # NoRun
             /\ disk.run # "created" /\ ~acked => disk'.run # "created"
    BY <1>1, <1>2, <1>7, <2>3 DEF Result
  <2>4. QED
    BY <2>1, <2>2, <2>3 DEF Onward
<1>8. QED
  BY <1>4, <1>5, <1>6, <1>7, SentAndAnswered

\* The submission does what Submission promises: over replays, failed writes and
\* restarts each root task is sent at most once, and all of them before the client
\* is answered, and neither a start nor a failure is taken back (run_workflow,
\* _start_workflow, _recover_incomplete_workflow_dispatches).
THEOREM JournalImplementsSubmission == Spec => SubmissionKept
<1>1. Init => Promise!Init
  <2> SUFFICES ASSUME Init
               PROVE  Promise!Init
    OBVIOUS
  <2>1. acked = FALSE /\ disk = NoRun /\ sent = [t \in Roots |-> 0]
    BY DEF Init
  <2>2. QED
    BY <2>1 DEF Promise!Init
<1>2. JInv /\ JInv' /\ [Next]_vars => [Promise!Next]_(Promise!vars)
  BY NextPromised
<1>3. QED
  BY <1>1, <1>2, JournalInvariance, PTL DEF Spec, SubmissionKept, Promise!Spec
===============================================================================
