------------------------- MODULE ModelInstancesProofs -------------------------
(***************************************************************************)
(* Theorems about ModelInstances, for any instances, tasks, models, GPUs   *)
(* and limits, and any number of faults and requests: a server that may    *)
(* still run holds its lease, what is stopped for being idle serves no     *)
(* task, an instance out of routing is in somebody's hands, and an actor   *)
(* that comes too late holds a cleanup slot.  The invariant says of each   *)
(* instance how the place of its start, those of its stops and its entry   *)
(* in the registry agree.                                                  *)
(***************************************************************************)
EXTENDS ModelInstances, FiniteSetTheorems, TLAPS

TaskSet  == [place : {"ready", "waiting", "routed", "recovering", "admission", "done"},
             on : Ids \cup {NoId}, model : Models]
InstSet  == [state : {"none", "launching", "ready", "unhealthy", "draining", "stopping",
                      "cleanup_pending", "stopped"},
             claim : BOOLEAN, inflight : 0..MaxRequests, attempt : 0..2]
GenSet   == [current : BOOLEAN, future : BOOLEAN,
             creation : {"none", "queued", "running", "made", "failed"},
             called : BOOLEAN, slot : BOOLEAN, kill : {"none", "pending", "done"}]
StartSet == [pc : {"none", "sent", "deferred", "queued", "submit", "attach", "await", "launch",
                   "verify", "undo", "ready", "rollback", "finally", "ok", "failed", "cancelled"},
             auto : BOOLEAN, attempt : 1..2, cancel : BOOLEAN, again : BOOLEAN, orphan : BOOLEAN]
StopSet  == [pc : {"idle", "enter", "owner", "wait", "finalize", "ok", "failed"}, attempt : 0..2]
MsgSet   == [type : {"start", "stop", "orphan"}, id : Ids]

\* The tasks that are routed to an instance.
Routed(i) == {t \in Tasks : task[t].place = "routed" /\ task[t].on = i}

\* The parts of TypeOK.
TaskTypes == task \in [Tasks -> TaskSet] /\ demand \subseteq Tasks /\ limit \in [Models -> 1..MaxRequests]
HoldTypes ==
    /\ auto \subseteq Ids /\ cancelled \subseteq Ids /\ leases \subseteq Ids \X {1, 2}
    /\ proc \in [Ids -> {"none", "actor", "server", "exited", "left"}]
    /\ asks \in [Ids -> SUBSET Jobs] /\ upkeep \in [Ids -> {"none", "idle", "failed"}]
    /\ found \subseteq Ids /\ faults \in 0..MaxFaults /\ calls \in 0..MaxCalls
HandTypes ==
    /\ inst \in [Ids -> InstSet] /\ gen \in [Ids -> GenSet] /\ start \in [Ids -> StartSet]
    /\ stop \in [Ids -> [Workers -> StopSet]]
Types == TaskTypes /\ HoldTypes /\ HandTypes

SlotIds == {i \in Ids : gen[i].slot}
Room    == Cardinality(leases) <= Gpus /\ Cardinality(SlotIds) <= Slots
Counted == \A i \in Ids : inst[i].state # "none" => inst[i].inflight = Cardinality(Routed(i))

\* A task with an instance names it.
Sited == \A t \in Tasks : task[t].place \in {"routed", "recovering", "admission"} => task[t].on \in Ids

\* A start that was asked for is announced by one message.
Mail ==
    /\ msgs \in Seq(MsgSet)
    /\ \A k \in 1..Len(msgs) : msgs[k].type = "start" => start[msgs[k].id].pc = "sent"
    /\ \A k, l \in 1..Len(msgs) : msgs[k].type = "start" /\ msgs[l] = msgs[k] => k = l

\* A start before its actor is registered: without its lease, and with it.
Placed == {"queued", "submit", "attach", "await"}
Early  == {"sent", "deferred", "cancelled"} \cup Placed

Alive(i) == inst[i].state \notin {"none", "stopped"}

\* What runs is registered, what is registered or about to be holds its lease.
Leased(i) ==
    /\ Server(i) => Alive(i)
    /\ Alive(i) => <<i, inst[i].attempt>> \in leases
    /\ start[i].pc \in Placed => <<i, start[i].attempt>> \in leases
    /\ start[i].pc \in Early => inst[i].state = "none"
    /\ start[i].pc \in {"finally", "failed"} /\ start[i].again =>
          inst[i].state = "none" /\ start[i].attempt = 1

\* One thread stops an instance, and one that finalizes it gives back the lease
\* of an attempt that is over.
Handed(i) ==
    /\ \A w \in Workers : stop[i][w].pc = "owner" => inst[i].state = "stopping" /\ ~inst[i].claim
    /\ \A v, w \in Workers : stop[i][v].pc = "owner" /\ stop[i][w].pc = "owner" => v = w
    /\ \A w \in Workers : stop[i][w].pc = "finalize" /\ Alive(i) => stop[i][w].attempt < inst[i].attempt
    /\ \A w \in Workers : start[i].pc \in Early /\ stop[i][w].pc \in {"finalize", "wait"} =>
                             stop[i][w].attempt < start[i].attempt

\* Attempts are those of the start, as long as there is one.
Dated(i) ==
    start[i].pc # "none" =>
        /\ inst[i].state # "none" => inst[i].attempt <= start[i].attempt
        /\ \A w \in Workers : stop[i][w].pc \in {"owner", "finalize", "wait"} =>
                                 stop[i][w].attempt <= start[i].attempt

\* The start does not register the instance any more.
Past(i) == start[i].pc \notin Early \cup {"launch", "verify"} /\ ~start[i].again

\* What can be used is past its start, and what is idle cannot be used.
Used(i) ==
    /\ start[i].again => start[i].pc \in {"undo", "rollback", "finally", "failed"}
    /\ inst[i].state = "ready" \/ upkeep[i] = "idle" \/ Routed(i) # {} => Past(i)
    /\ upkeep[i] = "idle" => /\ inst[i].state \in {"stopping", "cleanup_pending", "stopped", "none"}
                             /\ Routed(i) = {}

\* The thread of a start stops the instance only while it undoes the start, a job
\* of the first attempt is over before the second, and the job that is joined to
\* stop an instance will look at it.
Joined(i) ==
    /\ start[i].pc # "undo" => stop[i]["start"].pc = "idle"
    /\ start[i].pc = "undo" /\ stop[i]["start"].pc # "enter" => inst[i].state # "launching"
    /\ inst[i].state \in {"ready", "unhealthy", "draining"} => stop[i]["shared"].pc \in {"idle", "enter"}
    /\ upkeep[i] # "none" => stop[i]["shared"].pc # "idle"
    /\ start[i].pc # "none" /\ start[i].attempt = 1 => stop[i]["cancel2"].pc = "idle"
    /\ \/ start[i].pc \in Early \ {"cancelled"}
       \/ Pending(i) /\ inst[i].state \in {"launching", "ready"}
       => stop[i][CancelJob(i)].pc \in {"idle", "enter"}

\* NoneAbandoned for one instance.
Tended(i) ==
    /\ inst[i].state = "stopping" => Busy(i, IF inst[i].claim THEN {"enter"} ELSE {"owner"})
    /\ inst[i].state = "unhealthy" => Busy(i, {"enter"}) \/ i \in found
    /\ inst[i].state = "draining" => Busy(i, {"enter"})
    /\ inst[i].state = "stopped" => Busy(i, {"finalize"}) \/ start[i].pc \in {"undo", "rollback"}
    /\ inst[i].state = "launching" => start[i].pc \in {"launch", "verify", "undo"}

Own(i) == Leased(i) /\ Handed(i) /\ Dated(i) /\ Used(i) /\ Joined(i) /\ Tended(i)
Owns   == \A i \in Ids : Own(i)

IInv == Types /\ Room /\ Counted /\ Sited /\ Mail /\ Owns
-------------------------------------------------------------------------------
(* The types, and what an action leaves as it is. *)

\* The named parts make up the type invariant.
LEMMA TypeParts == TypeOK <=> Types /\ Room /\ Counted
BY DEF TypeOK, Types, TaskTypes, HoldTypes, HandTypes, TaskSet, InstSet, GenSet, StartSet, StopSet,
       Room, SlotIds, Counted, Routed

\* The ids, the slots and the leases are finite in number.
LEMMA Finite ==
    /\ IsFiniteSet(Ids \X {1, 2})
    /\ IsFiniteSet(SlotIds)
    /\ Types => IsFiniteSet(leases)
<1>1. IsFiniteSet({1, 2})
  <2>1. IsFiniteSet({1} \cup {2})
    BY FS_AddElement, FS_Singleton
  <2>2. {1} \cup {2} = {1, 2}
    OBVIOUS
  <2>3. QED
    BY <2>1, <2>2
<1>2. IsFiniteSet(Ids \X {1, 2})
  BY <1>1, FS_Product, ModelAssumption
<1>3. IsFiniteSet(SlotIds)
  BY FS_Subset, ModelAssumption DEF SlotIds
<1>4. Types => IsFiniteSet(leases)
  BY <1>2, FS_Subset DEF Types, HoldTypes
<1>5. QED
  BY <1>2, <1>3, <1>4

\* The number of routes of an instance.
LEMMA FiniteRouted ==
    ASSUME NEW i
    PROVE  IsFiniteSet(Routed(i)) /\ Cardinality(Routed(i)) \in Nat
BY FS_Subset, FS_CardinalityType, ModelAssumption DEF Routed

\* The same after a step.
LEMMA FiniteNext ==
    /\ IsFiniteSet(SlotIds')
    /\ \A i : IsFiniteSet(Routed(i)') /\ Cardinality(Routed(i)') \in Nat
<1>1. SlotIds' \in SUBSET Ids /\ \A i : Routed(i)' \in SUBSET Tasks
  BY DEF SlotIds, Routed
<1>2. QED
  BY <1>1, FS_Subset, FS_CardinalityType, ModelAssumption

\* No lease and no slot more than before.
LEMMA RoomStays ==
    ASSUME Types, Room, leases' \subseteq leases, \A i \in Ids : gen'[i].slot => gen[i].slot
    PROVE  Room'
<1>1. SlotIds' \in SUBSET SlotIds /\ leases' \in SUBSET leases
  BY DEF SlotIds
<1>2. IsFiniteSet(SlotIds) /\ IsFiniteSet(leases)
  BY Finite
<1>3. Cardinality(SlotIds') <= Cardinality(SlotIds) /\ Cardinality(leases') <= Cardinality(leases)
  BY <1>1, <1>2, FS_Subset
<1>4. /\ Cardinality(SlotIds) \in Nat /\ Cardinality(leases) \in Nat
      /\ Cardinality(SlotIds') \in Nat /\ Cardinality(leases') \in Nat
  BY <1>1, <1>2, FS_Subset, FS_CardinalityType
<1>5. Slots \in Nat /\ Gpus \in Nat
  BY ModelAssumption
<1>6. QED
  BY <1>3, <1>4, <1>5 DEF Room

\* The counters of routes, where neither they nor the routes change.
LEMMA CountsStay ==
    ASSUME Counted,
           \A i \in Ids : /\ inst'[i].state # "none" => inst[i].state # "none"
                          /\ inst'[i].state # "none" => inst'[i].inflight = inst[i].inflight
                          /\ Routed(i)' = Routed(i)
    PROVE  Counted'
BY DEF Counted

\* The announcements, where a start that waits for its message goes on waiting.
LEMMA MailStays ==
    ASSUME Mail, msgs' = msgs, \A i \in Ids : start[i].pc = "sent" => start'[i].pc = "sent"
    PROVE  Mail'
<1>1. \A k \in 1..Len(msgs) : msgs[k] \in MsgSet
  BY DEF Mail
<1>2. \A k \in 1..Len(msgs) : msgs[k].id \in Ids
  BY <1>1 DEF MsgSet
<1>3. QED
  BY <1>2 DEF Mail

\* Nothing changes that Own says of an instance.
Still(i) ==
    /\ inst'[i].state = inst[i].state /\ inst'[i].claim = inst[i].claim
    /\ inst'[i].attempt = inst[i].attempt
    /\ start'[i] = start[i] /\ stop'[i] = stop[i] /\ upkeep'[i] = upkeep[i]
    /\ Routed(i)' \subseteq Routed(i)
    /\ Server(i)' => Server(i)
    /\ i \in found => i \in found'
    /\ \A a : <<i, a>> \in leases' <=> <<i, a>> \in leases

\* So it goes on to hold.
LEMMA OwnStays ==
    ASSUME NEW i, Own(i), Still(i)
    PROVE  Own(i)'
<1>1. Leased(i)'
  BY DEF Own, Still, Leased, Alive
<1>2. Handed(i)' /\ Dated(i)'
  BY DEF Own, Still, Handed, Dated, Alive
<1>3. Used(i)'
  BY DEF Own, Still, Used, Past
<1>4. Joined(i)'
  BY DEF Own, Still, Joined, CancelJob, Pending
<1>5. Tended(i)'
  BY DEF Own, Still, Tended, Busy
<1>6. QED
  BY <1>1, <1>2, <1>3, <1>4, <1>5 DEF Own

\* An action on one instance.
LEMMA OwnsStep ==
    ASSUME Owns, NEW i \in Ids, Own(i)', \A j \in Ids \ {i} : Still(j)
    PROVE  Owns'
<1>1. ASSUME NEW j \in Ids
      PROVE  Own(j)'
  BY <1>1, OwnStays DEF Owns
<1>2. QED
  BY <1>1 DEF Owns

\* Nothing is left to say of the other parts of the invariant.
LEMMA AllOf ==
    ASSUME Types', Room', Counted', Sited', Mail', Owns'
    PROVE  IInv'
BY DEF IInv

\* At first there are only tasks.
LEMMA InitInv == Init => IInv
<1> SUFFICES ASSUME Init
             PROVE  IInv
  OBVIOUS
<1>1. TaskTypes
  <2>1. PICK wants \in Wants :
               task = [t \in Tasks |-> [place |-> "ready", on |-> NoId, model |-> wants[t]]]
    BY DEF Init
  <2>2. wants \in [Tasks -> Models] /\ MaxRequests \in Nat \ {0}
    BY ModelAssumption
  <2>3. task \in [Tasks -> TaskSet]
    BY <2>1, <2>2 DEF TaskSet
  <2>4. QED
    BY <2>2, <2>3 DEF Init, TaskTypes
<1>2. HoldTypes
  <2>1. 0 \in 0..MaxFaults /\ 0 \in 0..MaxCalls
    BY ModelAssumption
  <2>2. QED
    BY <2>1 DEF Init, HoldTypes
<1>3. HandTypes
  <2>1. 0 \in 0..MaxRequests
    BY ModelAssumption
  <2>2. NoInst \in InstSet /\ NoGen \in GenSet /\ NoStart \in StartSet /\ NoStop \in StopSet
    BY <2>1 DEF NoInst, NoGen, NoStart, NoStop, InstSet, GenSet, StartSet, StopSet
  <2>3. QED
    BY <2>2 DEF Init, HandTypes
<1>4. Room
  <2>1. leases = {} /\ SlotIds = {}
    BY DEF Init, SlotIds, NoGen
  <2>2. QED
    BY <2>1, FS_EmptySet, ModelAssumption DEF Room
<1>5. Counted
  BY DEF Init, Counted, NoInst
<1>6. Mail /\ Sited
  BY DEF Init, Mail, Sited
<1>7. ASSUME NEW i \in Ids
      PROVE  Own(i)
  <2>1. /\ inst[i] = NoInst /\ start[i] = NoStart /\ stop[i] = [w \in Workers |-> NoStop]
        /\ proc[i] = "none" /\ upkeep[i] = "none"
    BY DEF Init
  <2>2. \A w \in Workers : stop[i][w].pc = "idle"
    BY <2>1 DEF NoStop
  <2>3. Routed(i) = {}
    BY DEF Init, Routed
  <2>4. stop[i]["start"].pc = "idle" /\ stop[i]["cancel2"].pc = "idle"
    BY <2>2 DEF Workers, Jobs
  <2>5. QED
    BY <2>1, <2>2, <2>3, <2>4 DEF Own, Leased, Handed, Dated, Used, Joined, Tended, Server, Alive, Past,
       NoInst, NoStart, Early, Placed, Pending
<1>8. QED
  BY <1>1, <1>2, <1>3, <1>4, <1>5, <1>6, <1>7 DEF IInv, Types, Owns
-------------------------------------------------------------------------------
(* Making actors, and what exits by itself. *)

\* What only the creation of actors and its killer change: none of them touches
\* a server, and slots are only given back.
LEMMA OutsideStep ==
    ASSUME IInv, NEW i \in Ids, gen' \in [Ids -> GenSet],
           \A j \in Ids : gen'[j].slot => gen[j].slot,
           proc' \in [Ids -> {"none", "actor", "server", "exited", "left"}],
           \A j \in Ids : Server(j)' => Server(j),
           faults' \in 0..MaxFaults, calls' \in 0..MaxCalls,
           asks' = asks, found' = found, cancelled' = cancelled,
           UNCHANGED <<task, demand, limit, inst, auto, leases, start, stop, upkeep, msgs>>
    PROVE  IInv'
<1>1. Types'
  BY DEF IInv, Types, TaskTypes, HoldTypes, HandTypes
<1>2. Room'
  BY RoomStays DEF IInv
<1>3. \A j : Routed(j)' = Routed(j)
  BY DEF Routed
<1>4. Counted' /\ Mail' /\ Sited'
  BY <1>3, CountsStay, MailStays DEF IInv, Sited
<1>5. ASSUME NEW j \in Ids
      PROVE  Own(j)'
  BY <1>3, <1>5, OwnStays DEF IInv, Owns, Still
<1>6. QED
  BY <1>1, <1>2, <1>4, <1>5 DEF IInv, Owns

\* A failure is one of those that are allowed.
LEMMA FaultType ==
    ASSUME Types, NEW i, Fault(i) \/ NoFault
    PROVE  faults' \in 0..MaxFaults
BY ModelAssumption DEF Types, HoldTypes, Fault, NoFault

\* Making actors, and killing those that came late.
LEMMA CreationSteps ==
    ASSUME IInv, NEW i \in Ids, CreationStep(i) \/ LateKill(i)
    PROVE  IInv'
<1> DEFINE g == gen[i]
<1>1. g \in GenSet /\ Types
  BY DEF IInv, Types, HandTypes
<1>2. CASE CreateBegin(i)
  <2>1. gen' = [gen EXCEPT ![i].creation = "running"]
    BY <1>2 DEF CreateBegin
  <2>2. gen' \in [Ids -> GenSet] /\ \A j \in Ids : gen'[j].slot => gen[j].slot
    BY <1>1, <2>1 DEF Types, HandTypes, GenSet
  <2>3. QED
    BY <1>1, <1>2, <2>2, OutsideStep DEF CreateBegin, createVars, startVars, Server, Types, HoldTypes
<1>3. CASE CreateEnd(i)
  <2>1. \E c \in {"made", "failed"} : gen' = [gen EXCEPT ![i].creation = c]
    BY <1>3 DEF CreateEnd
  <2>2. gen' \in [Ids -> GenSet] /\ \A j \in Ids : gen'[j].slot => gen[j].slot
    BY <1>1, <2>1 DEF Types, HandTypes, GenSet
  <2>3. faults' \in 0..MaxFaults
    BY <1>1, <1>3, FaultType DEF CreateEnd
  <2>4. proc' \in {proc, [proc EXCEPT ![i] = "actor"]}
    BY <1>3 DEF CreateEnd
  <2>5. QED
    BY <1>1, <1>3, <2>2, <2>3, <2>4, OutsideStep
    DEF CreateEnd, createVars, startVars, Server, Types, HoldTypes
<1>4. CASE CreationFinished(i)
  <2>1. gen'[i] \in GenSet /\ (gen'[i].slot => g.slot) /\ gen' = [gen EXCEPT ![i] = gen'[i]]
    BY <1>1, <1>4 DEF CreationFinished, GenSet, KillLater, Settled, NoGen, Types, HandTypes
  <2>2. gen' \in [Ids -> GenSet] /\ \A j \in Ids : gen'[j].slot => gen[j].slot
    BY <1>1, <2>1 DEF Types, HandTypes
  <2>3. QED
    BY <1>1, <1>4, <2>2, OutsideStep DEF CreationFinished, createVars, startVars, Server, Types, HoldTypes
<1>5. CASE LateKill(i)
  <2>1. gen'[i] \in GenSet /\ (gen'[i].slot => g.slot) /\ gen' = [gen EXCEPT ![i] = gen'[i]]
    BY <1>1, <1>5 DEF LateKill, GenSet, Settled, NoGen, Types, HandTypes
  <2>2. gen' \in [Ids -> GenSet] /\ \A j \in Ids : gen'[j].slot => gen[j].slot
    BY <1>1, <2>1 DEF Types, HandTypes
  <2>3. QED
    BY <1>1, <1>5, <2>2, OutsideStep DEF LateKill, createVars, startVars, Server, Types, HoldTypes
<1>6. QED
  BY <1>2, <1>3, <1>4, <1>5 DEF CreationStep

\* A server that exits.
LEMMA ServerExitsStep ==
    ASSUME IInv, NEW i \in Ids, ServerExits(i)
    PROVE  IInv'
<1>1. Types /\ faults' \in 0..MaxFaults
  BY FaultType DEF IInv, ServerExits
<1>2. proc' = [proc EXCEPT ![i] = "exited"]
  BY DEF ServerExits
<1>3. QED
  BY <1>1, <1>2, OutsideStep DEF ServerExits, Server, Types, HoldTypes, HandTypes
-------------------------------------------------------------------------------
(* Messages that do not ask for a start. *)

Others == [type : {"stop", "orphan"}, id : Ids]

\* The members of a finite set of messages, in some order.
LEMMA InOrder ==
    ASSUME NEW S, S \subseteq Others, IsFiniteSet(S)
    PROVE  SetToSeq(S) \in Seq(Others)
<1> DEFINE n == Cardinality(S)
<1>1. n \in Nat
  BY FS_CardinalityType
<1>2. PICK b \in Bijection(1..n, S) : TRUE
  BY FS_CardinalityType DEF ExistsBijection
<1>3. b \in [1..n -> S] /\ IsInjective(b)
  BY <1>2 DEF Bijection, Injection, IsInjective
<1>4. SetToSeq(S) = CHOOSE f \in [1..n -> S] : IsInjective(f)
  BY DEF SetToSeq
<1>5. PICK s \in [1..n -> S] : s = SetToSeq(S)
  BY <1>3, <1>4
<1>6. s \in Seq(S)
  BY <1>1, <1>5
<1>7. QED
  BY <1>5, <1>6

\* They announce no start.
LEMMA MailMore ==
    ASSUME Mail, NEW s \in Seq(Others), msgs' = msgs \o s,
           \A i \in Ids : start[i].pc = "sent" => start'[i].pc = "sent"
    PROVE  Mail'
<1>1. msgs \in Seq(MsgSet) /\ s \in Seq(MsgSet)
  <2>1. Others \subseteq MsgSet
    BY DEF MsgSet, Others
  <2>2. QED
    BY <2>1 DEF Mail
<1>2. msgs' \in Seq(MsgSet) /\ Len(msgs') = Len(msgs) + Len(s)
  BY <1>1
<1>3. ASSUME NEW k \in 1..Len(msgs'), msgs'[k].type = "start"
      PROVE  k \in 1..Len(msgs) /\ msgs'[k] = msgs[k]
  <2>1. CASE k \in 1..Len(msgs)
    BY <1>1, <2>1
  <2>2. CASE k \notin 1..Len(msgs)
    <3>1. Len(msgs) \in Nat /\ Len(s) \in Nat
      BY <1>1
    <3>2. k - Len(msgs) \in 1..Len(s) /\ msgs'[k] = s[k - Len(msgs)]
      BY <1>1, <1>2, <2>2, <3>1
    <3>3. s[k - Len(msgs)] \in Others
      BY <3>2
    <3>4. QED
      BY <1>3, <3>2, <3>3 DEF Others
  <2>3. QED
    BY <2>1, <2>2
<1>4. \A k \in 1..Len(msgs) : msgs[k].id \in Ids
  <2>1. \A k \in 1..Len(msgs) : msgs[k] \in MsgSet
    BY <1>1
  <2>2. QED
    BY <2>1 DEF MsgSet
<1>5. ASSUME NEW k \in 1..Len(msgs'), msgs'[k].type = "start"
      PROVE  start'[msgs'[k].id].pc = "sent"
  BY <1>3, <1>4, <1>5 DEF Mail
<1>6. ASSUME NEW k \in 1..Len(msgs'), NEW l \in 1..Len(msgs'), msgs'[k].type = "start",
             msgs'[l] = msgs'[k]
      PROVE  k = l
  BY <1>3, <1>6 DEF Mail
<1>7. QED
  BY <1>2, <1>5, <1>6 DEF Mail

\* The automatic starts that nobody needs any more are announced as such.
LEMMA ClearDemandMail ==
    ASSUME Types, Mail, NEW ts, ClearDemand(ts),
           \A i \in Ids : start[i].pc = "sent" => start'[i].pc = "sent"
    PROVE  Mail' /\ demand' \subseteq Tasks
<1> DEFINE S == {Message("orphan", i) : i \in Orphans(demand \ ts)}
<1>1. Orphans(demand \ ts) \in SUBSET Ids
  BY DEF Types, HoldTypes, Orphans
<1>2. IsFiniteSet(Orphans(demand \ ts))
  BY <1>1, FS_Subset, ModelAssumption
<1>3. IsFiniteSet(S)
  <2> DEFINE f == [i \in Orphans(demand \ ts) |-> Message("orphan", i)]
  <2>1. f \in Surjection(Orphans(demand \ ts), S)
    BY DEF Surjection
  <2>2. QED
    BY <1>2, <2>1, FS_Surjection
<1>4. S \subseteq Others
  <2>1. ASSUME NEW m \in S
        PROVE  m \in Others
    <3>1. PICK i \in Orphans(demand \ ts) : m = Message("orphan", i)
      OBVIOUS
    <3>2. i \in Ids
      BY <1>1
    <3>3. QED
      BY <3>1, <3>2 DEF Message, Others
  <2>2. QED
    BY <2>1
<1>5. SetToSeq(S) \in Seq(Others)
  BY <1>3, <1>4, InOrder
<1>6. msgs' = msgs \o SetToSeq(S)
  BY DEF ClearDemand
<1>7. Mail'
  BY <1>5, <1>6, MailMore
<1>8. QED
  BY <1>7 DEF ClearDemand, Types, TaskTypes
-------------------------------------------------------------------------------
(* Tasks. *)

\* Waking the tasks of a model leaves their routes alone.
LEMMA WokenTasks ==
    ASSUME Types, NEW m
    PROVE  /\ Woken(m) \in [Tasks -> TaskSet]
           /\ \A t \in Tasks : /\ Woken(m)[t].on = task[t].on
                               /\ \/ Woken(m)[t] = task[t]
                                  \/ task[t].place = "waiting" /\ Woken(m)[t].place = "ready"
BY DEF Types, TaskTypes, TaskSet, Woken

\* A task that has ended.
LEMMA DoneTask ==
    ASSUME Types, NEW t \in Tasks
    PROVE  Done(t) \in TaskSet /\ Done(t).place = "done"
BY DEF Types, TaskTypes, TaskSet, Done

\* Giving back a route changes the counter of its instance and nothing else.
LEMMA ReleasedInst ==
    ASSUME Types, NEW i \in Ids
    PROVE  /\ Released(i) \in [Ids -> InstSet]
           /\ \A j \in Ids : /\ Released(i)[j].state = inst[j].state
                             /\ Released(i)[j].claim = inst[j].claim
                             /\ Released(i)[j].attempt = inst[j].attempt
                             /\ j # i => Released(i)[j] = inst[j]
           /\ inst[i].state # "none" =>
                 Released(i)[i].inflight = IF inst[i].inflight = 0 THEN 0 ELSE inst[i].inflight - 1
<1>1. inst \in [Ids -> InstSet] /\ MaxRequests \in Nat
  BY ModelAssumption DEF Types, HandTypes
<1>2. CASE inst[i].state = "none"
  BY <1>1, <1>2 DEF Released
<1>3. CASE inst[i].state # "none"
  <2> DEFINE n == IF inst[i].inflight = 0 THEN 0 ELSE inst[i].inflight - 1
  <2>1. n \in 0..MaxRequests
    BY <1>1 DEF InstSet
  <2>2. Released(i) = [inst EXCEPT ![i].inflight = n]
    BY <1>3 DEF Released
  <2> HIDE DEF n
  <2>3. [inst EXCEPT ![i].inflight = n] \in [Ids -> InstSet]
    BY <1>1, <2>1 DEF InstSet
  <2>4. \A j \in Ids : /\ Released(i)[j].state = inst[j].state
                       /\ Released(i)[j].claim = inst[j].claim
                       /\ Released(i)[j].attempt = inst[j].attempt
                       /\ j # i => Released(i)[j] = inst[j]
    BY <1>1, <2>2 DEF InstSet
  <2>5. Released(i)[i].inflight = n
    BY <1>1, <2>2 DEF InstSet
  <2>6. QED
    BY <2>2, <2>3, <2>4, <2>5 DEF n
<1>4. QED
  BY <1>2, <1>3

\* The counters stay right when a task gives its route back.
LEMMA CountsLess ==
    ASSUME Types, Counted, NEW t \in Tasks, task[t].place = "routed", task[t].on \in Ids,
           task'[t].place # "routed",
           \A u \in Tasks \ {t} : /\ task'[u].on = task[u].on
                                  /\ task'[u].place = "routed" <=> task[u].place = "routed",
           \A j \in Ids : /\ inst'[j].inflight = Released(task[t].on)[j].inflight
                          /\ inst'[j].state = "none" <=> inst[j].state = "none"
    PROVE  Counted' /\ \A j \in Ids : Routed(j)' \subseteq Routed(j)
<1>0. PICK i \in Ids : i = task[t].on
  OBVIOUS
<1>1. \A j \in Ids \ {i} : Routed(j)' = Routed(j)
  BY <1>0 DEF Routed
<1>2. Routed(i)' = Routed(i) \ {t} /\ t \in Routed(i)
  BY <1>0 DEF Routed
<1>3. Cardinality(Routed(i)') = Cardinality(Routed(i)) - 1
  BY <1>2, FiniteRouted, FS_RemoveElement
<1>4. Cardinality(Routed(i)) \in Nat /\ Cardinality(Routed(i)) # 0
  BY <1>2, FiniteRouted, FS_EmptySet
<1>5. ASSUME NEW j \in Ids, inst'[j].state # "none"
      PROVE  inst'[j].inflight = Cardinality(Routed(j)')
  <2>1. inst[j].state # "none" /\ inst[j].inflight = Cardinality(Routed(j))
    BY <1>5 DEF Counted
  <2>2. CASE j = i
    BY <1>0, <1>3, <1>4, <2>1, <2>2, ReleasedInst
  <2>3. CASE j # i
    BY <1>0, <1>1, <2>1, <2>3, ReleasedInst
  <2>4. QED
    BY <2>2, <2>3
<1>6. Counted'
  BY <1>5 DEF Counted
<1>7. QED
  BY <1>1, <1>2, <1>6

\* A step of a task that takes no new route and leaves the threads alone.
LEMMA TaskStep ==
    ASSUME IInv, TaskTypes', Sited', Counted', Mail', inst' \in [Ids -> InstSet],
           \A j \in Ids : /\ inst'[j].state = inst[j].state /\ inst'[j].claim = inst[j].claim
                          /\ inst'[j].attempt = inst[j].attempt
                          /\ Routed(j)' \subseteq Routed(j),
           faults' \in 0..MaxFaults, calls' \in 0..MaxCalls,
           UNCHANGED <<auto, cancelled, gen, proc, leases, start, stop, asks, upkeep, found>>
    PROVE  IInv'
<1>1. Types' /\ Room'
  BY RoomStays DEF IInv, Types, HoldTypes, HandTypes
<1>2. ASSUME NEW j \in Ids
      PROVE  Own(j)'
  BY <1>2, OwnStays DEF IInv, Owns, Still, Server
<1>3. QED
  BY <1>1, <1>2 DEF IInv, Owns

\* A task finds an instance or waits for one.
LEMMA RouteStep ==
    ASSUME IInv, NEW t \in Tasks, Route(t)
    PROVE  IInv'
<1> DEFINE m == task[t].model
<1>1. /\ Types /\ Counted /\ Sited /\ Mail /\ Owns
      /\ task \in [Tasks -> TaskSet] /\ inst \in [Ids -> InstSet] /\ m \in Models
  BY DEF IInv, Types, TaskTypes, HandTypes, TaskSet
<1>2. CASE Available(m) = {} /\ UNCHANGED inst
  <2>1. task' = [task EXCEPT ![t].place = "waiting"] /\ demand' = demand \cup {t}
    BY <1>2 DEF Route
  <2>2. TaskTypes' /\ Sited'
    BY <1>1, <2>1 DEF Route, Types, TaskTypes, TaskSet, Sited
  <2>3. \A j \in Ids : Routed(j)' = Routed(j)
    BY <1>1, <2>1 DEF Route, Routed, TaskSet
  <2>4. Counted' /\ Mail'
    BY <1>1, <1>2, <2>3, CountsStay, MailStays DEF Route
  <2>5. QED
    BY <1>1, <1>2, <2>2, <2>3, <2>4, TaskStep DEF Route, Types, HoldTypes
<1>3. ASSUME NEW i \in Available(m), task' = [task EXCEPT ![t].place = "routed", ![t].on = i],
             inst' = [inst EXCEPT ![i].inflight = @ + 1], demand' = demand \ {t}
      PROVE  IInv'
  <2>1. i \in Ids /\ inst[i].state = "ready" /\ inst[i].inflight < limit[m]
    BY <1>3 DEF Available
  <2>2. /\ task' \in [Tasks -> TaskSet] /\ task'[t].place = "routed" /\ task'[t].on = i
        /\ \A u \in Tasks \ {t} : task'[u] = task[u]
    BY <1>1, <1>3, <2>1 DEF TaskSet
  <2>3. TaskTypes' /\ Sited'
    BY <1>1, <1>3, <2>1, <2>2 DEF Route, Types, TaskTypes, Sited
  <2>4. inst[i].inflight + 1 \in 0..MaxRequests
    BY <1>1, <2>1, ModelAssumption DEF Types, TaskTypes, InstSet
  <2>5. inst' \in [Ids -> InstSet]
    BY <1>1, <1>3, <2>4 DEF InstSet
  <2>6. \A j \in Ids : /\ inst'[j].state = inst[j].state /\ inst'[j].claim = inst[j].claim
                       /\ inst'[j].attempt = inst[j].attempt
                       /\ j # i => inst'[j] = inst[j]
    BY <1>1, <1>3, <2>1 DEF InstSet
  <2>7. Routed(i)' = Routed(i) \cup {t} /\ t \notin Routed(i)
    BY <2>2 DEF Routed, Route
  <2>8. \A j \in Ids \ {i} : Routed(j)' = Routed(j)
    BY <2>2 DEF Routed, Route
  <2>9. Counted'
    <3>1. Cardinality(Routed(i)') = Cardinality(Routed(i)) + 1
      BY <2>7, FiniteRouted, FS_AddElement
    <3>2. inst'[i].inflight = inst[i].inflight + 1
      BY <1>1, <1>3, <2>1 DEF InstSet
    <3>3. \A j \in Ids : inst[j].state # "none" => inst[j].inflight = Cardinality(Routed(j))
      BY <1>1 DEF Counted
    <3>4. \A j \in Ids : inst'[j].state # "none" => inst'[j].inflight = Cardinality(Routed(j)')
      BY <2>1, <2>6, <2>8, <3>1, <3>2, <3>3
    <3>5. QED
      BY <3>4 DEF Counted
  <2>10. Mail'
    BY <1>1, MailStays DEF Route
  <2>11. Types' /\ Room'
    BY <1>1, <2>3, <2>5, RoomStays DEF Route, IInv, Types, HoldTypes, HandTypes
  <2>12. \A j \in Ids \ {i} : Still(j)
    BY <2>6, <2>8 DEF Route, Still, Server
  <2>13. Own(i) /\ Past(i) /\ upkeep[i] # "idle"
    BY <1>1, <2>1 DEF Owns, Own, Used
  <2>14. Own(i)'
    <3>1. Leased(i)'
      BY <2>1, <2>6, <2>13 DEF Own, Leased, Alive, Server, Route
    <3>2. Handed(i)' /\ Dated(i)'
      BY <2>1, <2>6, <2>13 DEF Own, Handed, Dated, Alive, Route
    <3>3. Used(i)'
      BY <2>1, <2>6, <2>13 DEF Own, Used, Past, Route
    <3>4. Joined(i)' /\ Tended(i)'
      BY <2>1, <2>6, <2>13 DEF Own, Joined, Tended, CancelJob, Pending, Busy, Route
    <3>5. QED
      BY <3>1, <3>2, <3>3, <3>4 DEF Own
  <2>15. QED
    BY <1>1, <2>1, <2>3, <2>9, <2>10, <2>11, <2>12, <2>14, OwnsStep DEF IInv
<1>4. QED
  BY <1>2, <1>3 DEF Route

\* A task ends, or its client stops it.
LEMMA EndTaskStep ==
    ASSUME IInv, NEW t \in Tasks, EndTask(t)
    PROVE  IInv'
<1>1. /\ Types /\ Counted /\ Sited /\ Mail
      /\ task \in [Tasks -> TaskSet] /\ task[t].place = "routed"
  BY DEF IInv, Types, TaskTypes, EndTask
<1>2. PICK i \in Ids : i = task[t].on
  BY <1>1 DEF Sited
<1>3. Mail' /\ demand' \subseteq Tasks
  BY <1>1, ClearDemandMail DEF EndTask
<1>4. PICK m : m = task[t].model
  OBVIOUS
<1>5. task' = [Woken(m) EXCEPT ![t] = Done(t)] /\ inst' = Released(i)
  BY <1>2, <1>4 DEF EndTask
<1>6. /\ task' \in [Tasks -> TaskSet] /\ task'[t].place = "done"
      /\ \A u \in Tasks \ {t} : /\ task'[u].on = task[u].on
                                /\ \/ task'[u] = task[u]
                                   \/ task[u].place = "waiting" /\ task'[u].place = "ready"
  BY <1>1, <1>5, WokenTasks, DoneTask
<1>7. TaskTypes' /\ Sited'
  BY <1>1, <1>3, <1>6 DEF EndTask, Types, TaskTypes, Sited
<1>8. Counted' /\ \A j \in Ids : Routed(j)' \subseteq Routed(j)
  BY <1>1, <1>2, <1>5, <1>6, CountsLess, ReleasedInst
<1>9. QED
  BY <1>1, <1>2, <1>3, <1>5, <1>7, <1>8, ReleasedInst, TaskStep DEF EndTask, Types, HoldTypes

\* The client of a task that has no route stops it.
LEMMA StopWorkflowStep ==
    ASSUME IInv, NEW t \in Tasks, StopWorkflow(t)
    PROVE  IInv'
<1>1. /\ Types /\ Counted /\ Sited /\ Mail
      /\ task \in [Tasks -> TaskSet] /\ task[t].place # "routed"
  BY DEF IInv, Types, TaskTypes, StopWorkflow
<1>2. Mail' /\ demand' \subseteq Tasks
  BY <1>1, ClearDemandMail DEF StopWorkflow
<1>3. task' = [task EXCEPT ![t] = Done(t)]
  BY DEF StopWorkflow
<1>4. TaskTypes' /\ Sited'
  BY <1>1, <1>2, <1>3, DoneTask DEF StopWorkflow, Types, TaskTypes, Sited
<1>5. \A j \in Ids : Routed(j)' = Routed(j)
  BY <1>1, <1>3, DoneTask DEF Routed
<1>6. Counted'
  BY <1>1, <1>5, CountsStay DEF StopWorkflow
<1>7. calls' \in 0..MaxCalls
  BY <1>1, ModelAssumption DEF StopWorkflow, Types, HoldTypes
<1>8. QED
  BY <1>1, <1>2, <1>4, <1>5, <1>6, <1>7, TaskStep DEF StopWorkflow, Types, HoldTypes, HandTypes
-------------------------------------------------------------------------------
(* Stopping an instance. *)

\* A step about one instance.
LEMMA OneStepWith ==
    ASSUME IInv, NEW i \in Ids, HandTypes', HoldTypes', Room',
           UNCHANGED <<task, demand, limit, msgs>>,
           start[i].pc = "sent" => start'[i].pc = "sent",
           \A j \in Ids \ {i} :
              /\ inst'[j] = inst[j] /\ start'[j] = start[j] /\ stop'[j] = stop[j]
              /\ upkeep'[j] = upkeep[j] /\ proc'[j] = proc[j]
              /\ j \in found => j \in found'
              /\ \A a : <<j, a>> \in leases' <=> <<j, a>> \in leases,
           inst'[i].state # "none" => inst'[i].inflight = Cardinality(Routed(i)),
           Own(i)'
    PROVE  IInv'
<1>1. Types' /\ Sited'
  BY DEF IInv, Types, TaskTypes, Sited
<1>2. \A j : Routed(j)' = Routed(j)
  BY DEF Routed
<1>3. Counted'
  BY <1>2 DEF IInv, Counted
<1>4. Mail'
  BY MailStays DEF IInv
<1>5. \A j \in Ids \ {i} : Still(j)
  BY <1>2 DEF Still, Server
<1>6. QED
  BY <1>1, <1>3, <1>4, <1>5, OwnsStep DEF IInv

\* One that takes no lease and no slot.
LEMMA OneStep ==
    ASSUME IInv, NEW i \in Ids, HandTypes', HoldTypes', leases' \subseteq leases,
           \A j \in Ids : gen'[j].slot => gen[j].slot,
           UNCHANGED <<task, demand, limit, msgs>>,
           start[i].pc = "sent" => start'[i].pc = "sent",
           \A j \in Ids \ {i} :
              /\ inst'[j] = inst[j] /\ start'[j] = start[j] /\ stop'[j] = stop[j]
              /\ upkeep'[j] = upkeep[j] /\ proc'[j] = proc[j]
              /\ j \in found => j \in found'
              /\ \A a : <<j, a>> \in leases' <=> <<j, a>> \in leases,
           inst'[i].state # "none" => inst'[i].inflight = Cardinality(Routed(i)),
           Own(i)'
    PROVE  IInv'
<1>1. Room'
  BY RoomStays DEF IInv
<1>2. QED
  BY <1>1, OneStepWith

\* The place of one worker changes.
LEMMA OneWorker ==
    ASSUME Types, NEW i \in Ids, NEW w \in Workers, NEW r \in StopSet,
           stop' = [stop EXCEPT ![i][w] = r]
    PROVE  /\ stop' \in [Ids -> [Workers -> StopSet]]
           /\ stop'[i][w] = r
           /\ \A v \in Workers \ {w} : stop'[i][v] = stop[i][v]
           /\ \A j \in Ids \ {i} : stop'[j] = stop[j]
BY DEF Types, HandTypes

\* The entry of one instance changes.
LEMMA OneInst ==
    ASSUME Types, NEW i \in Ids, NEW r \in InstSet, inst' = [inst EXCEPT ![i] = r]
    PROVE  /\ inst' \in [Ids -> InstSet]
           /\ inst'[i] = r
           /\ \A j \in Ids \ {i} : inst'[j] = inst[j]
BY DEF Types, HandTypes

\* The workers, and what the types say of one of them.
LEMMA WorkerTypes ==
    /\ "start" \in Workers /\ "shared" \in Workers /\ "cancel1" \in Workers
    /\ "cancel2" \in Workers /\ "recovery" \in Workers
    /\ \A i : CancelJob(i) \in {"cancel1", "cancel2"}
BY DEF Workers, Jobs, CancelJob

\* An instance that is not known is not there.
LEMMA Attempts ==
    ASSUME Types, NEW i \in Ids
    PROVE  /\ inst[i] \in InstSet /\ inst[i].attempt \in 0..2 /\ start[i].attempt \in 1..2
           /\ \A w \in Workers : stop[i][w] \in StopSet /\ stop[i][w].attempt \in 0..2
BY DEF Types, HandTypes, InstSet, StartSet, StopSet

\* A worker looks at the instance and ends, finalizes, stops or waits.
LEMMA EnterStep ==
    ASSUME IInv, NEW i \in Ids, NEW w \in Workers, Enter(i, w)
    PROVE  IInv'
<1>1. Types /\ Counted /\ Own(i)
  BY DEF IInv, Owns
<1>2. /\ UNCHANGED stopVars /\ UNCHANGED <<proc, leases, faults>> /\ stop[i][w].pc = "enter"
      /\ start[i].pc # "undo" => w # "start"
  BY <1>1, WorkerTypes DEF Enter, Own, Joined
<1>3. /\ inst[i] \in InstSet /\ inst[i].attempt \in 0..2
      /\ \A v \in Workers : stop[i][v] \in StopSet
  BY <1>1, Attempts
<1>4. ASSUME inst' = inst, NEW pc \in {"ok", "failed"}, stop' = [stop EXCEPT ![i][w] = Ended(pc)],
             \/ inst[i].state = "none" /\ (w \in {"cancel1", "cancel2"} => StartOver(i, w))
             \/ inst[i].state = "stopped" /\ w = "start"
      PROVE  IInv'
  <2>1. Ended(pc) \in StopSet /\ Ended(pc).pc = pc
    BY DEF Ended, StopSet
  <2>2. /\ stop' \in [Ids -> [Workers -> StopSet]] /\ stop'[i][w].pc \in {"ok", "failed"}
        /\ \A v \in Workers \ {w} : stop'[i][v] = stop[i][v]
        /\ \A j \in Ids \ {i} : stop'[j] = stop[j]
    BY <1>1, <1>4, <2>1, OneWorker
  <2>3. Leased(i)'
    BY <1>1, <1>2, <1>4 DEF Own, Leased, Alive, Server, stopVars
  <2>4. Handed(i)' /\ Dated(i)'
    BY <1>1, <1>2, <1>4, <2>2 DEF Own, Handed, Dated, Alive, stopVars
  <2>5. Used(i)'
    BY <1>1, <1>2, <1>4 DEF Own, Used, Past, Routed, stopVars
  <2>6. Joined(i)'
    BY <1>1, <1>2, <1>4, <2>2, WorkerTypes
    DEF Own, Leased, Joined, CancelJob, Pending, StartOver, Early, Placed, stopVars
  <2>7. Tended(i)'
    BY <1>1, <1>2, <1>4, <2>2 DEF Own, Tended, Busy, stopVars
  <2>8. QED
    BY <1>1, <1>2, <1>4, <2>2, <2>3, <2>4, <2>5, <2>6, <2>7, OneStep
    DEF Own, Types, HandTypes, HoldTypes, Counted, stopVars
<1>5. ASSUME inst' = inst, NEW pc \in {"finalize", "wait"},
             stop' = [stop EXCEPT ![i][w] = [pc |-> pc, attempt |-> inst[i].attempt]],
             \/ pc = "finalize" /\ inst[i].state = "stopped"
             \/ pc = "wait" /\ inst[i].state = "stopping" /\ ~inst[i].claim
      PROVE  IInv'
  <2> DEFINE r == [pc |-> pc, attempt |-> inst[i].attempt]
  <2>1. r \in StopSet /\ r.pc = pc /\ r.attempt = inst[i].attempt
    BY <1>3 DEF StopSet
  <2>2. /\ stop' \in [Ids -> [Workers -> StopSet]]
        /\ stop'[i][w].pc = pc /\ stop'[i][w].attempt = inst[i].attempt
        /\ \A v \in Workers \ {w} : stop'[i][v] = stop[i][v]
        /\ \A j \in Ids \ {i} : stop'[j] = stop[j]
    BY <1>1, <1>5, <2>1, OneWorker
  <2>3. Leased(i)'
    BY <1>1, <1>2, <1>5 DEF Own, Leased, Alive, Server, stopVars
  <2>4. Handed(i)' /\ Dated(i)'
    BY <1>1, <1>2, <1>5, <2>2 DEF Own, Leased, Handed, Dated, Alive, Early, Placed, stopVars
  <2>5. Used(i)'
    BY <1>1, <1>2, <1>5 DEF Own, Used, Past, Routed, stopVars
  <2>6. Joined(i)'
    BY <1>1, <1>2, <1>5, <2>2, WorkerTypes
    DEF Own, Leased, Joined, CancelJob, Pending, Early, Placed, stopVars
  <2>7. Tended(i)'
    BY <1>1, <1>2, <1>5, <2>2 DEF Own, Tended, Busy, stopVars
  <2>8. QED
    BY <1>1, <1>2, <1>5, <2>2, <2>3, <2>4, <2>5, <2>6, <2>7, OneStep
    DEF Own, Types, HandTypes, HoldTypes, Counted, stopVars
<1>6. ASSUME Takes(i), inst' = [inst EXCEPT ![i].state = "stopping", ![i].claim = FALSE],
             stop' = [stop EXCEPT ![i][w] = [pc |-> "owner", attempt |-> inst[i].attempt]]
      PROVE  IInv'
  <2> DEFINE r == [pc |-> "owner", attempt |-> inst[i].attempt]
  <2>1. r \in StopSet /\ r.pc = "owner" /\ r.attempt = inst[i].attempt
    BY <1>3 DEF StopSet
  <2>2. /\ stop' \in [Ids -> [Workers -> StopSet]]
        /\ stop'[i][w].pc = "owner" /\ stop'[i][w].attempt = inst[i].attempt
        /\ \A v \in Workers \ {w} : stop'[i][v] = stop[i][v]
        /\ \A j \in Ids \ {i} : stop'[j] = stop[j]
    BY <1>1, <1>6, <2>1, OneWorker
  <2>3. /\ inst' \in [Ids -> InstSet] /\ \A j \in Ids \ {i} : inst'[j] = inst[j]
        /\ inst'[i].state = "stopping" /\ ~inst'[i].claim
        /\ inst'[i].attempt = inst[i].attempt /\ inst'[i].inflight = inst[i].inflight
    BY <1>1, <1>6 DEF Types, HandTypes, InstSet
  <2>4. /\ inst[i].state \notin {"none", "stopped"}
        /\ \A v \in Workers : stop[i][v].pc # "owner"
    BY <1>1, <1>6 DEF Takes, Own, Handed
  <2>5. Leased(i)'
    BY <1>1, <1>2, <2>3, <2>4 DEF Own, Leased, Alive, Server, stopVars
  <2>6. Handed(i)' /\ Dated(i)'
    BY <1>1, <1>2, <2>2, <2>3, <2>4 DEF Own, Leased, Handed, Dated, Alive, Early, Placed, stopVars
  <2>7. Used(i)'
    BY <1>1, <1>2, <2>3, <2>4 DEF Own, Used, Past, Routed, stopVars
  <2>8. Joined(i)'
    BY <1>1, <1>2, <2>2, <2>3, <2>4, WorkerTypes
    DEF Own, Leased, Joined, CancelJob, Pending, Early, Placed, stopVars
  <2>9. Tended(i)'
    BY <2>2, <2>3 DEF Tended, Busy
  <2>10. QED
    BY <1>1, <1>2, <2>2, <2>3, <2>4, <2>5, <2>6, <2>7, <2>8, <2>9, OneStep
    DEF Own, Types, HandTypes, HoldTypes, Counted, stopVars
<1>7. \/ /\ inst' = inst
         /\ \E pc \in {"ok", "failed"} : stop' = [stop EXCEPT ![i][w] = Ended(pc)]
         /\ \/ inst[i].state = "none" /\ (w \in {"cancel1", "cancel2"} => StartOver(i, w))
            \/ inst[i].state = "stopped" /\ w = "start"
      \/ /\ inst' = inst
         /\ \E pc \in {"finalize", "wait"} :
               /\ stop' = [stop EXCEPT ![i][w] = [pc |-> pc, attempt |-> inst[i].attempt]]
               /\ \/ pc = "finalize" /\ inst[i].state = "stopped"
                  \/ pc = "wait" /\ inst[i].state = "stopping" /\ ~inst[i].claim
      \/ /\ Takes(i) /\ inst' = [inst EXCEPT ![i].state = "stopping", ![i].claim = FALSE]
         /\ stop' = [stop EXCEPT ![i][w] = [pc |-> "owner", attempt |-> inst[i].attempt]]
  BY <1>1, <1>3 DEF Enter, Takes, Workers, Jobs, InstSet
<1>8. QED
  BY <1>4, <1>5, <1>6, <1>7

\* What a worker does next whose stop has ended: it finalizes the instance, or
\* it has nothing more to do.
After(r, old) ==
    \/ r.pc \in {"ok", "failed"}
    \/ r.pc = "finalize" /\ r.attempt = old.attempt

\* The thread of a start does no more than the stop.
LEMMA ConfirmedStop ==
    ASSUME Types, NEW i \in Ids, NEW w \in Workers, Confirmed(i, w)
    PROVE  \E r \in StopSet : /\ stop' = [stop EXCEPT ![i][w] = r]
                              /\ After(r, stop[i][w])
                              /\ w # "start" => r.pc = "finalize"
<1> DEFINE r == IF w = "start" THEN Ended("ok") ELSE [stop[i][w] EXCEPT !.pc = "finalize"]
<1>1. stop[i][w] \in StopSet
  BY Attempts
<1>2. stop' = [stop EXCEPT ![i][w] = r]
  BY DEF Confirmed, Types, HandTypes
<1>3. r \in StopSet /\ After(r, stop[i][w])
  BY <1>1 DEF Ended, StopSet, After
<1>4. w # "start" => r.pc = "finalize"
  BY <1>1 DEF StopSet
<1> HIDE DEF r
<1>5. QED
  BY <1>2, <1>3, <1>4

\* A stop that failed.
LEMMA FailedStop ==
    /\ Ended("failed") \in StopSet /\ Ended("failed").pc = "failed"
    /\ \A old : After(Ended("failed"), old)
BY DEF Ended, StopSet, After

\* The stop of the owner is confirmed, or fails.
LEMMA OwnerStep ==
    ASSUME IInv, NEW i \in Ids, NEW w \in Workers, Stopped(i, w) \/ StopFails(i, w)
    PROVE  IInv'
<1>1. Types /\ Counted /\ Own(i) /\ inst[i] \in InstSet /\ stop[i][w] \in StopSet
  BY Attempts DEF IInv, Owns
<1>2. /\ UNCHANGED stopVars /\ UNCHANGED leases /\ stop[i][w].pc = "owner"
      /\ start[i].pc # "undo" => w # "start"
  BY <1>1, WorkerTypes DEF Stopped, StopFails, Own, Joined
<1>3. /\ inst[i].state = "stopping" /\ start[i].pc \notin Early
      /\ \A v \in Workers \ {w} : stop[i][v].pc # "owner"
  BY <1>1, <1>2 DEF Own, Handed, Leased
<1>4. PICK s \in {"stopped", "cleanup_pending"} :
          /\ inst' = [inst EXCEPT ![i].state = s]
          /\ \E p \in {"none", "left", proc[i]} : proc' = [proc EXCEPT ![i] = p]
          /\ s = "stopped" => proc'[i] = "none"
  <2>1. CASE Stopped(i, w)
    <3>1. proc' = [proc EXCEPT ![i] = "none"] /\ proc'[i] = "none"
      BY <1>1, <2>1 DEF Stopped, Types, HoldTypes
    <3>2. QED
      BY <2>1, <3>1 DEF Stopped
  <2>2. CASE StopFails(i, w)
    <3>1. PICK p \in {"none", "left", proc[i]} : proc' = [proc EXCEPT ![i] = p]
      BY <2>2 DEF StopFails
    <3>2. QED
      BY <2>2, <3>1 DEF StopFails
  <2>3. QED
    BY <2>1, <2>2
<1>5. /\ stop' \in [Ids -> [Workers -> StopSet]] /\ After(stop'[i][w], stop[i][w])
      /\ s = "stopped" /\ w # "start" => stop'[i][w].pc = "finalize"
      /\ stop'[i][w].pc = "finalize" => s = "stopped"
      /\ \A v \in Workers \ {w} : stop'[i][v] = stop[i][v]
      /\ \A j \in Ids \ {i} : stop'[j] = stop[j]
  <2>1. CASE Stopped(i, w)
    <3>1. PICK r \in StopSet : /\ stop' = [stop EXCEPT ![i][w] = r]
                               /\ After(r, stop[i][w])
                               /\ w # "start" => r.pc = "finalize"
      BY <1>1, <2>1, ConfirmedStop DEF Stopped
    <3>2. s = "stopped"
      BY <1>1, <1>4, <2>1 DEF Stopped, Types, HandTypes, InstSet
    <3>3. QED
      BY <1>1, <3>1, <3>2, OneWorker
  <2>2. CASE StopFails(i, w)
    <3>1. s = "cleanup_pending"
      BY <1>1, <1>4, <2>2 DEF StopFails, Types, HandTypes, InstSet
    <3>2. stop' = [stop EXCEPT ![i][w] = Ended("failed")]
      BY <2>2 DEF StopFails
    <3>3. QED
      BY <1>1, <3>1, <3>2, FailedStop, OneWorker
  <2>3. QED
    BY <2>1, <2>2
<1>6. /\ inst' \in [Ids -> InstSet] /\ \A j \in Ids \ {i} : inst'[j] = inst[j]
      /\ inst'[i].state = s
      /\ inst'[i].attempt = inst[i].attempt /\ inst'[i].inflight = inst[i].inflight
  BY <1>1, <1>4 DEF Types, HandTypes, InstSet
<1>7. /\ proc' \in [Ids -> {"none", "actor", "server", "exited", "left"}]
      /\ \A j \in Ids \ {i} : proc'[j] = proc[j]
  BY <1>1, <1>4 DEF Types, HoldTypes
<1>8. HandTypes' /\ HoldTypes'
  <2>1. faults' \in 0..MaxFaults
    BY <1>1, FaultType DEF Stopped, StopFails, NoFault
  <2>2. QED
    BY <1>1, <1>2, <1>5, <1>6, <1>7, <2>1 DEF Types, HandTypes, HoldTypes, stopVars
<1>9. Leased(i)'
  BY <1>1, <1>2, <1>3, <1>4, <1>6 DEF Own, Leased, Alive, Server, stopVars
<1>10. Handed(i)' /\ Dated(i)'
  BY <1>1, <1>2, <1>3, <1>4, <1>5, <1>6 DEF Own, Handed, Dated, Alive, After, stopVars
<1>11. Used(i)'
  BY <1>1, <1>2, <1>3, <1>4, <1>6 DEF Own, Used, Past, Routed, stopVars
<1>12. Joined(i)'
  BY <1>1, <1>2, <1>3, <1>4, <1>5, <1>6, WorkerTypes
  DEF Own, Joined, CancelJob, Pending, After, stopVars
<1>13. Tended(i)'
  BY <1>2, <1>4, <1>5, <1>6 DEF Tended, Busy, stopVars
<1>14. QED
  BY <1>1, <1>2, <1>3, <1>5, <1>6, <1>7, <1>8, <1>9, <1>10, <1>11, <1>12, <1>13, OneStep
  DEF Own, Counted, stopVars

\* The end of another stop was awaited.
LEMMA WaitOverStep ==
    ASSUME IInv, NEW i \in Ids, NEW w \in Workers, WaitOver(i, w)
    PROVE  IInv'
<1>1. Types /\ Counted /\ Own(i) /\ inst[i] \in InstSet /\ stop[i][w] \in StopSet
  BY Attempts DEF IInv, Owns
<1>2. /\ UNCHANGED stopVars /\ UNCHANGED <<inst, proc, leases>> /\ stop[i][w].pc = "wait"
      /\ start[i].pc # "undo" => w # "start"
      /\ faults' \in 0..MaxFaults
  BY <1>1, WorkerTypes, FaultType DEF WaitOver, Own, Joined
<1>3. \/ Confirmed(i, w) /\ ~Alive(i)
      \/ stop' = [stop EXCEPT ![i][w] = Ended("failed")]
  BY DEF WaitOver, Alive
<1>4. /\ stop' \in [Ids -> [Workers -> StopSet]] /\ After(stop'[i][w], stop[i][w])
      /\ stop'[i][w].pc = "finalize" => ~Alive(i)
      /\ \A v \in Workers \ {w} : stop'[i][v] = stop[i][v]
      /\ \A j \in Ids \ {i} : stop'[j] = stop[j]
  <2>1. CASE Confirmed(i, w) /\ ~Alive(i)
    <3>1. PICK r \in StopSet : stop' = [stop EXCEPT ![i][w] = r] /\ After(r, stop[i][w])
      BY <1>1, <2>1, ConfirmedStop
    <3>2. QED
      BY <1>1, <2>1, <3>1, OneWorker
  <2>2. CASE stop' = [stop EXCEPT ![i][w] = Ended("failed")]
    BY <1>1, <2>2, FailedStop, OneWorker
  <2>3. QED
    BY <1>3, <2>1, <2>2
<1>5. Leased(i)' /\ Used(i)'
  BY <1>1, <1>2 DEF Own, Leased, Alive, Server, Used, Past, Routed, stopVars
<1>6. Handed(i)' /\ Dated(i)'
  BY <1>1, <1>2, <1>4 DEF Own, Handed, Dated, Alive, After, stopVars
<1>7. Joined(i)'
  BY <1>1, <1>2, <1>4, WorkerTypes DEF Own, Joined, CancelJob, Pending, After, stopVars
<1>8. Tended(i)'
  BY <1>1, <1>2, <1>4 DEF Own, Tended, Busy, After, stopVars
<1>9. QED
  BY <1>1, <1>2, <1>4, <1>5, <1>6, <1>7, <1>8, OneStep
  DEF Own, Counted, stopVars, Types, HandTypes, HoldTypes

\* What was stopped is forgotten, and its lease goes back.
LEMMA FinalizeStep ==
    ASSUME IInv, NEW i \in Ids, NEW w \in Workers, Finalize(i, w)
    PROVE  IInv'
<1>1. Types /\ Counted /\ Own(i) /\ inst[i] \in InstSet /\ stop[i][w] \in StopSet
  BY Attempts DEF IInv, Owns
<1>2. /\ stop[i][w].pc = "finalize" /\ leases' = leases \ {<<i, stop[i][w].attempt>>}
      /\ start[i].pc # "undo" => w # "start"
      /\ UNCHANGED <<task, demand, limit, gen, proc, start, asks, upkeep, msgs, found, faults, calls>>
  BY <1>1, WorkerTypes DEF Finalize, Own, Joined
<1>3. PICK r \in StopSet : stop' = [stop EXCEPT ![i][w] = r] /\ r.pc \in {"ok", "failed"}
  <2>1. \A pc \in {"ok", "failed"} : Ended(pc) \in StopSet /\ Ended(pc).pc = pc
    BY DEF Ended, StopSet
  <2>2. QED
    BY <2>1 DEF Finalize
<1>4. /\ stop' \in [Ids -> [Workers -> StopSet]]
      /\ stop'[i][w].pc \in {"ok", "failed"}
      /\ \A v \in Workers \ {w} : stop'[i][v] = stop[i][v]
      /\ \A j \in Ids \ {i} : stop'[j] = stop[j]
  BY <1>1, <1>3, OneWorker
<1>5. NoInst \in InstSet /\ NoInst.state = "none"
  BY ModelAssumption DEF NoInst, InstSet
<1>6. /\ inst' \in [Ids -> InstSet] /\ \A j \in Ids \ {i} : inst'[j] = inst[j]
      /\ \/ inst[i].state # "stopped" /\ inst'[i] = inst[i]
         \/ inst[i].state = "stopped" /\ inst'[i].state = "none"
  BY <1>1, <1>5, OneInst DEF Finalize, Forgotten, Types, HandTypes
<1>7. HandTypes' /\ HoldTypes' /\ leases' \subseteq leases
  BY <1>1, <1>2, <1>4, <1>6 DEF Finalize, Types, HandTypes, HoldTypes
<1>8. /\ \A j \in Ids \ {i} : \A a : <<j, a>> \in leases' <=> <<j, a>> \in leases
      /\ \A a : a # stop[i][w].attempt => (<<i, a>> \in leases' <=> <<i, a>> \in leases)
  BY <1>2
<1>9. Leased(i)'
  <2>1. Alive(i) => stop[i][w].attempt < inst[i].attempt
    BY <1>1, <1>2 DEF Own, Handed
  <2>2. start[i].pc \in Early => stop[i][w].attempt < start[i].attempt
    BY <1>1, <1>2 DEF Own, Handed
  <2>3. Alive(i) => inst[i].attempt # stop[i][w].attempt
    BY <1>1, <2>1, Attempts
  <2>4. start[i].pc \in Early => start[i].attempt # stop[i][w].attempt
    BY <1>1, <2>2, Attempts
  <2>5. QED
    BY <1>1, <1>2, <1>6, <1>8, <2>3, <2>4 DEF Own, Leased, Alive, Server, Early
<1>10. Handed(i)' /\ Dated(i)'
  BY <1>1, <1>2, <1>4, <1>6 DEF Own, Handed, Dated, Alive
<1>11. Used(i)'
  BY <1>1, <1>2, <1>6 DEF Own, Used, Past, Routed
<1>12. Joined(i)'
  <2>1. start[i].pc \in Early \ {"cancelled"} => w # CancelJob(i)
    BY <1>1, <1>2 DEF Own, Joined, Leased, Early, Placed, CancelJob
  <2>2. QED
    BY <1>1, <1>2, <1>4, <1>6, WorkerTypes, <2>1 DEF Own, Joined, CancelJob, Pending
<1>13. Tended(i)'
  BY <1>1, <1>2, <1>4, <1>6 DEF Own, Tended, Busy
<1>14. QED
  BY <1>1, <1>2, <1>4, <1>6, <1>7, <1>8, <1>9, <1>10, <1>11, <1>12, <1>13, OneStep
  DEF Own, Counted, Types, HandTypes
-------------------------------------------------------------------------------
(* Starting an instance. *)

\* The thread of a start goes to another place.
LEMMA OnePlace ==
    ASSUME Types, NEW i \in Ids, NEW pc, start' = [start EXCEPT ![i].pc = pc],
           pc \in {"none", "sent", "deferred", "queued", "submit", "attach", "await", "launch",
                   "verify", "undo", "ready", "rollback", "finally", "ok", "failed", "cancelled"}
    PROVE  /\ start' \in [Ids -> StartSet]
           /\ start'[i].pc = pc /\ start'[i].again = start[i].again
           /\ start'[i].attempt = start[i].attempt
           /\ \A j \in Ids \ {i} : start'[j] = start[j]
BY DEF Types, HandTypes, StartSet

\* The same, and whether the start is worth another attempt is noted.
LEMMA OneVerdict ==
    ASSUME Types, NEW i \in Ids, NEW pc \in {"undo", "finally"}, NEW again \in BOOLEAN,
           start' = [start EXCEPT ![i].pc = pc, ![i].again = again]
    PROVE  /\ start' \in [Ids -> StartSet]
           /\ start'[i].pc = pc /\ start'[i].again = again
           /\ start'[i].attempt = start[i].attempt
           /\ \A j \in Ids \ {i} : start'[j] = start[j]
BY DEF Types, HandTypes, StartSet

\* A worker is sent to look at an instance.
LEMMA OneCall ==
    ASSUME Types, NEW i \in Ids, NEW w \in Workers, stop' = [stop EXCEPT ![i][w].pc = "enter"]
    PROVE  /\ stop' \in [Ids -> [Workers -> StopSet]]
           /\ stop'[i][w].pc = "enter"
           /\ \A v \in Workers \ {w} : stop'[i][v] = stop[i][v]
           /\ \A j \in Ids \ {i} : stop'[j] = stop[j]
<1>1. stop \in [Ids -> [Workers -> StopSet]]
  BY DEF Types, HandTypes
<1>2. \A j \in Ids \ {i} : stop'[j] = stop[j]
  BY <1>1
<1>3. \A v \in Workers \ {w} : stop'[i][v] = stop[i][v]
  BY <1>1
<1>4. stop'[i][w] = [stop[i][w] EXCEPT !.pc = "enter"]
  BY <1>1
<1>5. stop'[i][w] \in StopSet /\ stop'[i][w].pc = "enter"
  BY <1>1, <1>4 DEF StopSet
<1>6. stop' \in [Ids -> [Workers -> StopSet]]
  BY <1>1, <1>5
<1>7. QED
  BY <1>2, <1>3, <1>5, <1>6

\* An instance is taken out of routing and put into the hands of whoever comes next.
LEMMA OneClaim ==
    ASSUME Types, NEW i \in Ids, inst' = [inst EXCEPT ![i].state = "stopping", ![i].claim = TRUE]
    PROVE  /\ inst' \in [Ids -> InstSet] /\ \A j \in Ids \ {i} : inst'[j] = inst[j]
           /\ inst'[i].attempt = inst[i].attempt /\ inst'[i].inflight = inst[i].inflight
           /\ inst'[i].state = "stopping" /\ inst'[i].claim
BY DEF Types, HandTypes, InstSet

\* Another generation of one instance.
LEMMA OneGen ==
    ASSUME Types, NEW i \in Ids, NEW g \in GenSet, gen' = [gen EXCEPT ![i] = g]
    PROVE  /\ gen' \in [Ids -> GenSet]
           /\ gen'[i] = g
           /\ \A j \in Ids \ {i} : gen'[j] = gen[j]
BY DEF Types, HandTypes

\* A start that has its lease goes on or gives up before it has an actor.
LEMMA PlacedStep ==
    ASSUME IInv, NEW i \in Ids, start[i].pc \in Placed, NEW pc \in Placed \cup {"rollback"},
           start' = [start EXCEPT ![i].pc = pc], gen' \in [Ids -> GenSet], Room',
           faults' \in 0..MaxFaults,
           UNCHANGED <<inst, auto, cancelled, proc, leases>>, UNCHANGED startVars
    PROVE  IInv'
<1>1. Types /\ Counted /\ Own(i)
  BY DEF IInv, Owns
<1>2. /\ start' \in [Ids -> StartSet]
      /\ start'[i].pc = pc /\ start'[i].again = start[i].again
      /\ start'[i].attempt = start[i].attempt
      /\ \A j \in Ids \ {i} : start'[j] = start[j]
  BY <1>1, OnePlace DEF Placed
<1>3. HandTypes' /\ HoldTypes'
  BY <1>1, <1>2 DEF Types, HandTypes, HoldTypes, startVars
<1>4. /\ inst[i].state = "none" /\ start[i].pc \in Early \ {"cancelled"} /\ ~start[i].again
      /\ start[i].pc \notin {"sent", "undo", "none"} /\ ~Past(i)
  BY <1>1 DEF Own, Leased, Used, Early, Placed, Past
<1>5. Leased(i)'
  BY <1>1, <1>2, <1>4 DEF Own, Leased, Alive, Server, Placed, startVars
<1>6. Handed(i)' /\ Dated(i)'
  BY <1>1, <1>2, <1>4 DEF Own, Handed, Dated, Alive, Early, Placed, startVars
<1>7. Used(i)'
  BY <1>1, <1>2, <1>4 DEF Own, Used, Routed, startVars
<1>8. Joined(i)'
  BY <1>1, <1>2, <1>4 DEF Own, Joined, CancelJob, Early, Placed, startVars
<1>9. Tended(i)'
  BY <1>1, <1>2, <1>4 DEF Own, Tended, startVars
<1>10. QED
  BY <1>1, <1>2, <1>3, <1>4, <1>5, <1>6, <1>7, <1>8, <1>9, OneStepWith
  DEF Own, Counted, startVars

\* A start takes a slot for an actor, or gives up.
LEMMA AdmitStep ==
    ASSUME IInv, NEW i \in Ids, Admit(i)
    PROVE  IInv'
<1>1. Types /\ Room /\ start[i].pc \in Placed
  BY DEF IInv, Admit, Placed
<1>2. faults' \in 0..MaxFaults
  BY <1>1 DEF Admit, Types, HoldTypes
<1>3. CASE start' = [start EXCEPT ![i].pc = "rollback"] /\ UNCHANGED gen
  <2>1. Room'
    BY <1>1, <1>3, RoomStays DEF Admit
  <2>2. QED
    BY <1>1, <1>2, <1>3, <2>1, PlacedStep DEF Admit, Types, HandTypes
<1>4. CASE /\ Cardinality(SlotIds) # Slots /\ start' = [start EXCEPT ![i].pc = "submit"]
           /\ gen' = [gen EXCEPT ![i] = [NoGen EXCEPT !.current = TRUE, !.slot = TRUE]]
  <2>1. [NoGen EXCEPT !.current = TRUE, !.slot = TRUE] \in GenSet
    BY DEF NoGen, GenSet
  <2>2. gen' \in [Ids -> GenSet] /\ \A j \in Ids \ {i} : gen'[j] = gen[j]
    BY <1>1, <1>4, <2>1, OneGen
  <2>3. SlotIds' \in SUBSET (SlotIds \cup {i})
    BY <2>2 DEF SlotIds
  <2>4. /\ IsFiniteSet(SlotIds) /\ Cardinality(SlotIds) \in Nat
        /\ IsFiniteSet(SlotIds \cup {i})
        /\ Cardinality(SlotIds \cup {i}) <= Cardinality(SlotIds) + 1
        /\ Cardinality(SlotIds \cup {i}) \in Nat
    <3>1. IsFiniteSet(SlotIds)
      BY Finite
    <3>2. /\ IsFiniteSet(SlotIds \cup {i})
          /\ \/ Cardinality(SlotIds \cup {i}) = Cardinality(SlotIds)
             \/ Cardinality(SlotIds \cup {i}) = Cardinality(SlotIds) + 1
      BY <3>1, FS_AddElement
    <3>3. Cardinality(SlotIds) \in Nat
      BY <3>1, FS_CardinalityType
    <3>4. QED
      BY <3>1, <3>2, <3>3
  <2>5. Cardinality(SlotIds') <= Cardinality(SlotIds \cup {i}) /\ Cardinality(SlotIds') \in Nat
    BY <2>3, <2>4, FS_Subset, FS_CardinalityType
  <2>6. Cardinality(SlotIds) <= Slots /\ Slots \in Nat
    BY <1>1, ModelAssumption DEF Room
  <2>7. Cardinality(SlotIds') <= Slots
    BY <1>4, <2>4, <2>5, <2>6
  <2>8. Room'
    BY <1>1, <2>7 DEF Room, Admit
  <2>9. QED
    BY <1>1, <1>2, <1>4, <2>2, <2>8, PlacedStep DEF Admit, Placed
<1>5. QED
  BY <1>3, <1>4 DEF Admit, To, SlotIds

\* The generation of a start that is given up keeps its slot or gives it back.
LEMMA InvalidatedGen ==
    ASSUME Types, NEW i \in Ids
    PROVE  Invalidated(i) \in GenSet /\ (Invalidated(i).slot => gen[i].slot)
BY DEF Types, HandTypes, GenSet, Invalidated, NoGen

\* The same for one whose actor has to be killed.
LEMMA SettledGen ==
    ASSUME NEW g \in GenSet
    PROVE  /\ KillLater(g) \in GenSet /\ KillLater(g).slot = g.slot
           /\ Settled(g) \in GenSet /\ (Settled(g).slot => g.slot)
BY DEF GenSet, KillLater, Settled, NoGen

\* The actor is asked for and awaited; it does not come, or nobody wants it any more.
LEMMA AwaitSteps ==
    ASSUME IInv, NEW i \in Ids,
           \/ SubmitCreation(i) \/ Attach(i) \/ AwaitTimeout(i)
           \/ AwaitOver(i) /\ UNCHANGED inst
    PROVE  IInv'
<1>1. Types /\ Room /\ gen[i] \in GenSet /\ NoGen \in GenSet /\ ~NoGen.slot
  BY DEF IInv, Types, HandTypes, NoGen, GenSet
<1>2. CASE SubmitCreation(i)
  <2>1. PICK g \in GenSet : gen' = [gen EXCEPT ![i] = g] /\ (g.slot => gen[i].slot)
    <3>1. [gen[i] EXCEPT !.creation = "queued"] \in GenSet
      BY <1>1 DEF GenSet
    <3>2. [gen[i] EXCEPT !.creation = "queued"].slot = gen[i].slot
      BY <1>1 DEF GenSet
    <3>3. \/ gen' = [gen EXCEPT ![i] = [gen[i] EXCEPT !.creation = "queued"]]
          \/ gen' = [gen EXCEPT ![i] = NoGen]
          \/ gen' = [gen EXCEPT ![i] = gen[i]]
      BY <1>1, <1>2 DEF SubmitCreation, Types, HandTypes
    <3>4. QED
      BY <1>1, <3>1, <3>2, <3>3
  <2>2. Room' /\ gen' \in [Ids -> GenSet]
    BY <1>1, <1>2, <2>1, OneGen, RoomStays DEF SubmitCreation
  <2>3. faults' \in 0..MaxFaults
    BY <1>1, <1>2, FaultType DEF SubmitCreation
  <2>4. QED
    BY <1>2, <2>2, <2>3, PlacedStep DEF SubmitCreation, To, Placed
<1>3. CASE Attach(i)
  <2>1. PICK g \in GenSet : gen' = [gen EXCEPT ![i] = g] /\ (g.slot => gen[i].slot)
    <3> DEFINE g == IF ~gen[i].current /\ gen[i].creation = "queued"
                    THEN NoGen ELSE [gen[i] EXCEPT !.future = TRUE]
    <3>1. g \in GenSet /\ (g.slot => gen[i].slot)
      BY <1>1 DEF GenSet
    <3>2. gen' = [gen EXCEPT ![i] = g]
      BY <1>1, <1>3 DEF Attach, Types, HandTypes
    <3>3. QED
      BY <3>1, <3>2
  <2>2. Room' /\ gen' \in [Ids -> GenSet]
    BY <1>1, <1>3, <2>1, OneGen, RoomStays DEF Attach
  <2>3. QED
    BY <1>1, <1>3, <2>2, PlacedStep DEF Attach, To, Placed, Types, HoldTypes
<1>4. CASE AwaitTimeout(i)
  <2>1. PICK g \in GenSet : gen' = [gen EXCEPT ![i] = g] /\ (g.slot => gen[i].slot)
    <3>1. PICK g \in GenSet : g = Invalidated(i) /\ (g.slot => gen[i].slot)
      BY <1>1, InvalidatedGen
    <3>2. \/ gen' = [gen EXCEPT ![i] = KillLater(g)]
          \/ gen' = [gen EXCEPT ![i] = g]
      BY <1>4, <3>1 DEF AwaitTimeout
    <3>3. KillLater(g) \in GenSet /\ KillLater(g).slot = g.slot
      BY SettledGen
    <3>4. QED
      BY <3>1, <3>2, <3>3
  <2>2. Room' /\ gen' \in [Ids -> GenSet]
    BY <1>1, <1>4, <2>1, OneGen, RoomStays DEF AwaitTimeout
  <2>3. faults' \in 0..MaxFaults
    BY <1>1, <1>4, FaultType DEF AwaitTimeout
  <2>4. QED
    BY <1>4, <2>2, <2>3, PlacedStep DEF AwaitTimeout, To, Placed
<1>5. CASE AwaitOver(i) /\ UNCHANGED inst
  <2>1. start[i].pc = "await" /\ inst[i].state = "none"
    BY <1>5 DEF AwaitOver, IInv, Owns, Own, Leased, Early, Placed
  <2>2. start' = [start EXCEPT ![i].pc = "rollback"]
    <3>1. [NoInst EXCEPT !.state = "launching", !.attempt = start[i].attempt].state # "none"
      BY DEF NoInst
    <3>2. inst' # [inst EXCEPT ![i] = [NoInst EXCEPT !.state = "launching",
                                                     !.attempt = start[i].attempt]]
      BY <1>1, <1>5, <2>1, <3>1 DEF Types, HandTypes
    <3>3. QED
      BY <1>5, <3>2 DEF AwaitOver, To
  <2>3. PICK g \in GenSet : gen' = [gen EXCEPT ![i] = g] /\ (g.slot => gen[i].slot)
    <3> DEFINE h == [gen[i] EXCEPT !.current = FALSE]
    <3>1. h \in GenSet /\ h.slot = gen[i].slot
      BY <1>1 DEF GenSet
    <3>2. \/ gen' = [gen EXCEPT ![i] = NoGen]
          \/ gen' = [gen EXCEPT ![i] = Settled(KillLater(h))]
          \/ gen' = [gen EXCEPT ![i] = gen[i]]
      BY <1>5 DEF AwaitOver
    <3> HIDE DEF h
    <3>3. QED
      BY <1>1, <3>1, <3>2, SettledGen
  <2>4. Room' /\ gen' \in [Ids -> GenSet]
    BY <1>1, <1>5, <2>3, OneGen, RoomStays DEF AwaitOver
  <2>5. QED
    BY <1>1, <1>5, <2>1, <2>2, <2>4, PlacedStep DEF AwaitOver, Placed, Types, HoldTypes
<1>6. QED
  BY <1>2, <1>3, <1>4, <1>5

\* The entry of an actor in the registry.
LEMMA NewEntry ==
    ASSUME NEW a \in 1..2
    PROVE  LET r == [NoInst EXCEPT !.state = "launching", !.attempt = a]
           IN  r \in InstSet /\ r.state = "launching" /\ r.attempt = a /\ r.inflight = 0
<1>1. MaxRequests \in Nat
  BY ModelAssumption
<1>2. 0 \in 0..MaxRequests /\ a \in 0..2
  BY <1>1
<1>3. QED
  BY <1>2 DEF NoInst, InstSet

\* The actor that came in time is registered: the attempt that was placed is the
\* one of the new entry, and whoever still finalizes an earlier one leaves it alone.
LEMMA RegisterStep ==
    ASSUME IInv, NEW i \in Ids, AwaitOver(i)
    PROVE  IInv'
<1> DEFINE r == [NoInst EXCEPT !.state = "launching", !.attempt = start[i].attempt]
<1>1. /\ Types /\ Room /\ Counted /\ Own(i) /\ start[i].attempt \in 1..2
      /\ start[i].pc = "await" /\ gen[i] \in GenSet /\ NoGen \in GenSet /\ ~NoGen.slot
  BY Attempts DEF IInv, Owns, AwaitOver, Types, HandTypes, NoGen, GenSet
<1>2. /\ inst[i].state = "none" /\ ~start[i].again /\ ~Past(i) /\ upkeep[i] # "idle"
      /\ Routed(i) = {} /\ <<i, start[i].attempt>> \in leases
  BY <1>1 DEF Own, Leased, Used, Past, Early, Placed
<1>3. CASE UNCHANGED inst
  BY <1>3, AwaitSteps
<1>4. CASE /\ inst' = [inst EXCEPT ![i] = r] /\ start' = [start EXCEPT ![i].pc = "launch"]
           /\ gen' = [gen EXCEPT ![i] = NoGen]
  <2>1. /\ r \in InstSet /\ r.state = "launching" /\ r.attempt = start[i].attempt
        /\ r.inflight = 0
    BY <1>1, NewEntry
  <2> HIDE DEF r
  <2>2. /\ inst' \in [Ids -> InstSet] /\ inst'[i] = r /\ \A j \in Ids \ {i} : inst'[j] = inst[j]
    BY <1>1, <1>4, <2>1, OneInst
  <2>3. /\ start' \in [Ids -> StartSet]
        /\ start'[i].pc = "launch" /\ start'[i].again = start[i].again
        /\ start'[i].attempt = start[i].attempt
        /\ \A j \in Ids \ {i} : start'[j] = start[j]
    BY <1>1, <1>4, OnePlace
  <2>4. gen' \in [Ids -> GenSet] /\ \A j \in Ids : gen'[j].slot => gen[j].slot
    BY <1>1, <1>4, OneGen
  <2>5. HandTypes' /\ HoldTypes'
    BY <1>1, <2>2, <2>3, <2>4 DEF AwaitOver, startVars, Types, HandTypes, HoldTypes
  <2>6. Leased(i)'
    BY <1>1, <1>2, <2>1, <2>2, <2>3 DEF AwaitOver, startVars, Own, Leased, Alive, Early, Placed
  <2>7. Handed(i)' /\ Dated(i)'
    BY <1>1, <1>2, <2>1, <2>2, <2>3
    DEF AwaitOver, startVars, Own, Handed, Dated, Alive, Early, Placed
  <2>8. Used(i)'
    BY <1>1, <1>2, <2>1, <2>2, <2>3 DEF AwaitOver, startVars, Own, Used, Routed
  <2>9. Joined(i)'
    BY <1>1, <1>2, <2>1, <2>2, <2>3 DEF AwaitOver, startVars, Own, Joined, CancelJob, Early, Placed
  <2>10. Tended(i)'
    BY <2>1, <2>2, <2>3 DEF Tended
  <2>11. Cardinality(Routed(i)) = 0
    BY <1>2, FS_EmptySet
  <2>12. QED
    BY <1>1, <2>1, <2>2, <2>3, <2>4, <2>5, <2>6, <2>7, <2>8, <2>9, <2>10, <2>11, OneStep
    DEF AwaitOver, startVars, Own
<1>5. QED
  BY <1>3, <1>4 DEF AwaitOver, To

\* A start that failed with its actor registered is undone by its own thread,
\* which claims the instance if the start was cancelled.
LEMMA UndoStep ==
    ASSUME IInv, NEW i \in Ids, start[i].pc \in {"launch", "verify", "ready"},
           NEW again \in BOOLEAN, again => start[i].pc # "ready",
           start' = [start EXCEPT ![i].pc = "undo", ![i].again = again], Undo(i),
           \/ inst' = inst
           \/ /\ inst[i].state \in {"launching", "ready"}
              /\ inst' = [inst EXCEPT ![i].state = "stopping", ![i].claim = TRUE],
           NEW p, proc' = [proc EXCEPT ![i] = p],
           p \in {"none", "actor", "server", "exited", "left"},
           p = proc[i] \/ inst[i].state = "launching",
           gen' \in [Ids -> GenSet], \A j \in Ids : gen'[j].slot => gen[j].slot,
           cancelled' \subseteq Ids, faults' \in 0..MaxFaults,
           UNCHANGED <<task, demand, limit, asks, upkeep, msgs, found, calls, auto, leases>>
    PROVE  IInv'
<1>1. Types /\ Counted /\ Own(i) /\ inst[i] \in InstSet /\ stop[i]["start"] \in StopSet
  BY Attempts, WorkerTypes DEF IInv, Owns
<1>2. /\ stop[i]["start"].pc = "idle" /\ start[i].pc # "sent"
      /\ start[i].pc # "ready" => ~Past(i)
  BY <1>1 DEF Own, Joined, Past
<1>3. /\ start' \in [Ids -> StartSet]
      /\ start'[i].pc = "undo" /\ start'[i].again = again
      /\ start'[i].attempt = start[i].attempt
      /\ \A j \in Ids \ {i} : start'[j] = start[j]
  BY <1>1, OneVerdict
<1>4. /\ stop' \in [Ids -> [Workers -> StopSet]]
      /\ stop'[i]["start"].pc = "enter"
      /\ \A v \in Workers \ {"start"} : stop'[i][v] = stop[i][v]
      /\ \A j \in Ids \ {i} : stop'[j] = stop[j]
  BY <1>1, OneCall, WorkerTypes DEF Undo
<1>5. /\ inst' \in [Ids -> InstSet] /\ \A j \in Ids \ {i} : inst'[j] = inst[j]
      /\ inst'[i].attempt = inst[i].attempt /\ inst'[i].inflight = inst[i].inflight
      /\ \/ inst'[i] = inst[i]
         \/ /\ inst[i].state \in {"launching", "ready"}
            /\ inst'[i].state = "stopping" /\ inst'[i].claim
  <2>1. CASE inst' = inst
    BY <1>1, <2>1 DEF Types, HandTypes
  <2>2. CASE /\ inst[i].state \in {"launching", "ready"}
             /\ inst' = [inst EXCEPT ![i].state = "stopping", ![i].claim = TRUE]
    BY <1>1, <2>2, OneClaim
  <2>3. QED
    BY <2>1, <2>2
<1>6. /\ proc' \in [Ids -> {"none", "actor", "server", "exited", "left"}] /\ proc'[i] = p
      /\ \A j \in Ids \ {i} : proc'[j] = proc[j]
  BY <1>1 DEF Types, HoldTypes
<1>7. HandTypes' /\ HoldTypes'
  BY <1>1, <1>3, <1>4, <1>5, <1>6 DEF Types, HandTypes, HoldTypes
<1>8. Leased(i)'
  BY <1>1, <1>3, <1>5, <1>6 DEF Own, Leased, Alive, Server, Early, Placed
<1>9. Handed(i)' /\ Dated(i)'
  <2>1. ASSUME NEW v \in Workers, stop'[i][v].pc \in {"owner", "finalize", "wait"}
        PROVE  stop'[i][v] = stop[i][v]
    BY <1>4, <2>1
  <2>2. Handed(i)'
    BY <1>1, <1>3, <1>5, <2>1 DEF Own, Handed, Alive, Early, Placed
  <2>3. Dated(i)'
    BY <1>1, <1>3, <1>5, <2>1 DEF Own, Dated
  <2>4. QED
    BY <2>2, <2>3
<1>10. Used(i)'
  BY <1>1, <1>2, <1>3, <1>5 DEF Own, Used, Past, Routed, Early, Placed
<1>11. Joined(i)'
  BY <1>1, <1>2, <1>3, <1>4, <1>5, WorkerTypes DEF Own, Joined, CancelJob, Pending, Early, Placed
<1>12. Tended(i)'
  <2>1. Busy(i, {"enter"})'
    BY <1>4, WorkerTypes DEF Busy
  <2>2. Busy(i, {"owner"}) => Busy(i, {"owner"})'
    BY <1>2, <1>4 DEF Busy
  <2>3. QED
    BY <1>1, <1>2, <1>3, <1>5, <2>1, <2>2 DEF Own, Tended
<1>13. QED
  BY <1>1, <1>2, <1>3, <1>4, <1>5, <1>6, <1>7, <1>8, <1>9, <1>10, <1>11, <1>12, OneStep
  DEF Own, Counted

\* The server is launched.
LEMMA LaunchStep ==
    ASSUME IInv, NEW i \in Ids, Launch(i)
    PROVE  IInv'
<1>1. /\ Types /\ Counted /\ Own(i) /\ start[i].pc = "launch" /\ ~start[i].again /\ ~Past(i)
      /\ UNCHANGED <<inst, auto>> /\ UNCHANGED launchVars
      /\ faults' \in 0..MaxFaults
  BY FaultType DEF IInv, Owns, Own, Used, Past, Launch
<1>2. CASE /\ inst[i].state = "launching" /\ proc' = [proc EXCEPT ![i] = "server"]
           /\ start' = [start EXCEPT ![i].pc = "verify"] /\ UNCHANGED stop
  <2>1. /\ start' \in [Ids -> StartSet]
        /\ start'[i].pc = "verify" /\ start'[i].again = start[i].again
        /\ start'[i].attempt = start[i].attempt
        /\ \A j \in Ids \ {i} : start'[j] = start[j]
    BY <1>1, <1>2, OnePlace
  <2>2. /\ proc' \in [Ids -> {"none", "actor", "server", "exited", "left"}]
        /\ \A j \in Ids \ {i} : proc'[j] = proc[j]
    BY <1>1, <1>2 DEF Types, HoldTypes
  <2>3. HandTypes' /\ HoldTypes'
    BY <1>1, <1>2, <2>1, <2>2 DEF launchVars, Types, HandTypes, HoldTypes
  <2>4. Leased(i)' /\ Handed(i)' /\ Dated(i)'
    BY <1>1, <1>2, <2>1 DEF launchVars, Own, Leased, Handed, Dated, Alive, Early, Placed
  <2>5. Used(i)' /\ Joined(i)' /\ Tended(i)'
    BY <1>1, <1>2, <2>1
    DEF launchVars, Own, Used, Joined, Tended, Routed, CancelJob, Pending, Busy, Early, Placed
  <2>6. QED
    BY <1>1, <1>2, <2>1, <2>2, <2>3, <2>4, <2>5, OneStep DEF launchVars, Own, Counted
<1>3. ASSUME NEW p \in {"exited", "server"}, inst[i].state = "launching",
             proc' = [proc EXCEPT ![i] = p], Undo(i),
             start' = [start EXCEPT ![i].pc = "undo", ![i].again = (p = "exited")]
      PROVE  IInv'
  <2>1. PICK b \in BOOLEAN : b = (p = "exited")
    OBVIOUS
  <2>2. start' = [start EXCEPT ![i].pc = "undo", ![i].again = b]
    BY <1>3, <2>1
  <2>3. p \in {"none", "actor", "server", "exited", "left"}
    OBVIOUS
  <2>4. QED
    BY <1>1, <1>3, <2>2, <2>3, UndoStep DEF launchVars, Types, HandTypes, HoldTypes
<1>4. CASE UNCHANGED proc /\ start' = [start EXCEPT ![i].pc = "undo"] /\ Undo(i)
  <2>1. start' = [start EXCEPT ![i].pc = "undo", ![i].again = FALSE]
    BY <1>1, <1>4 DEF Types, HandTypes, StartSet
  <2>2. PICK p \in {"none", "actor", "server", "exited", "left"} : p = proc[i]
    BY <1>1 DEF Types, HoldTypes
  <2>3. proc' = [proc EXCEPT ![i] = p]
    BY <1>1, <1>4, <2>2 DEF Types, HoldTypes
  <2>4. QED
    BY <1>1, <1>4, <2>1, <2>2, <2>3, UndoStep DEF launchVars, Types, HandTypes, HoldTypes
<1>5. QED
  BY <1>2, <1>3, <1>4 DEF Launch, To

\* The server answers: the instance can be used, and whoever stops it from now on
\* looks at it first.
LEMMA VerifyStep ==
    ASSUME IInv, NEW i \in Ids, Verify(i)
    PROVE  IInv'
<1>1. /\ Types /\ Counted /\ Own(i) /\ start[i].pc = "verify" /\ ~start[i].again /\ ~Past(i)
      /\ UNCHANGED <<proc, faults>> /\ UNCHANGED launchVars /\ inst[i] \in InstSet
  BY Attempts DEF IInv, Owns, Own, Used, Past, Verify
<1>2. CASE /\ inst[i].state = "launching" /\ stop[i]["shared"].pc \in {"idle", "enter"}
           /\ inst' = [inst EXCEPT ![i].state = "ready"]
           /\ auto' = auto \ {i} /\ start' = [start EXCEPT ![i].pc = "ready"] /\ UNCHANGED stop
  <2>1. /\ start' \in [Ids -> StartSet]
        /\ start'[i].pc = "ready" /\ start'[i].again = start[i].again
        /\ start'[i].attempt = start[i].attempt
        /\ \A j \in Ids \ {i} : start'[j] = start[j]
    BY <1>1, <1>2, OnePlace
  <2>2. /\ inst' \in [Ids -> InstSet] /\ \A j \in Ids \ {i} : inst'[j] = inst[j]
        /\ inst'[i].state = "ready"
        /\ inst'[i].attempt = inst[i].attempt /\ inst'[i].inflight = inst[i].inflight
    BY <1>1, <1>2 DEF Types, HandTypes, InstSet
  <2>3. HandTypes' /\ HoldTypes'
    BY <1>1, <1>2, <2>1, <2>2 DEF launchVars, Types, HandTypes, HoldTypes
  <2>4. Leased(i)'
    BY <1>1, <1>2, <2>1, <2>2 DEF launchVars, Own, Leased, Alive, Server, Early, Placed
  <2>5. Handed(i)' /\ Dated(i)'
    BY <1>1, <1>2, <2>1, <2>2 DEF launchVars, Own, Handed, Dated, Alive, Early, Placed
  <2>6. Used(i)'
    BY <1>1, <1>2, <2>1, <2>2 DEF launchVars, Own, Used, Past, Routed, Early, Placed
  <2>7. Joined(i)' /\ Tended(i)'
    BY <1>1, <1>2, <2>1, <2>2 DEF launchVars, Own, Joined, Tended, CancelJob, Pending, Early, Placed
  <2>8. QED
    BY <1>1, <1>2, <2>1, <2>2, <2>3, <2>4, <2>5, <2>6, <2>7, OneStep DEF launchVars, Own, Counted
<1>3. CASE start' = [start EXCEPT ![i].pc = "undo"] /\ Undo(i) /\ UNCHANGED <<inst, auto>>
  <2>1. start' = [start EXCEPT ![i].pc = "undo", ![i].again = FALSE]
    BY <1>1, <1>3 DEF Types, HandTypes, StartSet
  <2>2. PICK p \in {"none", "actor", "server", "exited", "left"} : p = proc[i]
    BY <1>1 DEF Types, HoldTypes
  <2>3. proc' = [proc EXCEPT ![i] = p]
    BY <1>1, <2>2 DEF Types, HoldTypes
  <2>4. QED
    BY <1>1, <1>3, <2>1, <2>2, <2>3, UndoStep DEF launchVars, Types, HandTypes, HoldTypes
<1>4. QED
  BY <1>2, <1>3 DEF Verify, To

\* The thread of a start has less and less to do with the instance.
LEMMA LeaveStep ==
    ASSUME IInv, NEW i \in Ids,
           start[i].pc \in {"ready", "rollback", "finally"}, NEW pc \in {"ok", "rollback", "failed"},
           pc = "rollback" => start[i].pc = "ready" /\ inst[i].state = "none",
           pc = "failed" => start[i].pc = "finally",
           pc = "ok" => start[i].pc = "ready",
           start' = [start EXCEPT ![i].pc = pc], cancelled' \subseteq Ids,
           UNCHANGED <<task, demand, limit, inst, auto, gen, proc, leases, stop, asks, upkeep, msgs,
                       found, faults, calls>>
    PROVE  IInv'
<1>1. Types /\ Counted /\ Own(i)
  BY DEF IInv, Owns
<1>2. /\ start' \in [Ids -> StartSet]
      /\ start'[i].pc = pc /\ start'[i].again = start[i].again
      /\ start'[i].attempt = start[i].attempt
      /\ \A j \in Ids \ {i} : start'[j] = start[j]
  BY <1>1, OnePlace
<1>3. HandTypes' /\ HoldTypes'
  BY <1>1, <1>2 DEF Types, HandTypes, HoldTypes
<1>4. Leased(i)'
  BY <1>1, <1>2 DEF Own, Leased, Used, Alive, Server, Early, Placed
<1>5. Handed(i)' /\ Dated(i)'
  BY <1>1, <1>2 DEF Own, Handed, Dated, Alive, Early, Placed
<1>6. Used(i)'
  BY <1>1, <1>2 DEF Own, Used, Past, Routed, Early, Placed
<1>7. Joined(i)' /\ Tended(i)'
  BY <1>1, <1>2 DEF Own, Joined, Tended, CancelJob, Pending, Busy, Early, Placed
<1>8. QED
  BY <1>1, <1>2, <1>3, <1>4, <1>5, <1>6, <1>7, OneStep DEF Own, Counted

\* The start was a success, or the instance is gone, or it is withdrawn.
LEMMA WithdrawStep ==
    ASSUME IInv, NEW i \in Ids, Withdraw(i)
    PROVE  IInv'
<1>1. /\ Types /\ start[i].pc = "ready" /\ start[i].again = FALSE /\ gen[i] \in GenSet
      /\ UNCHANGED <<task, demand, limit, asks, upkeep, msgs, found, calls, auto, proc, leases, faults>>
      /\ cancelled \subseteq Ids /\ faults' \in 0..MaxFaults
  BY DEF IInv, Types, HandTypes, HoldTypes, StartSet, Owns, Own, Used, Withdraw
<1>2. CASE /\ start' = [start EXCEPT ![i].pc = "ok"] /\ cancelled' = cancelled \ {i}
           /\ UNCHANGED <<gen, inst, stop>>
  BY <1>1, <1>2, LeaveStep
<1>3. CASE /\ inst[i].state = "none" /\ start' = [start EXCEPT ![i].pc = "rollback"]
           /\ UNCHANGED <<cancelled, gen, inst, stop>>
  BY <1>1, <1>3, LeaveStep
<1>4. CASE CancelStart(i) /\ start' = [start EXCEPT ![i].pc = "undo"] /\ Undo(i)
  <2>1. start' = [start EXCEPT ![i].pc = "undo", ![i].again = FALSE]
    BY <1>1, <1>4 DEF Types, HandTypes, StartSet
  <2>2. PICK p \in {"none", "actor", "server", "exited", "left"} : p = proc[i]
    BY <1>1 DEF Types, HoldTypes
  <2>3. proc' = [proc EXCEPT ![i] = p]
    BY <1>1, <2>2 DEF Types, HoldTypes
  <2>4. gen' \in [Ids -> GenSet] /\ \A j \in Ids : gen'[j].slot => gen[j].slot
    <3>1. PICK g \in GenSet : g = Invalidated(i) /\ (g.slot => gen[i].slot)
      BY <1>1, InvalidatedGen
    <3>2. gen' = [gen EXCEPT ![i] = g]
      BY <1>4, <3>1 DEF CancelStart
    <3>3. QED
      BY <1>1, <3>1, <3>2, OneGen
  <2>5. /\ cancelled' \subseteq Ids
        /\ \/ inst' = inst
           \/ /\ inst[i].state \in {"launching", "ready"}
              /\ inst' = [inst EXCEPT ![i].state = "stopping", ![i].claim = TRUE]
    BY <1>1, <1>4 DEF CancelStart
  <2>6. QED
    BY <1>1, <1>4, <2>1, <2>2, <2>3, <2>4, <2>5, UndoStep
<1>5. QED
  BY <1>2, <1>3, <1>4 DEF Withdraw, To

\* The thread of the start has stopped the instance, or could not.
LEMMA UndoneStep ==
    ASSUME IInv, NEW i \in Ids, Undone(i)
    PROVE  IInv'
<1>1. /\ Types /\ Counted /\ Own(i) /\ start[i].pc = "undo"
      /\ stop[i]["start"].pc \in {"ok", "failed"}
      /\ UNCHANGED <<task, demand, limit, asks, upkeep, msgs, found, calls, inst, auto, cancelled,
                     gen, proc, leases, faults>>
  BY DEF IInv, Owns, Undone, Over
<1>2. /\ start' \in [Ids -> StartSet]
      /\ start'[i].pc = "rollback" /\ start'[i].again = start[i].again
      /\ start'[i].attempt = start[i].attempt
      /\ \A j \in Ids \ {i} : start'[j] = start[j]
  BY <1>1, OnePlace DEF Undone, To
<1>3. /\ stop' \in [Ids -> [Workers -> StopSet]]
      /\ stop'[i]["start"].pc = "idle"
      /\ \A v \in Workers \ {"start"} : stop'[i][v] = stop[i][v]
      /\ \A j \in Ids \ {i} : stop'[j] = stop[j]
  <2>1. NoStop \in StopSet /\ NoStop.pc = "idle"
    BY DEF NoStop, StopSet
  <2>2. stop' = [stop EXCEPT ![i]["start"] = NoStop]
    BY DEF Undone
  <2>3. QED
    BY <1>1, <2>1, <2>2, OneWorker, WorkerTypes
<1>4. HandTypes' /\ HoldTypes'
  BY <1>1, <1>2, <1>3 DEF Types, HandTypes, HoldTypes
<1>5. Leased(i)'
  BY <1>1, <1>2 DEF Own, Leased, Alive, Server, Early, Placed
<1>6. Handed(i)' /\ Dated(i)'
  BY <1>1, <1>2, <1>3 DEF Own, Handed, Dated, Alive, Early, Placed
<1>7. Used(i)'
  BY <1>1, <1>2 DEF Own, Used, Past, Routed, Early, Placed
<1>8. Joined(i)'
  BY <1>1, <1>2, <1>3, WorkerTypes DEF Own, Joined, CancelJob, Pending, Early, Placed
<1>9. Tended(i)'
  BY <1>1, <1>2, <1>3 DEF Own, Joined, Tended, Busy
<1>10. QED
  BY <1>1, <1>2, <1>3, <1>4, <1>5, <1>6, <1>7, <1>8, <1>9, OneStep DEF Own, Counted

\* The lease goes back of what is gone, and whether the start is tried again is
\* decided.
LEMMA RollbackStep ==
    ASSUME IInv, NEW i \in Ids, Rollback(i)
    PROVE  IInv'
<1>1. /\ Types /\ Counted /\ Own(i) /\ start[i].pc = "rollback"
      /\ UNCHANGED <<gen, proc, faults>> /\ UNCHANGED startVars
      /\ NoInst \in InstSet /\ NoInst.state = "none"
  BY ModelAssumption DEF IInv, Owns, Rollback, NoInst, InstSet
<1>2. PICK again \in BOOLEAN : again = (start[i].again /\ Retryable(i))
  BY <1>1 DEF Types, HandTypes, StartSet
<1>3. /\ start' \in [Ids -> StartSet]
      /\ start'[i].pc = "finally" /\ start'[i].again = again
      /\ start'[i].attempt = start[i].attempt
      /\ \A j \in Ids \ {i} : start'[j] = start[j]
  <2>1. start' = [start EXCEPT ![i].pc = "finally", ![i].again = again]
    BY <1>1, <1>2 DEF Rollback, Types, HandTypes, StartSet
  <2>2. QED
    BY <1>1, <2>1, OneVerdict
<1>4. /\ inst' \in [Ids -> InstSet] /\ \A j \in Ids \ {i} : inst'[j] = inst[j]
      /\ \/ Alive(i) /\ inst'[i] = inst[i]
         \/ ~Alive(i) /\ inst'[i].state = "none"
  BY <1>1, OneInst DEF Rollback, Forgotten, Types, HandTypes, Alive
<1>5. /\ auto' \subseteq auto /\ cancelled' \subseteq cancelled /\ leases' \subseteq leases
      /\ Alive(i) => leases' = leases
      /\ \A j \in Ids \ {i} : \A a : <<j, a>> \in leases' <=> <<j, a>> \in leases
  BY DEF Rollback, RolledBack, Undeployed, Alive
<1>6. HandTypes' /\ HoldTypes'
  BY <1>1, <1>3, <1>4, <1>5 DEF startVars, Types, HandTypes, HoldTypes
<1>7. Leased(i)'
  BY <1>1, <1>2, <1>3, <1>4, <1>5
  DEF startVars, Own, Leased, Alive, Server, Early, Placed, Retryable, RolledBack
<1>8. Handed(i)' /\ Dated(i)'
  BY <1>1, <1>3, <1>4 DEF startVars, Own, Handed, Dated, Alive, Early, Placed
<1>9. Used(i)'
  BY <1>1, <1>2, <1>3, <1>4 DEF startVars, Own, Used, Past, Routed, Early, Placed, Alive
<1>10. Joined(i)' /\ Tended(i)'
  BY <1>1, <1>3, <1>4
  DEF startVars, Own, Joined, Tended, CancelJob, Pending, Busy, Early, Placed, Alive
<1>11. QED
  BY <1>1, <1>3, <1>4, <1>5, <1>6, <1>7, <1>8, <1>9, <1>10, OneStep DEF startVars, Own, Counted

\* The thread of a start ends.
LEMMA StartSteps ==
    ASSUME IInv, NEW i \in Ids, StartStep(i)
    PROVE  IInv'
<1>1. CASE Finally(i)
  <2>1. /\ start[i].pc = "finally" /\ cancelled' \subseteq Ids
        /\ UNCHANGED <<task, demand, limit, inst, auto, gen, proc, leases, stop, asks, upkeep, msgs,
                       found, faults, calls>>
    BY <1>1 DEF Finally, startVars, IInv, Types, HoldTypes
  <2>2. start' = [start EXCEPT ![i].pc = "failed"]
    BY <1>1 DEF Finally, To
  <2>3. QED
    BY <2>1, <2>2, LeaveStep
<1>2. QED
  BY <1>1, AdmitStep, AwaitSteps, RegisterStep, LaunchStep, VerifyStep, WithdrawStep, UndoneStep,
     RollbackStep DEF StartStep

\* The threads that stop an instance.
LEMMA StopSteps ==
    ASSUME IInv, NEW i \in Ids, StopStep(i)
    PROVE  IInv'
BY EnterStep, OwnerStep, WaitOverStep, FinalizeStep DEF StopStep
-------------------------------------------------------------------------------
(* The LLM thread. *)

\* A step about one instance and its messages, in which routes stay.
LEMMA WideStep ==
    ASSUME IInv, NEW i \in Ids, TaskTypes', HandTypes', HoldTypes', Room', Sited', Mail',
           \A j \in Ids : Routed(j)' = Routed(j),
           \A j \in Ids \ {i} :
              /\ inst'[j] = inst[j] /\ start'[j] = start[j] /\ stop'[j] = stop[j]
              /\ upkeep'[j] = upkeep[j] /\ proc'[j] = proc[j]
              /\ j \in found => j \in found'
              /\ \A a : <<j, a>> \in leases' <=> <<j, a>> \in leases,
           inst'[i].state # "none" => inst'[i].inflight = Cardinality(Routed(i)),
           Own(i)'
    PROVE  IInv'
<1>1. Types'
  BY DEF Types
<1>2. Counted'
  BY DEF IInv, Counted
<1>3. \A j \in Ids \ {i} : Still(j)
  BY DEF Still, Server
<1>4. QED
  BY <1>1, <1>2, <1>3, OwnsStep DEF IInv

\* The message at the head is taken.
LEMMA TailMail ==
    ASSUME Mail, msgs # <<>>, msgs' = Tail(msgs),
           \A i \in Ids : start[i].pc = "sent" /\ Head(msgs) # Message("start", i) => start'[i].pc = "sent"
    PROVE  Mail'
<1>1. msgs \in Seq(MsgSet)
  BY DEF Mail
<1>2. /\ msgs' \in Seq(MsgSet) /\ Len(msgs) \in Nat \ {0} /\ Len(msgs') = Len(msgs) - 1
      /\ Head(msgs) = msgs[1]
      /\ \A k \in 1..Len(msgs') : k + 1 \in 1..Len(msgs) /\ msgs'[k] = msgs[k + 1]
  BY <1>1
<1>3. ASSUME NEW k \in 1..Len(msgs'), msgs'[k].type = "start"
      PROVE  start'[msgs'[k].id].pc = "sent"
  <2>1. k + 1 \in 1..Len(msgs) /\ 1 \in 1..Len(msgs) /\ k + 1 # 1 /\ msgs'[k] = msgs[k + 1]
    BY <1>2
  <2>2. msgs[k + 1] \in MsgSet
    BY <1>1, <2>1
  <2>3. /\ msgs[k + 1].id \in Ids /\ start[msgs[k + 1].id].pc = "sent"
        /\ msgs[k + 1] = Message("start", msgs[k + 1].id)
    BY <1>3, <2>1, <2>2 DEF Mail, MsgSet, Message
  <2>4. msgs[1] # msgs[k + 1]
    BY <1>3, <2>1 DEF Mail
  <2>5. QED
    BY <1>2, <2>1, <2>3, <2>4
<1>4. ASSUME NEW k \in 1..Len(msgs'), NEW l \in 1..Len(msgs'), msgs'[k].type = "start",
             msgs'[l] = msgs'[k]
      PROVE  k = l
  <2>1. /\ k + 1 \in 1..Len(msgs) /\ l + 1 \in 1..Len(msgs)
        /\ msgs[k + 1].type = "start" /\ msgs[l + 1] = msgs[k + 1]
    BY <1>2, <1>4
  <2>2. k + 1 = l + 1
    BY <2>1 DEF Mail
  <2>3. QED
    BY <1>2, <2>2
<1>5. QED
  BY <1>2, <1>3, <1>4 DEF Mail

\* What the message at the head is about.
LEMMA HeadMail ==
    ASSUME Mail, msgs # <<>>
    PROVE  /\ Head(msgs) \in MsgSet /\ Head(msgs).id \in Ids
           /\ Head(msgs).type = "start" => start[Head(msgs).id].pc = "sent"
<1>1. msgs \in Seq(MsgSet)
  BY DEF Mail
<1>2. Head(msgs) = msgs[1] /\ 1 \in 1..Len(msgs) /\ msgs[1] \in MsgSet
  BY <1>1
<1>3. QED
  BY <1>2 DEF Mail, MsgSet

\* A start is announced.
LEMMA AppendMail ==
    ASSUME Mail, NEW i \in Ids, start[i].pc # "sent", start'[i].pc = "sent",
           \A j \in Ids \ {i} : start'[j] = start[j],
           msgs' = Append(msgs, Message("start", i))
    PROVE  Mail'
<1> DEFINE m == Message("start", i)
           n == Len(msgs)
<1>1. m \in MsgSet /\ m.type = "start" /\ m.id = i
  BY DEF Message, MsgSet
<1> HIDE DEF m
<1>2. msgs \in Seq(MsgSet) /\ msgs' = Append(msgs, m)
  BY DEF Mail, m
<1>3. /\ msgs' \in Seq(MsgSet) /\ n \in Nat /\ Len(msgs') = n + 1 /\ msgs'[n + 1] = m
      /\ \A k \in 1..n : msgs'[k] = msgs[k] /\ msgs[k] \in MsgSet
  BY <1>1, <1>2
<1>4. \A k \in 1..n : msgs[k].id \in Ids /\ (msgs[k].type = "start" => msgs[k].id # i)
  BY <1>3 DEF Mail, MsgSet
<1>5. \A k \in 1..(n + 1) : k \in 1..n \/ k = n + 1
  BY <1>3
<1>6. ASSUME NEW k \in 1..Len(msgs'), msgs'[k].type = "start"
      PROVE  start'[msgs'[k].id].pc = "sent"
  BY <1>1, <1>3, <1>4, <1>5, <1>6 DEF Mail
<1>7. ASSUME NEW k \in 1..Len(msgs'), NEW l \in 1..Len(msgs'), msgs'[k].type = "start",
             msgs'[l] = msgs'[k]
      PROVE  k = l
  <2>1. CASE k \in 1..n /\ l \in 1..n
    BY <1>3, <1>7, <2>1 DEF Mail
  <2>2. CASE ~(k \in 1..n /\ l \in 1..n)
    BY <1>1, <1>3, <1>4, <1>5, <1>7, <2>2
  <2>3. QED
    BY <2>1, <2>2
<1>8. QED
  BY <1>3, <1>6, <1>7 DEF Mail

\* The record of a start goes: it never had its lease, was cancelled in the queue,
\* or its thread has ended.
LEMMA NoStartStep ==
    ASSUME IInv, NEW i \in Ids, start[i].pc \in {"sent", "deferred", "cancelled", "ok", "failed"},
           start' = [start EXCEPT ![i] = NoStart], TaskTypes', HoldTypes', Sited', Mail',
           \A j \in Ids : Routed(j)' = Routed(j),
           UNCHANGED <<inst, gen, proc, stop, upkeep, found>>, leases' \subseteq leases,
           inst[i].state # "none" => leases' = leases,
           \A j \in Ids \ {i} : \A a : <<j, a>> \in leases' <=> <<j, a>> \in leases
    PROVE  IInv'
<1>1. Types /\ Counted /\ Own(i) /\ Room'
  BY RoomStays DEF IInv, Owns
<1>2. NoStart \in StartSet /\ NoStart.pc = "none" /\ ~NoStart.again
  BY DEF NoStart, StartSet
<1>3. /\ start' \in [Ids -> StartSet] /\ start'[i].pc = "none" /\ ~start'[i].again
      /\ \A j \in Ids \ {i} : start'[j] = start[j]
  BY <1>1, <1>2 DEF Types, HandTypes
<1>4. HandTypes'
  BY <1>1, <1>3 DEF Types, HandTypes
<1>5. Leased(i)'
  BY <1>1, <1>3 DEF Own, Leased, Alive, Server, Early, Placed
<1>6. Handed(i)' /\ Dated(i)'
  BY <1>1, <1>3 DEF Own, Handed, Dated, Alive, Early, Placed
<1>7. Used(i)'
  BY <1>1, <1>3 DEF Own, Used, Past, Early, Placed
<1>8. Joined(i)' /\ Tended(i)'
  BY <1>1, <1>3 DEF Own, Joined, Tended, Pending, Busy, Early, Placed
<1>9. QED
  BY <1>1, <1>3, <1>4, <1>5, <1>6, <1>7, <1>8, WideStep DEF Own, Counted

\* A job for an instance, new or joined.
LEMMA SharedCall ==
    ASSUME Types, NEW i \in Ids, stop' = SharedJob(i)
    PROVE  /\ stop' \in [Ids -> [Workers -> StopSet]]
           /\ \/ stop'[i]["shared"] = stop[i]["shared"] /\ stop[i]["shared"].pc # "idle"
              \/ stop'[i]["shared"].pc = "enter" /\ stop[i]["shared"].pc = "idle"
           /\ \A v \in Workers \ {"shared"} : stop'[i][v] = stop[i][v]
           /\ \A j \in Ids \ {i} : stop'[j] = stop[j]
<1>1. CASE stop[i]["shared"].pc = "idle"
  BY <1>1, OneCall, WorkerTypes DEF SharedJob
<1>2. CASE stop[i]["shared"].pc # "idle"
  BY <1>2 DEF SharedJob, Types, HandTypes
<1>3. QED
  BY <1>1, <1>2

\* An idle instance is taken out of routing: the job that is to stop it has not
\* looked at it yet.
LEMMA ClaimOwn ==
    ASSUME Types, NEW j \in Ids, Own(j), Idle(j), Counted,
           inst' = Claimed(j), stop' = SharedJob(j), upkeep' = [upkeep EXCEPT ![j] = "idle"],
           UNCHANGED <<task, proc, leases>>, start'[j] = start[j]
    PROVE  /\ inst' \in [Ids -> InstSet] /\ stop' \in [Ids -> [Workers -> StopSet]]
           /\ upkeep' \in [Ids -> {"none", "idle", "failed"}]
           /\ \A k \in Ids \ {j} : inst'[k] = inst[k] /\ stop'[k] = stop[k] /\ upkeep'[k] = upkeep[k]
           /\ inst[j].state # "none" /\ inst'[j].inflight = inst[j].inflight
           /\ Own(j)'
<1>1. inst[j].state = "ready" /\ Routed(j) = {}
  <2>1. Cardinality(Routed(j)) = 0
    BY DEF Idle, Counted
  <2>2. IsFiniteSet(Routed(j))
    BY FiniteRouted
  <2>3. QED
    BY <2>1, <2>2, FS_EmptySet DEF Idle
<1>2. /\ inst' \in [Ids -> InstSet] /\ \A k \in Ids \ {j} : inst'[k] = inst[k]
      /\ inst'[j].attempt = inst[j].attempt /\ inst'[j].inflight = inst[j].inflight
      /\ inst'[j].state = "stopping" /\ inst'[j].claim
  BY OneClaim DEF Claimed
<1>3. /\ stop' \in [Ids -> [Workers -> StopSet]]
      /\ stop'[j]["shared"].pc = "enter"
      /\ \A v \in Workers \ {"shared"} : stop'[j][v] = stop[j][v]
      /\ \A k \in Ids \ {j} : stop'[k] = stop[k]
  BY <1>1, SharedCall DEF Own, Joined
<1>4. /\ upkeep' \in [Ids -> {"none", "idle", "failed"}] /\ upkeep'[j] = "idle"
      /\ \A k \in Ids \ {j} : upkeep'[k] = upkeep[k]
  BY DEF Types, HoldTypes
<1>5. Routed(j)' = {}
  BY <1>1 DEF Routed
<1>6. Leased(j)'
  BY <1>1, <1>2 DEF Own, Leased, Alive, Server
<1>7. Handed(j)' /\ Dated(j)'
  <2>1. ASSUME NEW v \in Workers, stop'[j][v].pc \in {"owner", "finalize", "wait"}
        PROVE  stop'[j][v] = stop[j][v]
    BY <1>3, <2>1
  <2>2. Handed(j)'
    BY <1>1, <1>2, <2>1 DEF Own, Handed, Alive
  <2>3. Dated(j)'
    BY <1>1, <1>2, <2>1 DEF Own, Dated
  <2>4. QED
    BY <2>2, <2>3
<1>8. Used(j)'
  BY <1>1, <1>2, <1>4, <1>5 DEF Own, Used, Past
<1>9. Joined(j)'
  BY <1>1, <1>2, <1>3, <1>4, WorkerTypes DEF Own, Leased, Joined, CancelJob, Pending, Early, Placed
<1>10. Tended(j)'
  BY <1>2, <1>3, WorkerTypes DEF Tended, Busy
<1>11. QED
  BY <1>1, <1>2, <1>3, <1>4, <1>6, <1>7, <1>8, <1>9, <1>10 DEF Own

\* A start gets a lease, is put off, perhaps while an idle instance makes room for
\* it, or is dropped.
LEMMA PlaceStep ==
    ASSUME IInv, NEW i \in Ids, start[i].pc \in {"sent", "deferred"}, Place(i) \/ Refuse(i), Mail',
           UNCHANGED <<task, demand, limit, cancelled, gen, proc, asks, found, faults, calls>>
    PROVE  IInv'
<1>1. /\ Types /\ Room /\ Counted /\ Own(i) /\ TaskTypes' /\ Sited'
      /\ \A j \in Ids : Routed(j)' = Routed(j)
  BY DEF IInv, Owns, Types, TaskTypes, Sited, Routed
<1>2. CASE /\ auto' \in {auto, auto \ {i}} /\ start' = [start EXCEPT ![i] = NoStart]
           /\ UNCHANGED <<leases, inst, upkeep, stop>>
  <2>1. HoldTypes'
    BY <1>1, <1>2 DEF Types, HoldTypes
  <2>2. QED
    BY <1>1, <1>2, <2>1, NoStartStep
<1>3. CASE /\ Cardinality(leases) < Gpus /\ leases' = leases \cup {<<i, start[i].attempt>>}
           /\ start' = [start EXCEPT ![i].pc = "queued"]
           /\ UNCHANGED <<auto, inst, upkeep, stop>>
  <2>1. /\ start' \in [Ids -> StartSet] /\ start'[i].pc = "queued"
        /\ start'[i].again = start[i].again /\ start'[i].attempt = start[i].attempt
        /\ \A j \in Ids \ {i} : start'[j] = start[j]
    BY <1>1, <1>3, OnePlace
  <2>2. start[i].attempt \in {1, 2}
    BY <1>1, Attempts
  <2>3. HandTypes' /\ HoldTypes'
    BY <1>1, <1>3, <2>1, <2>2 DEF Types, HandTypes, HoldTypes
  <2>4. Room'
    <3>1. IsFiniteSet(leases) /\ Gpus \in Nat
      BY <1>1, Finite, ModelAssumption
    <3>2. /\ Cardinality(leases) \in Nat
          /\ \/ Cardinality(leases') = Cardinality(leases)
             \/ Cardinality(leases') = Cardinality(leases) + 1
      BY <1>3, <3>1, FS_AddElement, FS_CardinalityType
    <3>3. Cardinality(leases') <= Gpus
      BY <1>3, <3>1, <3>2
    <3>4. SlotIds' = SlotIds
      BY DEF SlotIds
    <3>5. QED
      BY <1>1, <3>3, <3>4 DEF Room
  <2>5. Leased(i)'
    BY <1>1, <1>3, <2>1 DEF Own, Leased, Alive, Server, Early, Placed
  <2>6. Handed(i)' /\ Dated(i)'
    BY <1>1, <1>3, <2>1 DEF Own, Handed, Dated, Alive, Early, Placed
  <2>7. Used(i)'
    BY <1>1, <1>3, <2>1 DEF Own, Used, Past, Early, Placed
  <2>8. Joined(i)' /\ Tended(i)'
    BY <1>1, <1>3, <2>1 DEF Own, Leased, Joined, Tended, CancelJob, Pending, Early, Placed
  <2>9. QED
    BY <1>1, <1>3, <2>1, <2>3, <2>4, <2>5, <2>6, <2>7, <2>8, WideStep DEF Own, Counted
<1>4. CASE start' = [start EXCEPT ![i].pc = "deferred"] /\ Reclaim(i) /\ UNCHANGED <<auto, leases>>
  <2>1. /\ start' \in [Ids -> StartSet] /\ start'[i].pc = "deferred"
        /\ start'[i].again = start[i].again /\ start'[i].attempt = start[i].attempt
        /\ \A j \in Ids \ {i} : start'[j] = start[j]
    BY <1>1, <1>4, OnePlace
  <2>2. Room'
    BY <1>1, <1>4, RoomStays
  <2>3. ASSUME inst'[i] = inst[i], stop'[i] = stop[i], upkeep'[i] = upkeep[i]
        PROVE  Own(i)'
    <3>1. Leased(i)'
      BY <1>1, <1>4, <2>1, <2>3 DEF Own, Leased, Alive, Server, Early, Placed
    <3>2. Handed(i)' /\ Dated(i)'
      BY <1>1, <1>4, <2>1, <2>3 DEF Own, Handed, Dated, Alive, Early, Placed
    <3>3. Used(i)'
      BY <1>1, <1>4, <2>1, <2>3 DEF Own, Used, Past, Early, Placed
    <3>4. Joined(i)' /\ Tended(i)'
      BY <1>1, <1>4, <2>1, <2>3 DEF Own, Leased, Joined, Tended, CancelJob, Pending, Early, Placed
    <3>5. QED
      BY <3>1, <3>2, <3>3, <3>4 DEF Own
  <2>4. CASE UNCHANGED <<inst, upkeep, stop>>
    <3>1. HandTypes' /\ HoldTypes'
      BY <1>1, <1>4, <2>1, <2>4 DEF Types, HandTypes, HoldTypes
    <3>2. QED
      BY <1>1, <1>4, <2>1, <2>2, <2>3, <2>4, <3>1, WideStep DEF Counted
  <2>5. ASSUME NEW j \in Ids, Idle(j), j # i, inst' = Claimed(j),
               upkeep' = [upkeep EXCEPT ![j] = "idle"], stop' = SharedJob(j)
        PROVE  IInv'
    <3>1. /\ inst' \in [Ids -> InstSet] /\ stop' \in [Ids -> [Workers -> StopSet]]
          /\ upkeep' \in [Ids -> {"none", "idle", "failed"}]
          /\ \A k \in Ids \ {j} : inst'[k] = inst[k] /\ stop'[k] = stop[k] /\ upkeep'[k] = upkeep[k]
          /\ inst[j].state # "none" /\ inst'[j].inflight = inst[j].inflight
          /\ Own(j)'
      <4>1. Own(j)
        BY DEF IInv, Owns
      <4>2. QED
        BY <1>1, <1>4, <2>1, <2>5, <4>1, ClaimOwn
    <3>2. Types'
      BY <1>1, <1>4, <2>1, <3>1 DEF Types, HandTypes, HoldTypes
    <3>3. Counted'
      BY <1>1, <3>1 DEF Counted
    <3>4. Own(i)'
      BY <2>3, <2>5, <3>1
    <3>5. ASSUME NEW k \in Ids
          PROVE  Own(k)'
      <4>1. CASE k # i /\ k # j
        <5>1. Still(k)
          BY <1>1, <1>4, <2>1, <3>1, <4>1 DEF Still, Server
        <5>2. QED
          BY <5>1, OwnStays DEF IInv, Owns
      <4>2. QED
        BY <3>1, <3>4, <4>1
    <3>6. QED
      BY <1>1, <2>2, <3>2, <3>3, <3>5 DEF IInv, Owns
  <2>6. QED
    <3>1. \/ UNCHANGED <<inst, upkeep, stop>>
          \/ \E j \in Ids : /\ Idle(j) /\ ModelOf[j] # ModelOf[i] /\ inst' = Claimed(j)
                            /\ upkeep' = [upkeep EXCEPT ![j] = "idle"] /\ stop' = SharedJob(j)
      BY <1>4 DEF Reclaim
    <3>2. QED
      BY <2>4, <2>5, <3>1
<1>5. QED
  BY <1>2, <1>3, <1>4 DEF Place, Refuse, To

\* The announcement of a start is taken, or one that was put off tried again.
LEMMA PlacingSteps ==
    ASSUME IInv, QueueStart \/ \E i \in Ids : Deferred(i)
    PROVE  IInv'
<1>1. Types /\ Mail
  BY DEF IInv
<1>2. CASE QueueStart
  <2>1. msgs # <<>> /\ msgs' = Tail(msgs) /\ Head(msgs).type = "start"
    BY <1>2 DEF QueueStart, Head1
  <2>2. PICK i \in Ids : i = Head(msgs).id /\ start[i].pc = "sent" /\ Head(msgs) = Message("start", i)
    BY <1>1, <2>1, HeadMail DEF MsgSet, Message
  <2>3. Place(i) \/ Refuse(i)
    BY <1>2, <2>2 DEF QueueStart
  <2>4. \A j \in Ids \ {i} : start'[j] = start[j]
    BY <1>1, <2>3 DEF Place, Refuse, To, Types, HandTypes
  <2>5. Mail'
    <3>1. \A j \in Ids : start[j].pc = "sent" /\ Head(msgs) # Message("start", j) => start'[j].pc = "sent"
      BY <2>2, <2>4
    <3>2. QED
      BY <1>1, <2>1, <3>1, TailMail
  <2>6. QED
    BY <1>2, <2>2, <2>3, <2>5, PlaceStep DEF QueueStart
<1>3. ASSUME NEW i \in Ids, Deferred(i)
      PROVE  IInv'
  <2>1. start[i].pc = "deferred" /\ Place(i)
    BY <1>3 DEF Deferred
  <2>2. \A j \in Ids \ {i} : start'[j] = start[j]
    BY <1>1, <2>1 DEF Place, To, Types, HandTypes
  <2>3. Mail'
    BY <1>1, <1>3, <2>1, <2>2, MailStays DEF Deferred
  <2>4. QED
    BY <1>3, <2>1, <2>3, PlaceStep DEF Deferred
<1>4. QED
  BY <1>2, <1>3

\* The record of a start that is cancelled.
LEMMA OneCancel ==
    ASSUME Types, NEW i \in Ids, NEW b \in BOOLEAN, NEW pc \in {start[i].pc, "cancelled"},
           start' = [start EXCEPT ![i].cancel = TRUE, ![i].orphan = b, ![i].pc = pc]
    PROVE  /\ start' \in [Ids -> StartSet] /\ start'[i].pc = pc
           /\ start'[i].again = start[i].again /\ start'[i].attempt = start[i].attempt
           /\ \A j \in Ids \ {i} : start'[j] = start[j]
<1>1. start \in [Ids -> StartSet] /\ start[i] \in StartSet
  BY DEF Types, HandTypes
<1>2. /\ start'[i].pc = pc /\ start'[i].again = start[i].again
      /\ start'[i].attempt = start[i].attempt /\ start'[i].auto = start[i].auto
      /\ start'[i].cancel /\ start'[i].orphan = b
      /\ \A j \in Ids \ {i} : start'[j] = start[j]
  BY <1>1 DEF StartSet
<1>3. [start[i] EXCEPT !.cancel = TRUE, !.orphan = b, !.pc = pc] \in StartSet
  BY <1>1 DEF StartSet
<1>4. QED
  BY <1>1, <1>2, <1>3

\* A start is cancelled, in the queue or by a job; that job will find what was
\* claimed for it.
LEMMA StopPendingStep ==
    ASSUME IInv, NEW i \in Ids, NEW orphan \in BOOLEAN, Pending(i), StopPending(i, orphan), Mail',
           UNCHANGED <<task, demand, limit, proc, leases, upkeep, found, faults, calls>>
    PROVE  IInv'
<1> DEFINE w == CancelJob(i)
           queued == start[i].pc = "queued" /\ inst[i].state = "none"
<1>1. /\ Types /\ Counted /\ Own(i) /\ w \in Workers /\ w # "start" /\ TaskTypes' /\ Sited'
      /\ \A j \in Ids : Routed(j)' = Routed(j)
  BY WorkerTypes DEF IInv, Owns, Types, TaskTypes, Sited, Routed
<1>2. /\ start' \in [Ids -> StartSet]
      /\ start'[i].pc = IF queued THEN "cancelled" ELSE start[i].pc
      /\ start'[i].again = start[i].again /\ start'[i].attempt = start[i].attempt
      /\ \A j \in Ids \ {i} : start'[j] = start[j]
  <2>1. start[i] \in StartSet
    BY <1>1 DEF Types, HandTypes
  <2>2. PICK b \in BOOLEAN : b = (start[i].orphan \/ orphan)
    OBVIOUS
  <2>3. PICK pc \in {start[i].pc, "cancelled"} : pc = IF queued THEN "cancelled" ELSE start[i].pc
    OBVIOUS
  <2>4. start' = [start EXCEPT ![i].cancel = TRUE, ![i].orphan = b, ![i].pc = pc]
    BY <1>1, <2>2, <2>3 DEF StopPending, Types, HandTypes
  <2> HIDE DEF queued
  <2>5. /\ start' \in [Ids -> StartSet] /\ start'[i].pc = pc
        /\ start'[i].again = start[i].again /\ start'[i].attempt = start[i].attempt
        /\ \A j \in Ids \ {i} : start'[j] = start[j]
    BY <1>1, <2>1, <2>3, <2>4, OneCancel
  <2>6. QED
    BY <2>3, <2>5
<1>3. gen' \in [Ids -> GenSet] /\ \A j \in Ids : gen'[j].slot => gen[j].slot
  <2>1. PICK g \in GenSet : g = Invalidated(i) /\ (g.slot => gen[i].slot)
    BY <1>1, InvalidatedGen
  <2>2. gen' = [gen EXCEPT ![i] = g]
    BY <2>1 DEF StopPending, CancelStart
  <2>3. QED
    BY <1>1, <2>1, <2>2, OneGen
<1>4. /\ stop' \in [Ids -> [Workers -> StopSet]]
      /\ \/ stop'[i][w] = stop[i][w] /\ (queued \/ stop[i][w].pc # "idle")
         \/ stop'[i][w].pc = "enter" /\ stop[i][w].pc = "idle"
      /\ \A v \in Workers \ {w} : stop'[i][v] = stop[i][v]
      /\ \A j \in Ids \ {i} : stop'[j] = stop[j]
  <2>1. CASE queued \/ stop[i][w].pc # "idle"
    BY <1>1, <2>1 DEF StopPending, Types, HandTypes
  <2>2. CASE ~(queued \/ stop[i][w].pc # "idle")
    <3>1. stop' = [stop EXCEPT ![i][w].pc = "enter"]
      BY <2>2 DEF StopPending
    <3> HIDE DEF w
    <3>2. QED
      BY <1>1, <2>2, <3>1, OneCall
  <2>3. QED
    BY <2>1, <2>2
<1>5. /\ inst' \in [Ids -> InstSet] /\ \A j \in Ids \ {i} : inst'[j] = inst[j]
      /\ inst'[i].attempt = inst[i].attempt /\ inst'[i].inflight = inst[i].inflight
      /\ \/ inst'[i] = inst[i]
         \/ /\ inst[i].state \in {"launching", "ready"}
            /\ inst'[i].state = "stopping" /\ inst'[i].claim
  <2>1. CASE inst' = inst
    BY <1>1, <2>1 DEF Types, HandTypes
  <2>2. CASE /\ inst[i].state \in {"launching", "ready"}
             /\ inst' = [inst EXCEPT ![i].state = "stopping", ![i].claim = TRUE]
    BY <1>1, <2>2, OneClaim
  <2>3. QED
    BY <2>1, <2>2 DEF StopPending, CancelStart
<1>6. cancelled' \subseteq Ids /\ asks' \in [Ids -> SUBSET Jobs] /\ auto' = auto
  <2>1. w \in Jobs
    BY DEF CancelJob, Jobs
  <2>2. QED
    BY <1>1, <2>1 DEF StopPending, CancelStart, Types, HoldTypes
<1>7. HandTypes' /\ HoldTypes' /\ Room'
  BY <1>1, <1>2, <1>3, <1>4, <1>5, <1>6, RoomStays DEF IInv, Types, HandTypes, HoldTypes
<1>8. ASSUME NEW v \in Workers, stop'[i][v].pc \in {"owner", "finalize", "wait"}
      PROVE  stop'[i][v] = stop[i][v]
  BY <1>4, <1>8
<1>9. Leased(i)'
  BY <1>1, <1>2, <1>5 DEF Own, Leased, Alive, Server, Early, Placed, Pending
<1>10. Handed(i)'
  BY <1>1, <1>2, <1>5, <1>8 DEF Own, Handed, Alive, Early, Placed
<1>11. Dated(i)'
  BY <1>1, <1>2, <1>5, <1>8, Attempts DEF Own, Dated, Pending
<1>12. Used(i)'
  BY <1>1, <1>2, <1>5 DEF Own, Used, Past, Early, Placed
<1>13. Joined(i)'
  <2>1. CancelJob(i)' = w
    BY <1>2 DEF CancelJob
  <2>2. stop[i][w].pc \in {"idle", "enter"} => stop'[i][w].pc \in {"idle", "enter"}
    BY <1>4
  <2>3. w = "cancel2" => start[i].attempt # 1
    BY DEF CancelJob
  <2>4. stop'[i]["shared"] = stop[i]["shared"] /\ stop'[i]["start"] = stop[i]["start"]
    BY <1>1, <1>4, WorkerTypes DEF CancelJob
  <2>5. start[i].attempt = 1 => stop'[i]["cancel2"] = stop[i]["cancel2"]
    BY <1>4, <2>3, WorkerTypes
  <2> HIDE DEF w
  <2>6. QED
    BY <1>1, <1>2, <1>5, <2>1, <2>2, <2>4, <2>5
    DEF Own, Joined, Pending, Early, Placed, w
<1>14. Tended(i)'
  <2>1. \A pcs : Busy(i, pcs) => Busy(i, pcs)' \/ "idle" \in pcs
    BY <1>4 DEF Busy
  <2>2. inst[i].state \in {"launching", "ready"} => stop[i][w].pc \in {"idle", "enter"} /\ ~queued
    BY <1>1 DEF Own, Joined
  <2>3. inst[i].state \in {"launching", "ready"} => Busy(i, {"enter"})'
    BY <1>1, <1>4, <2>2 DEF Busy
  <2> HIDE DEF w, queued
  <2>4. QED
    BY <1>1, <1>2, <1>5, <2>1, <2>3 DEF Own, Tended, queued
<1>15. start[i].pc # "sent"
  BY DEF Pending
<1>16. Own(i)'
  BY <1>9, <1>10, <1>11, <1>12, <1>13, <1>14 DEF Own
<1>17. inst'[i].state # "none" => inst'[i].inflight = Cardinality(Routed(i))
  BY <1>1, <1>5 DEF Counted
<1> HIDE DEF w, queued
<1>18. QED
  BY <1>1, <1>2, <1>4, <1>5, <1>7, <1>16, <1>17, WideStep

\* A job is asked for by a request, or joined.
LEMMA StopSharedStep ==
    ASSUME IInv, NEW i \in Ids, StopShared(i), Mail',
           UNCHANGED <<task, demand, limit, proc, leases, upkeep, found, faults, calls>>
    PROVE  IInv'
<1>1. /\ Types /\ Counted /\ Own(i) /\ TaskTypes' /\ Sited' /\ UNCHANGED <<start, auto, inst, gen, cancelled>>
      /\ \A j \in Ids : Routed(j)' = Routed(j)
  BY DEF IInv, Owns, Types, TaskTypes, Sited, Routed, StopShared
<1>2. /\ stop' \in [Ids -> [Workers -> StopSet]]
      /\ \/ stop'[i]["shared"] = stop[i]["shared"] /\ stop[i]["shared"].pc # "idle"
         \/ stop'[i]["shared"].pc = "enter" /\ stop[i]["shared"].pc = "idle"
      /\ \A v \in Workers \ {"shared"} : stop'[i][v] = stop[i][v]
      /\ \A j \in Ids \ {i} : stop'[j] = stop[j]
  BY <1>1, SharedCall DEF StopShared
<1>3. asks' \in [Ids -> SUBSET Jobs]
  <2>1. "shared" \in Jobs
    BY DEF Jobs
  <2>2. QED
    BY <1>1, <2>1 DEF StopShared, Types, HoldTypes
<1>4. HandTypes' /\ HoldTypes' /\ Room'
  BY <1>1, <1>2, <1>3, RoomStays DEF IInv, Types, HandTypes, HoldTypes
<1>5. ASSUME NEW v \in Workers, stop'[i][v].pc \in {"owner", "finalize", "wait"}
      PROVE  stop'[i][v] = stop[i][v]
  BY <1>2, <1>5
<1>6. Leased(i)' /\ Used(i)'
  BY <1>1 DEF Own, Leased, Used, Alive, Server, Past
<1>7. Handed(i)' /\ Dated(i)'
  BY <1>1, <1>5 DEF Own, Handed, Dated, Alive
<1>8. Joined(i)'
  BY <1>1, <1>2, WorkerTypes DEF Own, Joined, Pending, CancelJob
<1>9. Tended(i)'
  <2>1. \A pcs : Busy(i, pcs) => Busy(i, pcs)' \/ "idle" \in pcs
    BY <1>2 DEF Busy
  <2>2. QED
    BY <1>1, <2>1 DEF Own, Tended
<1>10. QED
  BY <1>1, <1>2, <1>4, <1>6, <1>7, <1>8, <1>9, WideStep DEF Own, Counted

\* A request to stop an instance, of its user or because nobody needs it any more.
LEMMA StoppingSteps ==
    ASSUME IInv, QueueStop \/ QueueOrphan
    PROVE  IInv'
<1>1. Types /\ Mail /\ Counted /\ Owns
  BY DEF IInv
<1>2. /\ msgs # <<>> /\ msgs' = Tail(msgs) /\ Head(msgs).type # "start"
      /\ UNCHANGED <<task, demand, limit, proc, leases, upkeep, found, faults, calls>>
  BY DEF QueueStop, QueueOrphan, Head1
<1>3. PICK i \in Ids : i = Head(msgs).id
  BY <1>1, <1>2, HeadMail
<1>4. \A j : Head(msgs) # Message("start", j)
  BY <1>2 DEF Message
<1>5. ASSUME NEW o \in BOOLEAN, Pending(i), StopPending(i, o)
      PROVE  IInv'
  <2>1. \A j \in Ids : start[j].pc = "sent" => start'[j].pc = "sent"
    <3>1. /\ start[i].pc # "sent"
          /\ \A j \in Ids \ {i} : start'[j] = start[j]
      BY <1>1, <1>5 DEF Pending, StopPending, Types, HandTypes
    <3>2. QED
      BY <3>1
  <2>2. Mail'
    BY <1>1, <1>2, <2>1, TailMail
  <2>3. QED
    BY <1>2, <1>5, <2>2, StopPendingStep
<1>6. CASE StopShared(i)
  <2>1. Mail'
    BY <1>1, <1>2, <1>6, TailMail DEF StopShared
  <2>2. QED
    BY <1>2, <1>6, <2>1, StopSharedStep
<1>7. CASE UNCHANGED <<start, auto, inst, gen, cancelled, asks, stop>>
  <2>1. Mail'
    BY <1>1, <1>2, <1>7, TailMail
  <2>2. Types' /\ Room' /\ Sited' /\ \A j \in Ids : Routed(j)' = Routed(j)
    BY <1>1, <1>2, <1>7, RoomStays DEF IInv, Types, TaskTypes, HoldTypes, HandTypes, Sited, Routed
  <2>3. Own(i)'
    BY <1>1, <1>2, <1>7, <2>2, OwnStays DEF Owns, Still, Server
  <2>4. QED
    BY <1>1, <1>2, <1>7, <2>1, <2>2, <2>3, WideStep DEF Types, Counted
<1>8. CASE /\ auto' = auto \ {i}
           /\ start' = IF start[i].pc = "deferred" THEN [start EXCEPT ![i] = NoStart] ELSE start
           /\ UNCHANGED <<inst, gen, cancelled, asks, stop>>
  <2>1. \A j \in Ids : start[j].pc = "sent" => start'[j].pc = "sent"
    BY <1>8
  <2>2. Mail'
    BY <1>1, <1>2, <2>1, TailMail
  <2>3. TaskTypes' /\ HoldTypes' /\ Room' /\ Sited' /\ \A j \in Ids : Routed(j)' = Routed(j)
    BY <1>1, <1>2, <1>8, RoomStays DEF IInv, Types, TaskTypes, HoldTypes, HandTypes, Sited, Routed
  <2>4. CASE start[i].pc = "deferred"
    BY <1>1, <1>2, <1>8, <2>2, <2>3, <2>4, NoStartStep
  <2>5. CASE start[i].pc # "deferred"
    <3>1. HandTypes'
      BY <1>1, <1>8, <2>5 DEF Types, HandTypes
    <3>2. Own(i)'
      BY <1>1, <1>2, <1>8, <2>3, <2>5, OwnStays DEF Owns, Still, Server
    <3>3. QED
      BY <1>1, <1>2, <1>8, <2>2, <2>3, <2>5, <3>1, <3>2, WideStep DEF Counted
  <2>6. QED
    BY <2>4, <2>5
<1>9. CASE QueueStop
  BY <1>3, <1>5, <1>6, <1>9 DEF QueueStop
<1>10. CASE QueueOrphan
  BY <1>3, <1>5, <1>6, <1>7, <1>8, <1>10 DEF QueueOrphan
<1>11. QED
  BY <1>9, <1>10
-------------------------------------------------------------------------------
(* What has ended is drained. *)

\* Tasks that wait may be failed with a start: none of them has a route.
LEMMA WaitersFail ==
    ASSUME IInv, NEW i \in Ids, FailWaiters(i) \/ UNCHANGED <<task, demand, msgs>>, limit' = limit,
           \A j \in Ids : start[j].pc = "sent" => start'[j].pc = "sent"
    PROVE  TaskTypes' /\ Sited' /\ Mail' /\ \A j \in Ids : Routed(j)' = Routed(j)
<1>1. Types /\ Sited /\ Mail /\ task \in [Tasks -> TaskSet]
  BY DEF IInv, Types, TaskTypes
<1>2. CASE UNCHANGED <<task, demand, msgs>>
  BY <1>1, <1>2, MailStays DEF Types, TaskTypes, Sited, Routed
<1>3. ASSUME NEW ts, ts = Waiters(ModelOf[i]), ClearDemand(ts),
             task' = [t \in Tasks |-> IF t \in ts THEN Done(t) ELSE task[t]]
      PROVE  TaskTypes' /\ Sited' /\ Mail' /\ \A j \in Ids : Routed(j)' = Routed(j)
  <2>1. Mail' /\ demand' \subseteq Tasks
    BY <1>1, <1>3, ClearDemandMail
  <2>2. \A t \in Tasks : /\ task'[t] \in TaskSet
                         /\ \/ task'[t] = task[t]
                            \/ task[t].place = "waiting" /\ task'[t].place = "done"
    BY <1>1, <1>3, DoneTask DEF Waiters
  <2>3. task' \in [Tasks -> TaskSet]
    BY <1>3, <2>2
  <2>4. TaskTypes' /\ Sited'
    BY <1>1, <2>1, <2>2, <2>3 DEF Types, TaskTypes, Sited
  <2>5. \A j \in Ids : Routed(j)' = Routed(j)
    BY <2>2 DEF Routed
  <2>6. QED
    BY <2>1, <2>4, <2>5
<1>4. QED
  BY <1>2, <1>3 DEF FailWaiters

\* The record of a start that has ended goes.
LEMMA DrainStartSteps ==
    ASSUME IInv, NEW i \in Ids, DrainReady(i) \/ DrainFailed(i) \/ DrainCancelled(i)
    PROVE  IInv'
<1>1. /\ Types /\ Mail /\ Sited /\ start' = [start EXCEPT ![i] = NoStart]
      /\ start[i].pc \in {"cancelled", "ok", "failed"}
      /\ UNCHANGED <<inst, gen, proc, stop, upkeep, found, limit, faults, calls>>
  BY DEF IInv, DrainReady, DrainFailed, DrainCancelled
<1>2. \A j \in Ids : start[j].pc = "sent" => start'[j].pc = "sent"
  BY <1>1
<1>3. /\ auto' \subseteq Ids /\ cancelled' \subseteq Ids /\ leases' \subseteq leases
      /\ asks' \in [Ids -> SUBSET Jobs]
      /\ \A j \in Ids \ {i} : \A a : <<j, a>> \in leases' <=> <<j, a>> \in leases
  <2>1. Answered(i) \in [Ids -> SUBSET Jobs]
    BY <1>1 DEF Answered, Types, HoldTypes
  <2>2. QED
    BY <1>1, <2>1 DEF DrainReady, DrainFailed, DrainCancelled, Undeployed, Types, HoldTypes
<1>4. HoldTypes'
  BY <1>1, <1>3 DEF Types, HoldTypes
<1>5. inst[i].state # "none" => leases' = leases
  <2>1. start[i].pc = "cancelled" => inst[i].state = "none"
    BY DEF IInv, Owns, Own, Leased, Early
  <2>2. QED
    BY <2>1 DEF DrainReady, DrainFailed, DrainCancelled
<1>6. TaskTypes' /\ Sited' /\ Mail' /\ \A j \in Ids : Routed(j)' = Routed(j)
  <2>1. CASE DrainReady(i)
    <3>1. PICK m : m = ModelOf[i]
      OBVIOUS
    <3>2. task' = Woken(m) /\ demand' = demand /\ msgs' = msgs
      BY <2>1, <3>1 DEF DrainReady
    <3>3. /\ task' \in [Tasks -> TaskSet]
          /\ \A t \in Tasks : /\ task'[t].on = task[t].on
                              /\ \/ task'[t] = task[t]
                                 \/ task[t].place = "waiting" /\ task'[t].place = "ready"
      BY <1>1, <3>2, WokenTasks
    <3>4. TaskTypes' /\ Sited'
      BY <1>1, <3>2, <3>3 DEF Types, TaskTypes, Sited
    <3>5. \A j \in Ids : Routed(j)' = Routed(j)
      BY <3>3 DEF Routed
    <3>6. QED
      BY <1>1, <1>2, <3>2, <3>4, <3>5, MailStays
  <2>2. CASE DrainFailed(i) \/ DrainCancelled(i)
    <3>1. FailWaiters(i) \/ UNCHANGED <<task, demand, msgs>>
      BY <2>2 DEF DrainFailed, DrainCancelled
    <3>2. QED
      BY <1>1, <1>2, <3>1, WaitersFail
  <2>3. QED
    BY <2>1, <2>2
<1>7. QED
  BY <1>1, <1>3, <1>4, <1>5, <1>6, NoStartStep

\* The record of a start that is asked for, the first time or again.
LEMMA SentEntry ==
    ASSUME NEW b \in BOOLEAN
    PROVE  /\ LET r == [NoStart EXCEPT !.pc = "sent", !.auto = b]
              IN  r \in StartSet /\ r.pc = "sent" /\ r.attempt = 1 /\ ~r.again
           /\ LET r == [NoStart EXCEPT !.pc = "sent", !.auto = b, !.attempt = 2]
              IN  r \in StartSet /\ r.pc = "sent" /\ r.attempt = 2 /\ ~r.again
<1>1. NoStart \in StartSet /\ ~NoStart.again /\ NoStart.attempt = 1
  BY DEF NoStart, StartSet
<1>2. ASSUME NEW q \in StartSet, NEW a \in 1..2
      PROVE  LET r == [q EXCEPT !.pc = "sent", !.auto = b, !.attempt = a]
             IN  r \in StartSet /\ r.pc = "sent" /\ r.attempt = a /\ r.again = q.again
  BY DEF StartSet
<1>3. ASSUME NEW q \in StartSet
      PROVE  LET r == [q EXCEPT !.pc = "sent", !.auto = b]
             IN  r \in StartSet /\ r.pc = "sent" /\ r.attempt = q.attempt /\ r.again = q.again
  BY DEF StartSet
<1>4. 2 \in 1..2
  OBVIOUS
<1>5. QED
  BY <1>1, <1>2, <1>3, <1>4

\* A start is tried again: nothing is registered, and what was stopped was the
\* first attempt.
LEMMA DrainRetryStep ==
    ASSUME IInv, NEW i \in Ids, DrainRetry(i)
    PROVE  IInv'
<1> DEFINE r == [NoStart EXCEPT !.pc = "sent", !.auto = start[i].auto, !.attempt = 2]
<1>1. /\ Types /\ Mail /\ Sited /\ Counted /\ Own(i) /\ start[i].pc = "failed" /\ start[i].again
      /\ start[i] \in StartSet
      /\ UNCHANGED <<task, demand, limit, inst, cancelled, gen, proc, leases, stop, asks, upkeep,
                     found, faults, calls>>
  BY DEF IInv, Owns, DrainRetry, Types, HandTypes
<1>2. r \in StartSet /\ r.pc = "sent" /\ r.attempt = 2 /\ ~r.again
  <2>1. start[i].auto \in BOOLEAN
    BY <1>1 DEF StartSet
  <2>2. QED
    BY <2>1, SentEntry
<1>3. start' = [start EXCEPT ![i] = r] /\ auto' \subseteq Ids /\ msgs' = Append(msgs, Message("start", i))
  BY <1>1 DEF DrainRetry, Types, HoldTypes
<1> HIDE DEF r
<1>4. /\ start' \in [Ids -> StartSet] /\ start'[i] = r
      /\ \A j \in Ids \ {i} : start'[j] = start[j]
  BY <1>1, <1>2, <1>3 DEF Types, HandTypes
<1>5. Mail'
  BY <1>1, <1>2, <1>3, <1>4, AppendMail
<1>6. /\ TaskTypes' /\ HandTypes' /\ HoldTypes' /\ Room' /\ Sited'
      /\ \A j \in Ids : Routed(j)' = Routed(j)
  BY <1>1, <1>3, <1>4, RoomStays DEF IInv, Types, TaskTypes, HoldTypes, HandTypes, Sited, Routed
<1>7. /\ inst[i].state = "none" /\ start[i].attempt = 1 /\ ~Past(i) /\ upkeep[i] # "idle"
      /\ Routed(i) = {}
  BY <1>1 DEF Own, Leased, Used, Past
<1>8. Leased(i)'
  BY <1>1, <1>2, <1>4, <1>7 DEF Own, Leased, Alive, Server, Placed
<1>9. Handed(i)' /\ Dated(i)'
  <2>1. \A w \in Workers : stop[i][w].pc \in {"owner", "finalize", "wait"} => stop[i][w].attempt <= 1
    BY <1>1, <1>7 DEF Own, Dated
  <2>2. \A w \in Workers : stop[i][w].attempt \in 0..2
    BY <1>1, Attempts
  <2>3. QED
    BY <1>1, <1>2, <1>4, <1>7, <2>1, <2>2 DEF Own, Handed, Dated, Alive
<1>10. Used(i)'
  BY <1>1, <1>2, <1>4, <1>6, <1>7 DEF Own, Used
<1>11. Joined(i)'
  BY <1>1, <1>2, <1>4, <1>7 DEF Own, Joined, CancelJob, Pending
<1>12. Tended(i)'
  BY <1>1, <1>7 DEF Tended
<1>13. QED
  BY <1>1, <1>2, <1>4, <1>5, <1>6, <1>7, <1>8, <1>9, <1>10, <1>11, <1>12, WideStep DEF Own

\* A worker whose stop has ended is noted, and may be sent again.
LEMMA WorkerDrained ==
    ASSUME IInv, NEW i \in Ids, NEW w \in Jobs \cup {"recovery"}, stop[i][w].pc \in {"ok", "failed"},
           \/ stop' = [stop EXCEPT ![i][w] = NoStop]
           \/ stop' = stop,
           upkeep' \in {upkeep, [upkeep EXCEPT ![i] = "none"]},
           w = "shared" /\ upkeep'[i] # "none" => stop' = stop,
           TaskTypes', Sited', Mail', \A j \in Ids : Routed(j)' = Routed(j),
           asks' \in [Ids -> SUBSET Jobs],
           UNCHANGED <<inst, auto, cancelled, gen, proc, leases, start, found, faults, calls>>
    PROVE  IInv'
<1>1. Types /\ Counted /\ Own(i) /\ w \in Workers /\ w # "start"
  BY DEF IInv, Owns, Workers, Jobs
<1>2. /\ stop' \in [Ids -> [Workers -> StopSet]]
      /\ \/ stop'[i][w] = stop[i][w]
         \/ stop'[i][w].pc = "idle"
      /\ w = "shared" /\ upkeep'[i] # "none" => stop'[i][w] = stop[i][w]
      /\ \A v \in Workers \ {w} : stop'[i][v] = stop[i][v]
      /\ \A j \in Ids \ {i} : stop'[j] = stop[j]
  <2>1. CASE stop' = stop
    BY <1>1, <2>1 DEF Types, HandTypes
  <2>2. CASE stop' = [stop EXCEPT ![i][w] = NoStop] /\ stop' # stop
    <3>1. NoStop \in StopSet /\ NoStop.pc = "idle"
      BY DEF NoStop, StopSet
    <3>2. QED
      BY <1>1, <2>2, <3>1, OneWorker
  <2>3. QED
    BY <2>1, <2>2
<1>3. /\ upkeep' \in [Ids -> {"none", "idle", "failed"}]
      /\ upkeep'[i] \in {"none", upkeep[i]}
      /\ \A j \in Ids \ {i} : upkeep'[j] = upkeep[j]
  BY <1>1 DEF Types, HoldTypes
<1>4. HandTypes' /\ HoldTypes' /\ Room'
  BY <1>1, <1>2, <1>3, RoomStays DEF IInv, Types, HandTypes, HoldTypes
<1>5. ASSUME NEW v \in Workers, stop'[i][v].pc \in {"owner", "finalize", "wait"}
      PROVE  stop'[i][v] = stop[i][v]
  BY <1>2, <1>5
<1>6. Leased(i)'
  BY <1>1 DEF Own, Leased, Alive, Server
<1>7. Handed(i)' /\ Dated(i)'
  BY <1>1, <1>5 DEF Own, Handed, Dated, Alive
<1>8. Used(i)'
  BY <1>1, <1>3 DEF Own, Used, Past
<1>9. Joined(i)'
  <2>1. \A v \in Workers : stop[i][v].pc \in {"idle", "enter"} => stop'[i][v] = stop[i][v]
    BY <1>2
  <2>2. upkeep'[i] # "none" => stop'[i]["shared"].pc # "idle"
    BY <1>1, <1>2, <1>3, WorkerTypes DEF Own, Joined
  <2>3. QED
    BY <1>1, <1>3, <2>1, <2>2, WorkerTypes DEF Own, Joined, Pending, CancelJob
<1>10. Tended(i)'
  <2>1. \A pcs : Busy(i, pcs) => Busy(i, pcs)' \/ "ok" \in pcs \/ "failed" \in pcs
    BY <1>2 DEF Busy
  <2>2. QED
    BY <1>1, <2>1 DEF Own, Tended
<1>11. QED
  BY <1>1, <1>2, <1>3, <1>4, <1>6, <1>7, <1>8, <1>9, <1>10, WideStep DEF Own, Counted

\* Jobs that have ended: their requests are answered, the supervisor notes them.
LEMMA DrainJobSteps ==
    ASSUME IInv, NEW i \in Ids, DrainStop(i) \/ DrainUpkeep(i)
    PROVE  IInv'
<1>1. /\ Types /\ Mail /\ Sited /\ asks \in [Ids -> SUBSET Jobs]
      /\ UNCHANGED <<task, demand, limit, inst, auto, cancelled, gen, proc, leases, start, msgs, found,
                     faults, calls>>
  BY DEF IInv, Types, HoldTypes, DrainStop, DrainUpkeep, upVars
<1>2. TaskTypes' /\ Sited' /\ Mail' /\ \A j \in Ids : Routed(j)' = Routed(j)
  BY <1>1, MailStays DEF Types, TaskTypes, Sited, Routed
<1>3. CASE DrainStop(i)
  <2>1. PICK w \in asks[i] :
           /\ Over(i, w) /\ asks' = [asks EXCEPT ![i] = @ \ {w}]
           /\ stop' = IF w = "shared" /\ upkeep[i] # "none" THEN stop
                      ELSE [stop EXCEPT ![i][w] = NoStop]
    BY <1>3 DEF DrainStop
  <2>2. w \in Jobs /\ asks' \in [Ids -> SUBSET Jobs]
    BY <1>1, <2>1
  <2>3. upkeep' = upkeep
    BY <1>3 DEF DrainStop
  <2>4. QED
    BY <1>1, <1>2, <2>1, <2>2, <2>3, WorkerDrained DEF Over
<1>4. CASE DrainUpkeep(i)
  <2>1. /\ stop[i]["shared"].pc \in {"ok", "failed"} /\ upkeep' = [upkeep EXCEPT ![i] = "none"]
        /\ \/ stop' = stop
           \/ stop' = [stop EXCEPT ![i]["shared"] = NoStop]
        /\ asks' = asks
    BY <1>4 DEF DrainUpkeep, Over, upVars
  <2>2. upkeep'[i] = "none" /\ "shared" \in Jobs
    BY <1>1, <2>1 DEF Types, HoldTypes, Jobs
  <2>3. QED
    BY <1>1, <1>2, <2>1, <2>2, WorkerDrained
<1>5. QED
  BY <1>3, <1>4
-------------------------------------------------------------------------------
(* The supervisor, and the user. *)

\* An idle instance is claimed by the supervisor.
LEMMA ClaimIdleStep ==
    ASSUME IInv, NEW i \in Ids, ClaimIdle(i)
    PROVE  IInv'
<1>1. /\ Types /\ Counted /\ Own(i) /\ Idle(i) /\ inst' = Claimed(i)
      /\ upkeep' = [upkeep EXCEPT ![i] = "idle"] /\ stop' = SharedJob(i)
      /\ UNCHANGED upVars /\ UNCHANGED <<msgs, found, faults, calls>>
  BY DEF IInv, Owns, ClaimIdle, StillIdle
<1>2. /\ inst' \in [Ids -> InstSet] /\ stop' \in [Ids -> [Workers -> StopSet]]
      /\ upkeep' \in [Ids -> {"none", "idle", "failed"}]
      /\ \A k \in Ids \ {i} : inst'[k] = inst[k] /\ stop'[k] = stop[k] /\ upkeep'[k] = upkeep[k]
      /\ inst[i].state # "none" /\ inst'[i].inflight = inst[i].inflight
      /\ Own(i)'
  BY <1>1, ClaimOwn DEF upVars
<1>3. HandTypes' /\ HoldTypes'
  BY <1>1, <1>2 DEF upVars, Types, HandTypes, HoldTypes
<1>4. QED
  BY <1>1, <1>2, <1>3, OneStep DEF upVars, Counted

\* An instance is asked for its health.
LEMMA ProbeStep ==
    ASSUME IInv, NEW i \in Ids, Probe(i)
    PROVE  IInv'
<1>1. /\ Types /\ Counted /\ Own(i) /\ found' = found \cup {i} /\ faults' \in 0..MaxFaults
      /\ UNCHANGED upVars /\ UNCHANGED <<stop, upkeep, msgs, calls>>
  BY FaultType DEF IInv, Owns, Probe
<1>2. /\ inst' \in [Ids -> InstSet] /\ \A j \in Ids \ {i} : inst'[j] = inst[j]
      /\ inst'[i].attempt = inst[i].attempt /\ inst'[i].inflight = inst[i].inflight
      /\ inst'[i].claim = inst[i].claim
      /\ \/ inst'[i] = inst[i]
         \/ inst[i].state = "ready" /\ inst'[i].state = "unhealthy"
  BY <1>1 DEF Probe, Types, HandTypes, InstSet
<1>3. HandTypes' /\ HoldTypes'
  BY <1>1, <1>2 DEF upVars, Types, HandTypes, HoldTypes
<1>4. Leased(i)'
  BY <1>1, <1>2 DEF upVars, Own, Leased, Alive, Server
<1>5. Handed(i)' /\ Dated(i)'
  BY <1>1, <1>2 DEF upVars, Own, Handed, Dated, Alive
<1>6. Used(i)'
  BY <1>1, <1>2 DEF upVars, Own, Used, Past, Routed
<1>7. Joined(i)' /\ Tended(i)'
  BY <1>1, <1>2 DEF upVars, Own, Joined, Tended, Pending, CancelJob, Busy
<1>8. QED
  BY <1>1, <1>2, <1>3, <1>4, <1>5, <1>6, <1>7, OneStep DEF upVars, Own, Counted

\* The candidates of the probe are handed to jobs, each to one that has not looked
\* at the instance yet.
LEMMA ProbeEndStep ==
    ASSUME IInv, ProbeEnd
    PROVE  IInv'
<1>1. /\ Types /\ Room /\ Counted /\ Sited /\ Mail /\ Owns
      /\ UNCHANGED upVars /\ UNCHANGED <<inst, msgs, faults, calls>> /\ found' = {}
  BY DEF IInv, ProbeEnd
<1>2. ASSUME NEW i \in Ids
      PROVE  /\ upkeep'[i] \in {"none", "idle", "failed"}
             /\ \/ upkeep'[i] = upkeep[i] /\ (i \in found => upkeep[i] # "none")
                \/ upkeep[i] = "none" /\ upkeep'[i] = "failed"
             /\ stop'[i] \in [Workers -> StopSet]
             /\ \A v \in Workers \ {"shared"} : stop'[i][v] = stop[i][v]
             /\ \/ stop'[i]["shared"] = stop[i]["shared"]
                \/ stop[i]["shared"].pc = "idle" /\ stop'[i]["shared"].pc = "enter"
             /\ upkeep'[i] # upkeep[i] => stop'[i]["shared"].pc # "idle"
  <2> DEFINE r == [stop[i]["shared"] EXCEPT !.pc = "enter"]
             new == i \in found /\ upkeep[i] = "none" /\ stop[i]["shared"].pc = "idle"
  <2>1. r \in StopSet /\ r.pc = "enter"
    BY <1>1, Attempts, WorkerTypes DEF StopSet
  <2>2. stop[i] \in [Workers -> StopSet] /\ upkeep[i] \in {"none", "idle", "failed"}
    BY <1>1 DEF Types, HandTypes, HoldTypes
  <2>3. upkeep'[i] = IF i \in found /\ upkeep[i] = "none" THEN "failed" ELSE upkeep[i]
    BY DEF ProbeEnd
  <2>4. stop'[i] = IF new THEN [stop[i] EXCEPT !["shared"] = r] ELSE stop[i]
    BY <2>2 DEF ProbeEnd
  <2> HIDE DEF r
  <2>5. QED
    BY <2>1, <2>2, <2>3, <2>4, WorkerTypes
<1>3. /\ upkeep' \in [Ids -> {"none", "idle", "failed"}]
      /\ stop' \in [Ids -> [Workers -> StopSet]]
  <2>1. upkeep' = [i \in Ids |-> upkeep'[i]] /\ stop' = [i \in Ids |-> stop'[i]]
    BY DEF ProbeEnd
  <2>2. QED
    BY <1>2, <2>1
<1>4. Types' /\ Room' /\ Sited' /\ \A j \in Ids : Routed(j)' = Routed(j)
  BY <1>1, <1>3, RoomStays DEF upVars, Types, TaskTypes, HandTypes, HoldTypes, Sited, Routed
<1>5. Counted' /\ Mail'
  BY <1>1, <1>4, CountsStay, MailStays DEF upVars
<1>6. ASSUME NEW i \in Ids
      PROVE  Own(i)'
  <2>1. Own(i) /\ UNCHANGED <<inst, start, proc, leases, task>>
    BY <1>1 DEF Owns, upVars
  <2>2. ASSUME NEW v \in Workers, stop'[i][v].pc \in {"owner", "finalize", "wait"}
        PROVE  stop'[i][v] = stop[i][v]
    BY <1>2, <2>2
  <2>3. \A v \in Workers : stop'[i][v] = stop[i][v] \/ (stop[i][v].pc = "idle" /\ stop'[i][v].pc = "enter")
    BY <1>2
  <2>4. Leased(i)'
    BY <2>1 DEF Own, Leased, Alive, Server
  <2>5. Handed(i)' /\ Dated(i)'
    BY <2>1, <2>2 DEF Own, Handed, Dated, Alive
  <2>6. Used(i)'
    BY <1>2, <1>4, <2>1 DEF Own, Used, Past
  <2>7. Joined(i)'
    BY <1>2, <2>1, <2>3, WorkerTypes DEF Own, Joined, Pending, CancelJob
  <2>8. Tended(i)'
    <3>1. \A pcs : Busy(i, pcs) => Busy(i, pcs)' \/ "idle" \in pcs
      BY <2>3 DEF Busy
    <3>2. inst[i].state = "unhealthy" /\ i \in found => stop'[i]["shared"].pc = "enter"
      BY <1>2, <2>1 DEF Own, Joined
    <3>3. inst[i].state = "unhealthy" => Busy(i, {"enter"})'
      BY <2>1, <3>1, <3>2, WorkerTypes DEF Own, Tended, Busy
    <3>4. QED
      BY <2>1, <3>1, <3>3 DEF Own, Tended
  <2>9. QED
    BY <2>4, <2>5, <2>6, <2>7, <2>8 DEF Own
<1>7. QED
  BY <1>1, <1>4, <1>5, <1>6 DEF IInv, Owns

\* An id is used for a start, automatic or of a user.
LEMMA BegunStep ==
    ASSUME IInv, NEW i \in Ids, NEW b \in BOOLEAN, Free(i), Begun(i, b), auto' \subseteq Ids,
           calls' \in 0..MaxCalls,
           UNCHANGED <<task, demand, limit, inst, gen, proc, leases, stop, asks, upkeep, found, faults>>
    PROVE  IInv'
<1> DEFINE r == [NoStart EXCEPT !.pc = "sent", !.auto = b]
<1>1. /\ Types /\ Mail /\ Sited /\ Counted /\ Own(i) /\ start[i].pc = "none" /\ inst[i].state = "none"
      /\ \A w \in Workers : stop[i][w].pc = "idle"
      /\ upkeep[i] = "none"
  BY DEF IInv, Owns, Free
<1>2. r \in StartSet /\ r.pc = "sent" /\ r.attempt = 1 /\ ~r.again
  BY SentEntry
<1>3. /\ start' = [start EXCEPT ![i] = r] /\ msgs' = Append(msgs, Message("start", i))
      /\ cancelled' \subseteq Ids
  BY <1>1 DEF Begun, Types, HoldTypes
<1> HIDE DEF r
<1>4. /\ start' \in [Ids -> StartSet] /\ start'[i] = r
      /\ \A j \in Ids \ {i} : start'[j] = start[j]
  BY <1>1, <1>2, <1>3 DEF Types, HandTypes
<1>5. Mail'
  BY <1>1, <1>2, <1>3, <1>4, AppendMail
<1>6. /\ TaskTypes' /\ HandTypes' /\ HoldTypes' /\ Room' /\ Sited'
      /\ \A j \in Ids : Routed(j)' = Routed(j)
  BY <1>1, <1>3, <1>4, RoomStays DEF IInv, Types, TaskTypes, HoldTypes, HandTypes, Sited, Routed
<1>7. Routed(i) = {}
  BY DEF Free, Routed
<1>8. Leased(i)' /\ Handed(i)' /\ Dated(i)'
  BY <1>1, <1>2, <1>4, <1>7 DEF Own, Leased, Handed, Dated, Alive, Server, Placed
<1>9. Used(i)'
  BY <1>1, <1>2, <1>4, <1>6, <1>7 DEF Own, Used
<1>10. Joined(i)' /\ Tended(i)'
  BY <1>1, <1>2, <1>4, <1>7, WorkerTypes DEF Own, Joined, Tended, CancelJob, Pending
<1>11. QED
  BY <1>1, <1>2, <1>4, <1>5, <1>6, <1>8, <1>9, <1>10, WideStep DEF Own

\* Starts that are asked for, and requests to stop.
LEMMA AskingSteps ==
    ASSUME IInv,
           \/ \E m \in Models : ScaleOut(m)
           \/ \E i \in Ids : StartInstance(i) \/ StopInstance(i)
    PROVE  IInv'
<1>1. Types /\ Mail /\ calls \in 0..MaxCalls /\ auto \subseteq Ids /\ MaxCalls \in Nat
  BY ModelAssumption DEF IInv, Types, HoldTypes
<1>2. ASSUME NEW m \in Models, ScaleOut(m)
      PROVE  IInv'
  <2>1. PICK i \in Ids : Free(i) /\ Begun(i, TRUE) /\ auto' = auto \cup {i}
    BY <1>2 DEF ScaleOut
  <2>2. QED
    BY <1>1, <1>2, <2>1, BegunStep DEF ScaleOut
<1>3. ASSUME NEW i \in Ids, StartInstance(i)
      PROVE  IInv'
  <2>1. calls' \in 0..MaxCalls
    BY <1>1, <1>3 DEF StartInstance
  <2>2. QED
    BY <1>1, <1>3, <2>1, BegunStep DEF StartInstance
<1>4. ASSUME NEW i \in Ids, StopInstance(i)
      PROVE  IInv'
  <2> DEFINE m == Message("stop", i)
  <2>1. calls' \in 0..MaxCalls /\ msgs' = Append(msgs, m)
    BY <1>1, <1>4 DEF StopInstance
  <2>2. m \in Others
    BY DEF Message, Others
  <2>3. msgs \in Seq(MsgSet) /\ Others \subseteq MsgSet
    BY <1>1 DEF Mail, MsgSet, Others
  <2> HIDE DEF m
  <2>4. <<m>> \in Seq(Others) /\ msgs' = msgs \o <<m>>
    BY <2>1, <2>2, <2>3
  <2>5. Mail'
    BY <1>1, <1>4, <2>4, MailMore DEF StopInstance
  <2>6. /\ TaskTypes' /\ HandTypes' /\ HoldTypes' /\ Room' /\ Sited'
        /\ \A j \in Ids : Routed(j)' = Routed(j)
    BY <1>1, <1>4, <2>1, RoomStays
    DEF StopInstance, IInv, Types, TaskTypes, HoldTypes, HandTypes, Sited, Routed
  <2>7. Own(i)'
    BY <1>4, <2>6, OwnStays DEF StopInstance, IInv, Owns, Still, Server
  <2>8. QED
    BY <1>4, <2>5, <2>6, <2>7, WideStep DEF StopInstance, IInv, Counted
<1>5. QED
  BY <1>2, <1>3, <1>4
-------------------------------------------------------------------------------
(* Tasks that ran out of memory, and the theorems. *)

\* A task that ran out of memory gives its route back; the last one of an instance
\* has it replaced.
LEMMA RunOutOfMemoryStep ==
    ASSUME IInv, NEW t \in Tasks, RunOutOfMemory(t)
    PROVE  IInv'
<1> DEFINE m == task[t].model
<1>1. /\ Types /\ Room /\ Counted /\ Sited /\ Mail /\ Owns
      /\ task \in [Tasks -> TaskSet] /\ task[t].place = "routed" /\ m \in Models
      /\ UNCHANGED <<auto, cancelled, gen, proc, leases, start, asks, upkeep, found, calls>>
  BY DEF IInv, Types, TaskTypes, TaskSet, RunOutOfMemory
<1>2. PICK i \in Ids : i = task[t].on
  BY <1>1 DEF Sited
<1>3. faults' \in 0..MaxFaults
  <2>1. Fault(task[t].on)
    BY DEF RunOutOfMemory
  <2>2. QED
    BY <1>1, <2>1, FaultType
<1>4. /\ Released(i) \in [Ids -> InstSet]
      /\ \A j \in Ids : /\ Released(i)[j].state = inst[j].state
                        /\ Released(i)[j].claim = inst[j].claim
                        /\ Released(i)[j].attempt = inst[j].attempt
                        /\ j # i => Released(i)[j] = inst[j]
  BY <1>1, ReleasedInst
<1>5. PICK place \in {"done", "admission", "recovering"} :
         /\ \/ /\ place = "done" /\ task' = [Woken(m) EXCEPT ![t] = Done(t)] /\ ClearDemand({t})
            \/ /\ place # "done" /\ task' = [Woken(m) EXCEPT ![t].place = place]
               /\ UNCHANGED <<demand, msgs>>
         /\ \/ inst' = Released(i) /\ stop' = stop
            \/ /\ inst[i].state = "ready" /\ Released(i)[i].inflight = 0
               /\ inst' = [Released(i) EXCEPT ![i].state = "draining"]
               /\ stop' = [stop EXCEPT ![i]["recovery"].pc = "enter"]
         /\ \/ limit' = limit
            \/ limit' = [limit EXCEPT ![m] = 1]
  BY <1>2 DEF RunOutOfMemory
<1>6. /\ Woken(m) \in [Tasks -> TaskSet]
      /\ \A u \in Tasks : /\ Woken(m)[u].on = task[u].on
                          /\ \/ Woken(m)[u] = task[u]
                             \/ task[u].place = "waiting" /\ Woken(m)[u].place = "ready"
  BY <1>1, WokenTasks
<1>7. /\ task' \in [Tasks -> TaskSet] /\ task'[t].place = place
      /\ place # "done" => task'[t].on = i
      /\ \A u \in Tasks \ {t} : /\ task'[u].on = task[u].on
                                /\ \/ task'[u] = task[u]
                                   \/ task[u].place = "waiting" /\ task'[u].place = "ready"
  <2>1. CASE place = "done"
    BY <1>1, <1>5, <1>6, <2>1, DoneTask
  <2>2. CASE place # "done"
    <3>1. task' = [Woken(m) EXCEPT ![t].place = place]
      BY <1>5, <2>2
    <3>2. Woken(m)[t].on = i /\ Woken(m)[t] \in TaskSet
      BY <1>2, <1>6
    <3> HIDE DEF m
    <3>3. task' \in [Tasks -> TaskSet] /\ task'[t].place = place /\ task'[t].on = Woken(m)[t].on
      BY <1>6, <3>1, <3>2 DEF TaskSet
    <3>4. \A u \in Tasks \ {t} : task'[u] = Woken(m)[u]
      BY <1>6, <3>1
    <3>5. QED
      BY <1>6, <2>2, <3>2, <3>3, <3>4
  <2>3. QED
    BY <2>1, <2>2
<1>8. Mail' /\ demand' \subseteq Tasks
  <2>1. CASE ClearDemand({t})
    BY <1>1, <2>1, ClearDemandMail
  <2>2. CASE UNCHANGED <<demand, msgs>>
    BY <1>1, <2>2, MailStays DEF Types, TaskTypes
  <2>3. QED
    BY <1>5, <2>1, <2>2
<1>9. TaskTypes' /\ Sited'
  <2>1. limit' \in [Models -> 1..MaxRequests]
    <3>1. 1 \in 1..MaxRequests
      BY ModelAssumption
    <3>2. QED
      BY <1>1, <1>5, <3>1 DEF Types, TaskTypes
  <2>2. TaskTypes'
    BY <1>7, <1>8, <2>1 DEF TaskTypes
  <2>3. Sited'
    BY <1>1, <1>7 DEF Sited
  <2>4. QED
    BY <2>2, <2>3
<1>10. CASE inst' = Released(i) /\ stop' = stop
  <2>1. \A j \in Ids : /\ inst'[j].inflight = Released(task[t].on)[j].inflight
                       /\ inst'[j].state = "none" <=> inst[j].state = "none"
    BY <1>2, <1>4, <1>10
  <2>2. Counted' /\ \A j \in Ids : Routed(j)' \subseteq Routed(j)
    BY <1>1, <1>2, <1>7, <2>1, CountsLess
  <2>3. QED
    BY <1>1, <1>3, <1>4, <1>8, <1>9, <1>10, <2>2, TaskStep DEF Types, HoldTypes
<1>11. CASE /\ inst[i].state = "ready" /\ inst' = [Released(i) EXCEPT ![i].state = "draining"]
            /\ stop' = [stop EXCEPT ![i]["recovery"].pc = "enter"]
  <2>1. /\ inst' \in [Ids -> InstSet] /\ \A j \in Ids \ {i} : inst'[j] = inst[j]
        /\ inst'[i].state = "draining" /\ inst'[i].claim = inst[i].claim
        /\ inst'[i].attempt = inst[i].attempt /\ inst'[i].inflight = Released(i)[i].inflight
    BY <1>4, <1>11 DEF InstSet
  <2>2. /\ stop' \in [Ids -> [Workers -> StopSet]]
        /\ stop'[i]["recovery"].pc = "enter"
        /\ \A v \in Workers \ {"recovery"} : stop'[i][v] = stop[i][v]
        /\ \A j \in Ids \ {i} : stop'[j] = stop[j]
    BY <1>1, <1>11, OneCall, WorkerTypes
  <2>3. Counted' /\ \A j \in Ids : Routed(j)' \subseteq Routed(j)
    <3>1. \A j \in Ids : /\ inst'[j].inflight = Released(task[t].on)[j].inflight
                         /\ inst'[j].state = "none" <=> inst[j].state = "none"
      BY <1>2, <1>4, <1>11, <2>1
    <3>2. QED
      BY <1>1, <1>2, <1>7, <3>1, CountsLess
  <2>4. Types' /\ Room'
    BY <1>1, <1>3, <1>9, <2>1, <2>2, RoomStays DEF Types, HandTypes, HoldTypes
  <2>5. Own(i) /\ UNCHANGED <<start, proc, leases, upkeep>>
    BY <1>1 DEF Owns
  <2>6. Leased(i)'
    BY <1>11, <2>1, <2>5 DEF Own, Leased, Alive, Server
  <2>7. Handed(i)' /\ Dated(i)'
    <3>1. ASSUME NEW v \in Workers, stop'[i][v].pc \in {"owner", "finalize", "wait"}
          PROVE  stop'[i][v] = stop[i][v]
      BY <2>2, <3>1
    <3>2. QED
      BY <1>11, <2>1, <2>5, <3>1 DEF Own, Handed, Dated, Alive
  <2>8. Used(i)'
    BY <1>11, <2>1, <2>3, <2>5 DEF Own, Used, Past
  <2>9. Joined(i)'
    BY <1>11, <2>1, <2>2, <2>5, WorkerTypes DEF Own, Leased, Joined, Pending, CancelJob, Early
  <2>10. Tended(i)'
    BY <2>1, <2>2, WorkerTypes DEF Tended, Busy
  <2>11. \A j \in Ids \ {i} : Still(j)
    BY <1>1, <2>1, <2>2, <2>3 DEF Still, Server
  <2>12. QED
    BY <1>1, <1>8, <1>9, <2>3, <2>4, <2>6, <2>7, <2>8, <2>9, <2>10, <2>11, OwnsStep DEF IInv, Own
<1>12. QED
  BY <1>5, <1>10, <1>11

\* It is tried again, or fails.
LEMMA RecoveredStep ==
    ASSUME IInv, NEW t \in Tasks, Recovered(t)
    PROVE  IInv'
<1>1. /\ Types /\ Sited /\ Mail /\ task \in [Tasks -> TaskSet]
      /\ task[t].place \in {"recovering", "admission"}
      /\ UNCHANGED <<limit, inst, auto, cancelled, gen, proc, leases, start, asks, upkeep, found,
                     faults, calls>>
  BY DEF IInv, Types, TaskTypes, Recovered
<1>2. PICK i \in Ids : i = task[t].on
  BY <1>1 DEF Sited
<1>3. /\ \/ /\ task' = [task EXCEPT ![t].place = "ready", ![t].on = NoId]
            /\ UNCHANGED <<demand, msgs>>
         \/ task' = [task EXCEPT ![t] = Done(t)] /\ ClearDemand({t})
      /\ \/ stop' = stop
         \/ /\ stop[i]["recovery"].pc \in {"ok", "failed"}
            /\ stop' = [stop EXCEPT ![i]["recovery"] = NoStop]
  BY <1>2 DEF Recovered, Over
<1>4. Mail' /\ demand' \subseteq Tasks
  <2>1. CASE ClearDemand({t})
    BY <1>1, <2>1, ClearDemandMail
  <2>2. CASE UNCHANGED <<demand, msgs>>
    BY <1>1, <2>2, MailStays DEF Types, TaskTypes
  <2>3. QED
    BY <1>3, <2>1, <2>2
<1>5. /\ task' \in [Tasks -> TaskSet] /\ task'[t].place \in {"ready", "done"}
      /\ \A u \in Tasks \ {t} : task'[u] = task[u]
  <2>1. CASE task' = [task EXCEPT ![t].place = "ready", ![t].on = NoId]
    BY <1>1, <2>1 DEF TaskSet
  <2>2. CASE task' = [task EXCEPT ![t] = Done(t)]
    BY <1>1, <2>2, DoneTask
  <2>3. QED
    BY <1>3, <2>1, <2>2
<1>6. TaskTypes' /\ Sited' /\ \A j \in Ids : Routed(j)' = Routed(j)
  BY <1>1, <1>4, <1>5 DEF Types, TaskTypes, Sited, Routed
<1>7. CASE stop' = stop
  <2>1. Counted'
    BY <1>1, <1>6 DEF IInv, Counted
  <2>2. QED
    BY <1>1, <1>4, <1>6, <1>7, <2>1, TaskStep DEF Types, HandTypes, HoldTypes
<1>8. CASE /\ stop[i]["recovery"].pc \in {"ok", "failed"}
           /\ stop' = [stop EXCEPT ![i]["recovery"] = NoStop]
  <2>1. asks' \in [Ids -> SUBSET Jobs]
    BY <1>1 DEF Types, HoldTypes
  <2>2. QED
    BY <1>1, <1>4, <1>6, <1>8, <2>1, WorkerDrained
<1>9. QED
  BY <1>3, <1>7, <1>8

\* Every step keeps the invariant.
LEMMA NextInv == IInv /\ [Next]_vars => IInv'
<1> SUFFICES ASSUME IInv, [Next]_vars
             PROVE  IInv'
  OBVIOUS
<1>1. ASSUME NEW t \in Tasks,
             Route(t) \/ EndTask(t) \/ StopWorkflow(t) \/ RunOutOfMemory(t) \/ Recovered(t)
      PROVE  IInv'
  BY <1>1, RouteStep, EndTaskStep, StopWorkflowStep, RunOutOfMemoryStep, RecoveredStep
<1>2. ASSUME NEW i \in Ids, StopStep(i) \/ StartStep(i) \/ CreationStep(i) \/ LateKill(i)
      PROVE  IInv'
  BY <1>2, StopSteps, StartSteps, CreationSteps
<1>3. ASSUME NEW i \in Ids, Deferred(i) \/ StartInstance(i) \/ StopInstance(i)
      PROVE  IInv'
  BY <1>3, PlacingSteps, AskingSteps
<1>4. ASSUME NEW i \in Ids, Drain(i) \/ DrainUpkeep(i)
      PROVE  IInv'
  BY <1>4, DrainStartSteps, DrainRetryStep, DrainJobSteps DEF Drain
<1>5. ASSUME NEW i \in Ids, ClaimIdle(i) \/ ServerExits(i) \/ Probe(i)
      PROVE  IInv'
  BY <1>5, ClaimIdleStep, ServerExitsStep, ProbeStep
<1>6. ASSUME NEW m \in Models, ScaleOut(m)
      PROVE  IInv'
  BY <1>6, AskingSteps
<1>7. CASE Queue
  BY <1>7, PlacingSteps, StoppingSteps DEF Queue
<1>8. CASE ProbeEnd
  BY <1>8, ProbeEndStep
<1>9. CASE UNCHANGED vars
  BY <1>9 DEF vars, IInv, Types, TaskTypes, HoldTypes, HandTypes, Room, SlotIds, Counted, Routed, Sited,
     Mail, Owns, Own, Leased, Handed, Dated, Used, Joined, Tended, Server, Alive, Past, Pending,
     CancelJob, Busy
<1>10. QED
  BY <1>1, <1>2, <1>3, <1>4, <1>5, <1>6, <1>7, <1>8, <1>9 DEF Next, Probing

\* The invariant holds throughout.
THEOREM Invariance == Spec => []IInv
<1>1. Init => IInv
  BY InitInv
<1>2. IInv /\ [Next]_vars => IInv'
  BY NextInv
<1>3. QED
  BY <1>1, <1>2, PTL DEF Spec

\* Type correctness: among it, no more leases than GPUs and no more slots than the
\* killer has, and every instance counts the requests that are routed to it.
THEOREM TypeCorrect == Spec => []TypeOK
<1>1. IInv => TypeOK
  BY TypeParts DEF IInv
<1>2. QED
  BY <1>1, Invariance, PTL

\* A server that may still run holds the lease of its GPU, whichever of the threads
\* that stop, roll back and finalize the instance gives the lease back.
THEOREM ServerStaysLeased == Spec => []ServerLeased
<1>1. IInv => ServerLeased
  <2> SUFFICES ASSUME IInv, NEW i \in Ids, Server(i)
               PROVE  \E a \in {1, 2} : <<i, a>> \in leases
    BY DEF ServerLeased
  <2>1. <<i, inst[i].attempt>> \in leases
    BY DEF IInv, Owns, Own, Leased
  <2>2. leases \subseteq Ids \X {1, 2}
    BY DEF IInv, Types, HoldTypes
  <2>3. inst[i].attempt \in {1, 2}
    BY <2>1, <2>2
  <2>4. QED
    BY <2>1, <2>3
<1>2. QED
  BY <1>1, Invariance, PTL

\* What is stopped for being idle serves no task.
THEOREM InUseStaysKept == Spec => []InUseKept
<1>1. IInv => InUseKept
  BY DEF IInv, Owns, Own, Used, Routed, InUseKept
<1>2. QED
  BY <1>1, Invariance, PTL

\* An instance out of routing is in the hands of a thread or of the next probe.
THEOREM NeverAbandoned == Spec => []NoneAbandoned
<1>1. IInv => NoneAbandoned
  <2> SUFFICES ASSUME IInv, NEW i \in Ids
               PROVE  CASE inst[i].state = "stopping" ->
                             IF inst[i].claim THEN Busy(i, {"enter"}) ELSE Busy(i, {"owner"})
                        [] inst[i].state = "unhealthy" -> Busy(i, {"enter"}) \/ i \in found
                        [] inst[i].state = "draining" -> Busy(i, {"enter"})
                        [] inst[i].state = "stopped" ->
                             Busy(i, {"finalize"}) \/ start[i].pc \in {"undo", "rollback"}
                        [] inst[i].state = "launching" -> start[i].pc \in {"launch", "verify", "undo"}
                        [] OTHER -> TRUE
    BY DEF NoneAbandoned
  <2>1. Tended(i)
    BY DEF IInv, Owns, Own
  <2>2. QED
    BY <2>1 DEF Tended
<1>2. QED
  BY <1>1, Invariance, PTL

-------------------------------------------------------------------------------
(* Actors that come too late. *)

\* A generation exists before the actor is registered and not in between two
\* attempts; while it may still make an actor, and while that lives, it has its slot;
\* the one that is current has a start, and no killer.
Waiting == {"sent", "deferred", "queued"}
Making  == {"submit", "attach", "await"}
Late(i) ==
    /\ inst[i].state # "none" \/ start[i].again \/ start[i].pc \in Waiting => gen[i] = NoGen
    /\ inst[i].state = "stopped" => proc[i] # "actor"
    /\ proc[i] = "actor" /\ inst[i].state = "none" => gen[i].slot /\ gen[i].creation = "made"
    /\ gen[i].current => gen[i].slot /\ start[i].pc \in Making
    /\ gen[i].creation \in {"queued", "running"} => gen[i].slot
    /\ start[i].pc = "submit" => gen[i].creation = "none"
    /\ gen[i].kill # "none" \/ gen[i].called => gen[i].creation = "made"
    /\ gen[i].kill # "none" => ~gen[i].current
LInv == \A i \in Ids : Late(i)

\* A step that leaves the generation of an instance as it is.
Calm(i) ==
    /\ gen'[i] = gen[i]
    /\ proc'[i] = "actor" => proc[i] = "actor"
    /\ inst'[i].state # "none" => inst[i].state # "none"
    /\ inst'[i].state = "none" => inst[i].state \in {"none", "stopped"}
    /\ inst'[i].state = "stopped" => inst[i].state = "stopped" \/ proc'[i] # "actor"
    /\ start'[i].again => start[i].again \/ inst[i].state # "none"
    /\ start'[i].pc \in Waiting => start[i].pc \in Waiting \/ gen[i] = NoGen
    /\ start'[i].pc = start[i].pc \/ (start[i].pc \notin Making /\ start'[i].pc # "submit")

\* It keeps what Late says.
LEMMA LateStays ==
    ASSUME NEW i, Late(i), Calm(i)
    PROVE  Late(i)'
BY DEF Late, Calm, Waiting, Making

\* A step of one instance.
LEMMA LateStep ==
    ASSUME LInv, NEW i \in Ids, Late(i)', \A j \in Ids \ {i} : Calm(j)
    PROVE  LInv'
<1>1. ASSUME NEW j \in Ids
      PROVE  Late(j)'
  BY <1>1, LateStays DEF LInv
<1>2. QED
  BY <1>1 DEF LInv

\* One that leaves all generations.
LEMMA CalmStep ==
    ASSUME LInv, \A j \in Ids : Calm(j)
    PROVE  LInv'
BY LateStays DEF LInv

\* At first nothing is made.
LEMMA InitLate == Init => LInv
BY DEF Init, LInv, Late, NoGen, NoInst, NoStart, Waiting, Making

\* Making an actor, and killing one.
LEMMA LateCreation ==
    ASSUME IInv, LInv, NEW i \in Ids, CreationStep(i) \/ LateKill(i)
    PROVE  LInv'
<1> DEFINE g == gen[i]
<1>1. /\ g \in GenSet /\ gen \in [Ids -> GenSet] /\ Late(i) /\ UNCHANGED <<inst, start>>
      /\ proc \in [Ids -> {"none", "actor", "server", "exited", "left"}]
  BY DEF IInv, Types, HandTypes, HoldTypes, LInv, CreationStep, CreateBegin, CreateEnd, CreationFinished,
     LateKill, createVars
<1>2. ASSUME NEW h, gen' = [gen EXCEPT ![i] = h], \A j \in Ids \ {i} : proc'[j] = proc[j]
      PROVE  gen'[i] = h /\ \A j \in Ids \ {i} : Calm(j)
  BY <1>1, <1>2 DEF Calm
<1>3. CASE CreateBegin(i)
  <2>1. gen' = [gen EXCEPT ![i] = [g EXCEPT !.creation = "running"]] /\ proc' = proc /\ g.creation = "queued"
    BY <1>3 DEF CreateBegin
  <2>2. gen'[i] = [g EXCEPT !.creation = "running"] /\ \A j \in Ids \ {i} : Calm(j)
    BY <1>2, <2>1
  <2>3. Late(i)'
    BY <1>1, <2>1, <2>2 DEF Late, GenSet, NoGen
  <2>4. QED
    BY <2>2, <2>3, LateStep
<1>4. CASE CreateEnd(i)
  <2>1. /\ g.creation = "running" /\ g.slot /\ inst[i].state = "none"
        /\ start[i].pc \notin Waiting /\ ~start[i].again /\ start[i].pc # "submit"
    BY <1>1, <1>4 DEF CreateEnd, Late, NoGen
  <2>2. PICK c \in {"made", "failed"} :
               /\ gen' = [gen EXCEPT ![i] = [g EXCEPT !.creation = c]]
               /\ c = "failed" => proc' = proc
               /\ proc' = proc \/ proc' = [proc EXCEPT ![i] = "actor"]
    BY <1>4 DEF CreateEnd
  <2>3. \A j \in Ids \ {i} : proc'[j] = proc[j]
    BY <1>1, <2>2
  <2>4. /\ gen'[i].slot = g.slot /\ gen'[i].creation = c /\ gen'[i].current = g.current
        /\ gen'[i].kill = g.kill /\ gen'[i].called = g.called
    BY <1>1, <2>2 DEF GenSet
  <2>5. Late(i)'
    BY <1>1, <2>1, <2>2, <2>4 DEF Late
  <2>6. QED
    BY <1>2, <2>2, <2>3, <2>5, LateStep
<1>5. CASE CreationFinished(i)
  <2> DEFINE h == [g EXCEPT !.called = TRUE]
  <2>1. /\ proc' = proc /\ g.creation \in {"made", "failed"}
        /\ gen' = [gen EXCEPT ![i] = IF h.creation = "failed" THEN NoGen
                                     ELSE IF h.current THEN h ELSE Settled(KillLater(h))]
    BY <1>5 DEF CreationFinished
  <2>2. Late(i)'
    BY <1>1, <1>2, <2>1 DEF Late, GenSet, NoGen, Settled, KillLater
  <2>3. QED
    BY <1>2, <2>1, <2>2, LateStep
<1>6. CASE LateKill(i)
  <2>1. /\ proc' = [proc EXCEPT ![i] = "none"] /\ g.kill = "pending"
        /\ gen' = [gen EXCEPT ![i] = Settled([g EXCEPT !.kill = "done", !.slot = FALSE])]
    BY <1>6 DEF LateKill
  <2>2. Late(i)'
    BY <1>1, <1>2, <2>1 DEF Late, GenSet, NoGen, Settled
  <2>3. QED
    BY <1>1, <1>2, <2>1, <2>2, LateStep
<1>7. QED
  BY <1>3, <1>4, <1>5, <1>6 DEF CreationStep

\* A start that gets its actor, or gives up.
LEMMA LateAwait ==
    ASSUME IInv, LInv, NEW i \in Ids,
           Admit(i) \/ SubmitCreation(i) \/ Attach(i) \/ AwaitTimeout(i) \/ AwaitOver(i)
    PROVE  LInv'
<1> DEFINE g == gen[i]
<1>1. /\ Types /\ g \in GenSet /\ gen \in [Ids -> GenSet] /\ Late(i) /\ proc' = proc
      /\ start[i].pc \in Placed /\ inst[i].state = "none" /\ ~start[i].again
  BY DEF IInv, Types, HandTypes, Owns, Own, Leased, Used, LInv, Admit, SubmitCreation, Attach,
     AwaitTimeout, AwaitOver, Placed, Early
<1>2. ASSUME NEW h, NEW pc \in Placed \cup {"launch", "rollback"}, gen' = [gen EXCEPT ![i] = h],
             start' = [start EXCEPT ![i].pc = pc], \A j \in Ids \ {i} : inst'[j] = inst[j]
      PROVE  /\ gen'[i] = h /\ start'[i].pc = pc /\ ~start'[i].again
             /\ \A j \in Ids \ {i} : Calm(j)
  <2>1. /\ start'[i].pc = pc /\ start'[i].again = start[i].again
        /\ \A j \in Ids \ {i} : start'[j] = start[j]
    BY <1>1, <1>2, OnePlace DEF Placed
  <2>2. QED
    BY <1>1, <1>2, <2>1 DEF Calm
<1>3. CASE Admit(i)
  <2>1. start[i].pc = "queued" /\ g = NoGen /\ inst' = inst
    BY <1>1, <1>3 DEF Admit, Late, Waiting
  <2>2. CASE start' = [start EXCEPT ![i].pc = "rollback"] /\ gen' = gen
    <3>1. gen' = [gen EXCEPT ![i] = NoGen]
      BY <1>1, <2>1, <2>2
    <3>2. /\ gen'[i] = NoGen /\ start'[i].pc = "rollback" /\ ~start'[i].again
          /\ \A j \in Ids \ {i} : Calm(j)
      BY <1>2, <2>1, <2>2, <3>1
    <3>3. Late(i)'
      BY <1>1, <2>1, <3>2 DEF Late, NoGen, Waiting
    <3>4. QED
      BY <3>2, <3>3, LateStep
  <2>3. CASE /\ start' = [start EXCEPT ![i].pc = "submit"]
             /\ gen' = [gen EXCEPT ![i] = [NoGen EXCEPT !.current = TRUE, !.slot = TRUE]]
    BY <1>1, <1>2, <2>1, <2>3, LateStep DEF Late, NoGen, Waiting, Making, Placed
  <2>4. QED
    BY <1>3, <2>2, <2>3 DEF Admit, To
<1>4. CASE SubmitCreation(i)
  <2>1. start[i].pc = "submit" /\ g.creation = "none" /\ g.kill = "none" /\ ~g.called /\ inst' = inst
    BY <1>1, <1>4 DEF SubmitCreation, Late
  <2>2. PICK h \in GenSet, pc \in {"attach", "rollback"} :
               /\ start' = [start EXCEPT ![i].pc = pc] /\ gen' = [gen EXCEPT ![i] = h]
               /\ \/ g.current /\ pc = "attach" /\ h = [g EXCEPT !.creation = "queued"]
                  \/ pc = "rollback" /\ h = NoGen
                  \/ pc = "rollback" /\ h = g /\ ~g.current
    <3>1. [g EXCEPT !.creation = "queued"] \in GenSet /\ NoGen \in GenSet
      BY <1>1 DEF GenSet, NoGen
    <3>2. gen = [gen EXCEPT ![i] = g]
      BY <1>1
    <3>3. \/ g.current /\ gen' = [gen EXCEPT ![i].creation = "queued"] /\ To(i, "attach")
          \/ gen' = [gen EXCEPT ![i] = NoGen] /\ To(i, "rollback")
          \/ ~g.current /\ gen' = gen /\ To(i, "rollback")
      BY <1>4 DEF SubmitCreation
    <3>4. QED
      BY <1>1, <3>1, <3>2, <3>3 DEF To
  <2>3. /\ gen'[i] = h /\ start'[i].pc = pc /\ ~start'[i].again /\ \A j \in Ids \ {i} : Calm(j)
    BY <1>2, <2>1, <2>2 DEF Placed
  <2>4. Late(i)'
    BY <1>1, <2>1, <2>2, <2>3 DEF Late, GenSet, NoGen, Waiting, Making
  <2>5. QED
    BY <2>3, <2>4, LateStep
<1>5. CASE Attach(i)
  <2> DEFINE h == IF ~g.current /\ g.creation = "queued" THEN NoGen ELSE [g EXCEPT !.future = TRUE]
  <2>1. /\ inst' = inst /\ gen' = [gen EXCEPT ![i] = h] /\ start' = [start EXCEPT ![i].pc = "await"]
    BY <1>1, <1>5 DEF Attach, To
  <2>2. /\ gen'[i] = h /\ start'[i].pc = "await" /\ ~start'[i].again /\ \A j \in Ids \ {i} : Calm(j)
    BY <1>2, <2>1 DEF Placed
  <2>3. Late(i)'
    BY <1>1, <2>1, <2>2 DEF Late, GenSet, NoGen, Waiting, Making
  <2>4. QED
    BY <2>2, <2>3, LateStep
<1>6. CASE AwaitTimeout(i)
  <2> DEFINE v == Invalidated(i)
             h == IF v.creation = "made" THEN KillLater(v) ELSE v
  <2>1. /\ inst' = inst /\ gen' = [gen EXCEPT ![i] = h] /\ start' = [start EXCEPT ![i].pc = "rollback"]
        /\ g.current
    BY <1>1, <1>6 DEF AwaitTimeout, To
  <2>2. /\ gen'[i] = h /\ start'[i].pc = "rollback" /\ ~start'[i].again /\ \A j \in Ids \ {i} : Calm(j)
    BY <1>2, <2>1 DEF Placed
  <2>3. Late(i)'
    BY <1>1, <2>1, <2>2 DEF Late, GenSet, NoGen, Waiting, Making, Invalidated, KillLater
  <2>4. QED
    BY <2>2, <2>3, LateStep
<1>7. CASE AwaitOver(i)
  <2>1. \/ /\ gen' = [gen EXCEPT ![i] = NoGen] /\ start' = [start EXCEPT ![i].pc = "launch"]
           /\ inst' = [inst EXCEPT ![i] = [NoInst EXCEPT !.state = "launching",
                                                         !.attempt = start[i].attempt]]
        \/ /\ gen' = [gen EXCEPT ![i] = IF g.creation = "made"
                                        THEN Settled(KillLater([g EXCEPT !.current = FALSE])) ELSE g]
           /\ start' = [start EXCEPT ![i].pc = "rollback"] /\ inst' = inst
    BY <1>7 DEF AwaitOver, To
  <2>2. (g.called \/ ~g.current) /\ start[i].pc = "await"
    BY <1>7 DEF AwaitOver
  <2>3. CASE inst' = [inst EXCEPT ![i] = [NoInst EXCEPT !.state = "launching",
                                                         !.attempt = start[i].attempt]]
    <3>1. inst'[i].state = "launching" /\ \A j \in Ids \ {i} : inst'[j] = inst[j]
      BY <1>1, <2>3 DEF NoInst, Types, HandTypes
    <3>2. gen' = [gen EXCEPT ![i] = NoGen] /\ start' = [start EXCEPT ![i].pc = "launch"]
      BY <1>1, <2>1, <3>1
    <3>3. gen'[i] = NoGen /\ start'[i].pc = "launch" /\ ~start'[i].again /\ \A j \in Ids \ {i} : Calm(j)
      BY <1>2, <3>1, <3>2 DEF Placed
    <3>4. Late(i)'
      BY <3>1, <3>3 DEF Late, NoGen, Waiting
    <3>5. QED
      BY <3>3, <3>4, LateStep
  <2>4. CASE inst' = inst
    <3> DEFINE h == IF g.creation = "made" THEN Settled(KillLater([g EXCEPT !.current = FALSE])) ELSE g
    <3>1. gen' = [gen EXCEPT ![i] = h] /\ start' = [start EXCEPT ![i].pc = "rollback"]
      <4>1. inst # [inst EXCEPT ![i] = [NoInst EXCEPT !.state = "launching",
                                                         !.attempt = start[i].attempt]]
        BY <1>1 DEF NoInst, Types, HandTypes
      <4>2. QED
        BY <2>1, <2>4, <4>1
    <3>2. gen'[i] = h /\ start'[i].pc = "rollback" /\ ~start'[i].again /\ \A j \in Ids \ {i} : Calm(j)
      BY <1>2, <2>4, <3>1 DEF Placed
    <3>3. Late(i)'
      BY <1>1, <2>2, <2>4, <3>2 DEF Late, GenSet, NoGen, Waiting, Making, Settled, KillLater
    <3>4. QED
      BY <3>2, <3>3, LateStep
  <2>5. QED
    BY <2>1, <2>3, <2>4
<1>8. QED
  BY <1>3, <1>4, <1>5, <1>6, <1>7

\* The threads that stop an instance.
LEMMA LateStops ==
    ASSUME IInv, LInv, NEW i \in Ids, StopStep(i)
    PROVE  LInv'
<1>1. /\ inst \in [Ids -> InstSet] /\ Late(i) /\ UNCHANGED <<gen, start>>
      /\ proc \in [Ids -> {"none", "actor", "server", "exited", "left"}]
  BY DEF IInv, Types, HandTypes, HoldTypes, LInv, StopStep, Enter, Stopped, StopFails, WaitOver, Finalize,
     stopVars
<1>2. PICK w \in Workers :
         Enter(i, w) \/ Stopped(i, w) \/ StopFails(i, w) \/ WaitOver(i, w) \/ Finalize(i, w)
  BY DEF StopStep
<1>3. CASE Enter(i, w)
  <2>1. /\ proc' = proc
        /\ \/ inst' = inst
           \/ /\ Takes(i)
              /\ inst' = [inst EXCEPT ![i].state = "stopping", ![i].claim = FALSE]
    BY <1>3 DEF Enter
  <2>2. QED
    BY <1>1, <2>1, CalmStep DEF Calm, Takes, InstSet
<1>4. CASE Stopped(i, w) \/ StopFails(i, w)
  <2>1. inst[i].state = "stopping"
    BY <1>4 DEF IInv, Owns, Own, Handed, Stopped, StopFails
  <2>2. PICK p \in {proc[i], "none", "left"}, s \in {"stopped", "cleanup_pending"} :
           /\ proc' = [proc EXCEPT ![i] = p] /\ inst' = [inst EXCEPT ![i].state = s]
           /\ s = "stopped" => p = "none"
    BY <1>4 DEF Stopped, StopFails
  <2>3. QED
    BY <1>1, <2>1, <2>2, CalmStep DEF Calm, InstSet
<1>5. CASE WaitOver(i, w)
  BY <1>1, <1>5, CalmStep DEF Calm, WaitOver
<1>6. CASE Finalize(i, w)
  <2>1. /\ proc' = proc
        /\ inst' = inst \/ (inst[i].state = "stopped" /\ inst' = [inst EXCEPT ![i] = NoInst])
    BY <1>6 DEF Finalize, Forgotten
  <2>2. QED
    BY <1>1, <2>1, CalmStep DEF Calm, NoInst
<1>7. QED
  BY <1>2, <1>3, <1>4, <1>5, <1>6

\* A generation that is over is not touched by a cancellation.
LEMMA LateInvalid ==
    ASSUME NEW i \in Ids, Late(i), inst[i].state # "none", gen \in [Ids -> GenSet]
    PROVE  gen[i] = NoGen /\ ~gen[i].current /\ [gen EXCEPT ![i] = Invalidated(i)] = gen
BY DEF Late, Invalidated, NoGen

\* The rest of a start.
LEMMA LateStart ==
    ASSUME IInv, LInv, NEW i \in Ids,
           Launch(i) \/ Verify(i) \/ Withdraw(i) \/ Undone(i) \/ Rollback(i) \/ Finally(i)
    PROVE  LInv'
<1>1. /\ Types /\ inst \in [Ids -> InstSet] /\ start \in [Ids -> StartSet] /\ Late(i)
      /\ gen \in [Ids -> GenSet]
      /\ proc \in [Ids -> {"none", "actor", "server", "exited", "left"}]
  BY DEF IInv, Types, HandTypes, HoldTypes, LInv
<1>2. CASE Launch(i)
  <2>1. gen' = gen /\ inst' = inst /\ start[i].pc = "launch"
    BY <1>2 DEF Launch, launchVars
  <2>2. /\ proc' = proc \/ \E p \in {"server", "exited"} : proc' = [proc EXCEPT ![i] = p]
        /\ \/ \E pc \in {"verify", "undo"} : start' = [start EXCEPT ![i].pc = pc]
           \/ inst[i].state = "launching" /\ \E again \in BOOLEAN :
                  start' = [start EXCEPT ![i].pc = "undo", ![i].again = again]
    BY <1>2 DEF Launch, To
  <2>3. \A j \in Ids : proc'[j] = "actor" => proc[j] = "actor"
    BY <1>1, <2>2
  <2>4. /\ start'[i].pc \in {"verify", "undo"} /\ \A j \in Ids \ {i} : start'[j] = start[j]
        /\ start'[i].again => start[i].again \/ inst[i].state # "none"
    BY <1>1, <2>2 DEF StartSet
  <2>5. QED
    BY <2>1, <2>3, <2>4, CalmStep DEF Calm, Waiting, Making
<1>3. CASE Verify(i)
  <2>1. gen' = gen /\ proc' = proc /\ start[i].pc = "verify"
    BY <1>3 DEF Verify, launchVars
  <2>2. PICK pc \in {"ready", "undo"} : start' = [start EXCEPT ![i].pc = pc]
    BY <1>3 DEF Verify, To
  <2>3. inst' = inst \/ (inst[i].state = "launching" /\ inst' = [inst EXCEPT ![i].state = "ready"])
    BY <1>3 DEF Verify
  <2>4. \A j \in Ids : /\ inst'[j].state # "none" <=> inst[j].state # "none"
                       /\ inst'[j].state = "stopped" => inst[j].state = "stopped"
    BY <1>1, <2>3 DEF InstSet
  <2>5. QED
    BY <1>1, <2>1, <2>2, <2>4, OnePlace, CalmStep DEF Calm, Waiting, Making
<1>4. CASE Withdraw(i)
  <2>1. proc' = proc /\ start[i].pc = "ready"
    BY <1>4 DEF Withdraw
  <2>2. PICK pc \in {"ok", "rollback", "undo"} : start' = [start EXCEPT ![i].pc = pc]
    BY <1>4 DEF Withdraw, To
  <2>3. /\ gen' = gen
        /\ inst' = inst \/ (inst[i].state # "none" /\ inst' = [inst EXCEPT ![i].state = "stopping",
                                                                        ![i].claim = TRUE])
    <3>1. CASE inst[i].state # "none" /\ start[i].cancel
      BY <1>1, <1>4, <3>1, LateInvalid DEF Withdraw, CancelStart
    <3>2. CASE ~(inst[i].state # "none" /\ start[i].cancel)
      BY <1>4, <3>2 DEF Withdraw
    <3>3. QED
      BY <3>1, <3>2
  <2>4. \A j \in Ids : /\ inst'[j].state # "none" <=> inst[j].state # "none"
                       /\ inst'[j].state = "stopped" => inst[j].state = "stopped"
    BY <1>1, <2>3 DEF InstSet
  <2>5. QED
    BY <1>1, <2>1, <2>2, <2>3, <2>4, OnePlace, CalmStep DEF Calm, Waiting, Making
<1>5. CASE Undone(i)
  BY <1>1, <1>5, OnePlace, CalmStep DEF Undone, To, Calm, Waiting, Making
<1>6. CASE Rollback(i)
  <2>1. /\ gen' = gen /\ proc' = proc /\ start[i].pc = "rollback"
        /\ inst' = inst \/ (inst[i].state = "stopped" /\ inst' = [inst EXCEPT ![i] = NoInst])
    BY <1>6 DEF Rollback, Forgotten
  <2>2. start'[i].pc = "finally" /\ (start'[i].again => start[i].again)
        /\ \A j \in Ids \ {i} : start'[j] = start[j]
    BY <1>1, <1>6 DEF Rollback, StartSet
  <2>3. \A j \in Ids : inst'[j] = inst[j] \/ (inst[j].state = "stopped" /\ inst'[j].state = "none")
    BY <1>1, <2>1 DEF NoInst
  <2>4. QED
    BY <2>1, <2>2, <2>3, CalmStep DEF Calm, Waiting, Making
<1>7. CASE Finally(i)
  BY <1>1, <1>7, OnePlace, CalmStep DEF Finally, To, startVars, Calm, Waiting, Making
<1>8. QED
  BY <1>2, <1>3, <1>4, <1>5, <1>6, <1>7

\* Tasks change the counter of an instance, or drain it.
LEMMA LateTasks ==
    ASSUME IInv, LInv, NEW t \in Tasks,
           Route(t) \/ EndTask(t) \/ StopWorkflow(t) \/ RunOutOfMemory(t) \/ Recovered(t)
    PROVE  LInv'
<1>1. /\ Types /\ inst \in [Ids -> InstSet]
      /\ UNCHANGED <<gen, proc, start>>
  BY DEF IInv, Types, HandTypes, Route, EndTask, StopWorkflow, RunOutOfMemory, Recovered
<1>2. \/ inst' = inst
      \/ \E i \in Ids : inst' = [inst EXCEPT ![i].inflight = @ + 1]
      \/ task[t].place = "routed" /\ inst' = Released(task[t].on)
      \/ /\ task[t].place = "routed" /\ inst[task[t].on].state = "ready"
         /\ inst' = [Released(task[t].on) EXCEPT ![task[t].on].state = "draining"]
  BY DEF Route, Available, EndTask, StopWorkflow, RunOutOfMemory, Recovered
<1>3. \A j \in Ids : /\ inst'[j].state # "none" <=> inst[j].state # "none"
                     /\ inst'[j].state = "stopped" => inst[j].state = "stopped"
  <2>1. CASE \E i \in Ids : inst' = [inst EXCEPT ![i].inflight = @ + 1]
    BY <1>1, <2>1 DEF InstSet
  <2>2. CASE task[t].place = "routed"
    <3>1. PICK i \in Ids : i = task[t].on
      BY <2>2 DEF IInv, Sited
    <3>2. PICK r \in [Ids -> InstSet] : /\ r = Released(i)
                                       /\ \A j \in Ids : r[j].state = inst[j].state
      BY <1>1, ReleasedInst
    <3>3. \/ inst' = inst \/ inst' = r
          \/ \E k \in Ids : inst' = [inst EXCEPT ![k].inflight = @ + 1]
          \/ inst[i].state = "ready" /\ inst' = [r EXCEPT ![i].state = "draining"]
      BY <1>2, <3>1, <3>2
    <3>4. QED
      BY <1>1, <2>1, <3>2, <3>3 DEF InstSet
  <2>3. QED
    BY <1>2, <2>1, <2>2
<1>4. QED
  BY <1>1, <1>3, CalmStep DEF Calm

\* A start that ends, or is put off, or begins when nothing is made.
LEMMA LateRecord ==
    ASSUME IInv, LInv, NEW i \in Ids, NEW r \in StartSet, start' = [start EXCEPT ![i] = r],
           start[i].pc \notin Making, r.pc # "submit", r.again => start[i].again,
           r.pc \in Waiting => start[i].pc \in Waiting \/ gen[i] = NoGen,
           gen' = gen, proc' = proc,
           \A j \in Ids : /\ inst'[j].state # "none" <=> inst[j].state # "none"
                          /\ inst'[j].state = "stopped" => inst[j].state = "stopped"
    PROVE  LInv'
<1>1. start'[i] = r /\ \A j \in Ids \ {i} : start'[j] = start[j]
  BY DEF IInv, Types, HandTypes
<1>2. QED
  BY <1>1, CalmStep DEF Calm

\* A start is placed, put off or refused.
LEMMA LatePlace ==
    ASSUME IInv, LInv, NEW i \in Ids, start[i].pc \in {"sent", "deferred"}, Place(i) \/ Refuse(i),
           UNCHANGED <<gen, proc>>
    PROVE  LInv'
<1>1. Types /\ start \in [Ids -> StartSet] /\ NoStart \in StartSet /\ inst \in [Ids -> InstSet]
  BY DEF IInv, Types, HandTypes, NoStart, StartSet
<1>2. PICK r \in StartSet : /\ start' = [start EXCEPT ![i] = r]
                            /\ r.again => start[i].again
                            /\ r.pc \in {"none", "queued", "deferred"}
  <2>1. ASSUME NEW pc \in {"queued", "deferred"}
        PROVE  LET r == [start[i] EXCEPT !.pc = pc]
               IN  r \in StartSet /\ r.again = start[i].again /\ r.pc = pc
    BY <1>1 DEF StartSet
  <2>2. NoStart.pc = "none" /\ ~NoStart.again
    BY DEF NoStart
  <2>3. \/ start' = [start EXCEPT ![i] = NoStart]
        \/ \E pc \in {"queued", "deferred"} : start' = [start EXCEPT ![i] = [start[i] EXCEPT !.pc = pc]]
    BY DEF Place, Refuse, To
  <2>4. QED
    BY <1>1, <2>1, <2>2, <2>3
<1>3. inst' = inst \/ \E j \in Ids : Idle(j) /\ inst' = Claimed(j)
  BY DEF Place, Refuse, Reclaim
<1>4. \A j \in Ids : /\ inst'[j].state # "none" <=> inst[j].state # "none"
                     /\ inst'[j].state = "stopped" => inst[j].state = "stopped"
  BY <1>1, <1>3, OneClaim DEF Claimed, Idle
<1>5. QED
  BY <1>2, <1>4, LateRecord DEF Waiting, Making

\* A cancelled start: its generation is invalidated, which leaves one that may
\* have made an actor in its slot.
LEMMA LateCancel ==
    ASSUME IInv, LInv, NEW i \in Ids, NEW orphan \in BOOLEAN, StopPending(i, orphan), proc' = proc
    PROVE  LInv'
<1>1. /\ Types /\ Late(i) /\ gen \in [Ids -> GenSet] /\ gen[i] \in GenSet /\ inst \in [Ids -> InstSet]
      /\ start \in [Ids -> StartSet] /\ start[i] \in StartSet
  BY DEF IInv, Types, HandTypes, LInv
<1>2. PICK b \in BOOLEAN : b = (start[i].orphan \/ orphan)
  BY <1>1 DEF StartSet
<1>3. PICK pc \in {start[i].pc, "cancelled"} :
         /\ start' = [start EXCEPT ![i].cancel = TRUE, ![i].orphan = b, ![i].pc = pc]
         /\ pc # start[i].pc => start[i].pc = "queued"
  BY <1>2 DEF StopPending
<1>4. /\ start'[i].pc = pc /\ start'[i].again = start[i].again
      /\ \A j \in Ids \ {i} : start'[j] = start[j]
  BY <1>1, <1>3, OneCancel
<1>5. /\ gen'[i] = Invalidated(i) /\ \A j \in Ids \ {i} : gen'[j] = gen[j]
  BY <1>1 DEF StopPending, CancelStart
<1>6. /\ inst'[i].state # "none" <=> inst[i].state # "none"
      /\ inst'[i].state = "stopped" => inst[i].state = "stopped"
      /\ \A j \in Ids \ {i} : inst'[j] = inst[j]
  <2>1. \/ inst' = inst
        \/ /\ inst' = [inst EXCEPT ![i].state = "stopping", ![i].claim = TRUE]
           /\ inst[i].state \in {"launching", "ready"}
    BY DEF StopPending, CancelStart
  <2>2. QED
    BY <1>1, <2>1, OneClaim
<1>7. Late(i)'
  <2>1. CASE ~gen[i].current
    BY <1>1, <1>3, <1>4, <1>5, <1>6, <2>1 DEF Late, Invalidated, Waiting, Making
  <2>2. CASE gen[i].current
    <3>1. inst[i].state = "none" /\ ~start[i].again /\ start[i].pc \notin Waiting /\ pc = start[i].pc
      BY <1>1, <1>3, <2>2 DEF Late, NoGen, Waiting
    <3>2. QED
      BY <1>1, <1>4, <1>5, <1>6, <2>2, <3>1 DEF Late, Invalidated, Waiting, Making, GenSet, NoGen
  <2>3. QED
    BY <2>1, <2>2
<1>8. QED
  BY <1>4, <1>5, <1>6, <1>7, LateStep DEF Calm

\* The LLM thread.
LEMMA LateQueue ==
    ASSUME IInv, LInv, Queue \/ \E i \in Ids : Deferred(i)
    PROVE  LInv'
<1>1. Types /\ Mail /\ start \in [Ids -> StartSet] /\ NoStart \in StartSet
  BY DEF IInv, Types, HandTypes, NoStart, StartSet
<1>2. CASE QueueStart
  <2>1. PICK i \in Ids : i = Head(msgs).id /\ start[i].pc = "sent"
    BY <1>1, <1>2, HeadMail DEF QueueStart, Head1
  <2>2. QED
    BY <1>2, <2>1, LatePlace DEF QueueStart
<1>3. ASSUME NEW i \in Ids, Deferred(i)
      PROVE  LInv'
  BY <1>3, LatePlace DEF Deferred
<1>4. CASE QueueStop \/ QueueOrphan
  <2>1. PICK i \in Ids : i = Head(msgs).id
    BY <1>1, <1>4, HeadMail DEF QueueStop, QueueOrphan, Head1
  <2>2. proc' = proc
    BY <1>4 DEF QueueStop, QueueOrphan
  <2>3. \/ StopPending(i, FALSE) \/ StopPending(i, TRUE)
        \/ UNCHANGED <<start, inst, gen>>
        \/ UNCHANGED <<inst, gen>> /\ start[i].pc = "deferred" /\ start' = [start EXCEPT ![i] = NoStart]
    BY <1>4, <2>1 DEF QueueStop, QueueOrphan, StopShared
  <2>4. CASE UNCHANGED <<start, inst, gen>>
    BY <2>2, <2>4, CalmStep DEF Calm
  <2>5. CASE UNCHANGED <<inst, gen>> /\ start[i].pc = "deferred" /\ start' = [start EXCEPT ![i] = NoStart]
    BY <1>1, <2>2, <2>5, LateRecord DEF NoStart, Waiting, Making
  <2>6. QED
    BY <2>2, <2>3, <2>4, <2>5, LateCancel
<1>5. QED
  BY <1>2, <1>3, <1>4 DEF Queue

\* What has ended is collected.
LEMMA LateDrain ==
    ASSUME IInv, LInv, NEW i \in Ids, Drain(i) \/ DrainUpkeep(i)
    PROVE  LInv'
<1>1. /\ Types /\ Late(i) /\ start \in [Ids -> StartSet] /\ start[i] \in StartSet /\ NoStart \in StartSet
      /\ UNCHANGED <<inst, gen, proc>>
  BY DEF IInv, Types, HandTypes, NoStart, StartSet, LInv, Drain, DrainReady, DrainRetry, DrainFailed,
     DrainCancelled, DrainStop, DrainUpkeep, upVars
<1>2. CASE DrainReady(i) \/ DrainFailed(i) \/ DrainCancelled(i)
  <2>1. start' = [start EXCEPT ![i] = NoStart] /\ start[i].pc \in {"ok", "failed", "cancelled"}
    BY <1>2 DEF DrainReady, DrainFailed, DrainCancelled
  <2>2. QED
    BY <1>1, <2>1, LateRecord DEF NoStart, Waiting, Making
<1>3. CASE DrainRetry(i)
  <2> DEFINE r == [NoStart EXCEPT !.pc = "sent", !.auto = start[i].auto, !.attempt = 2]
  <2>1. r \in StartSet /\ r.pc = "sent" /\ ~r.again
    BY <1>1, SentEntry DEF StartSet
  <2>2. start' = [start EXCEPT ![i] = r] /\ start[i].pc = "failed" /\ start[i].again
    BY <1>3 DEF DrainRetry
  <2> HIDE DEF r
  <2>3. gen[i] = NoGen
    BY <1>1, <2>2 DEF Late
  <2>4. QED
    BY <1>1, <2>1, <2>2, <2>3, LateRecord DEF Making
<1>4. CASE DrainStop(i) \/ DrainUpkeep(i)
  BY <1>1, <1>4, CalmStep DEF Calm, DrainStop, DrainUpkeep, upVars
<1>5. QED
  BY <1>2, <1>3, <1>4 DEF Drain

\* The supervisor, the users and the world.
LEMMA LateOthers ==
    ASSUME IInv, LInv,
           \/ \E i \in Ids : ClaimIdle(i) \/ Probe(i) \/ StartInstance(i) \/ StopInstance(i) \/ ServerExits(i)
           \/ \E m \in Models : ScaleOut(m)
           \/ ProbeEnd \/ UNCHANGED vars
    PROVE  LInv'
<1>1. /\ Types /\ inst \in [Ids -> InstSet] /\ start \in [Ids -> StartSet]
      /\ proc \in [Ids -> {"none", "actor", "server", "exited", "left"}]
  BY DEF IInv, Types, HandTypes, HoldTypes
<1>2. ASSUME NEW i \in Ids, ClaimIdle(i) \/ Probe(i)
      PROVE  LInv'
  <2>1. UNCHANGED <<gen, proc, start>>
    BY <1>2 DEF ClaimIdle, Probe, upVars
  <2>2. \/ inst' = inst
        \/ inst[i].state = "ready" /\ inst' = Claimed(i)
        \/ inst[i].state = "ready" /\ inst' = [inst EXCEPT ![i].state = "unhealthy"]
    BY <1>2 DEF ClaimIdle, StillIdle, Idle, Probe
  <2>3. \A j \in Ids : /\ inst'[j].state # "none" <=> inst[j].state # "none"
                       /\ inst'[j].state = "stopped" => inst[j].state = "stopped"
    BY <1>1, <2>2 DEF Claimed, InstSet
  <2>4. QED
    BY <2>1, <2>3, CalmStep DEF Calm
<1>3. ASSUME NEW i \in Ids, NEW b \in BOOLEAN, Free(i), Begun(i, b), UNCHANGED <<inst, gen, proc>>
      PROVE  LInv'
  <2> DEFINE r == [NoStart EXCEPT !.pc = "sent", !.auto = b]
  <2>1. r \in StartSet /\ r.pc = "sent" /\ ~r.again
    BY SentEntry
  <2>2. start' = [start EXCEPT ![i] = r] /\ start[i].pc = "none" /\ gen[i] = NoGen
    BY <1>3 DEF Begun, Free
  <2> HIDE DEF r
  <2>3. QED
    BY <1>3, <2>1, <2>2, LateRecord DEF Making
<1>4. ASSUME NEW i \in Ids, StartInstance(i)
      PROVE  LInv'
  BY <1>3, <1>4 DEF StartInstance
<1>5. ASSUME NEW m \in Models, ScaleOut(m)
      PROVE  LInv'
  <2>1. PICK i \in Ids : Free(i) /\ Begun(i, TRUE)
    BY <1>5 DEF ScaleOut
  <2>2. QED
    BY <1>3, <1>5, <2>1 DEF ScaleOut
<1>6. ASSUME NEW i \in Ids, StopInstance(i)
      PROVE  LInv'
  BY <1>6, CalmStep DEF Calm, StopInstance
<1>7. ASSUME NEW i \in Ids, ServerExits(i)
      PROVE  LInv'
  BY <1>1, <1>7, CalmStep DEF Calm, ServerExits
<1>8. CASE ProbeEnd
  BY <1>8, CalmStep DEF Calm, ProbeEnd, upVars
<1>9. CASE UNCHANGED vars
  BY <1>9, CalmStep DEF Calm, vars
<1>10. QED
  BY <1>2, <1>4, <1>5, <1>6, <1>7, <1>8, <1>9

\* Every step keeps it.
LEMMA NextLate == IInv /\ LInv /\ [Next]_vars => LInv'
<1> SUFFICES ASSUME IInv, LInv, [Next]_vars
             PROVE  LInv'
  OBVIOUS
<1>1. ASSUME NEW t \in Tasks,
             Route(t) \/ EndTask(t) \/ StopWorkflow(t) \/ RunOutOfMemory(t) \/ Recovered(t)
      PROVE  LInv'
  BY <1>1, LateTasks
<1>2. ASSUME NEW i \in Ids, StopStep(i) \/ StartStep(i) \/ CreationStep(i) \/ LateKill(i)
      PROVE  LInv'
  BY <1>2, LateStops, LateStart, LateAwait, LateCreation DEF StartStep
<1>3. ASSUME NEW i \in Ids, Drain(i) \/ DrainUpkeep(i)
      PROVE  LInv'
  BY <1>3, LateDrain
<1>4. CASE Queue \/ \E i \in Ids : Deferred(i)
  BY <1>4, LateQueue
<1>5. CASE \/ \E i \in Ids : ClaimIdle(i) \/ Probe(i) \/ StartInstance(i) \/ StopInstance(i) \/ ServerExits(i)
           \/ \E m \in Models : ScaleOut(m)
           \/ ProbeEnd \/ UNCHANGED vars
  BY <1>5, LateOthers
<1>6. QED
  BY <1>1, <1>2, <1>3, <1>4, <1>5 DEF Next, Probing

\* An actor that lives unregistered, because its start was cancelled or has given it
\* up while it was made, holds one of the slots until it is killed.
THEOREM LateActorsHeld == Spec => []LateHeld
<1>1. Init => IInv /\ LInv
  BY InitInv, InitLate
<1>2. IInv /\ LInv /\ [Next]_vars => IInv' /\ LInv'
  BY NextInv, NextLate
<1>3. IInv /\ LInv => LateHeld
  BY DEF LInv, Late, LateHeld
<1>4. QED
  BY <1>1, <1>2, <1>3, PTL DEF Spec
===============================================================================
