---------------------------- MODULE SupportProofs ----------------------------
(***************************************************************************)
(* Theorems about Support, for all parameters that a program can have: the *)
(* files of the tasks of any runs, any number of standby workers, any DAG, *)
(* and any runs with their limits and retries.  Each part gives an         *)
(* inductive invariant, one lemma per action or group of actions, and the  *)
(* theorems.  OwnerCleanup, the fifth component, has its own module,       *)
(* OwnerCleanupProofs.                                                     *)
(***************************************************************************)
EXTENDS Support, Integers, Sequences, FiniteSetTheorems, TLAPS

\* The part of a behaviour stays, and its steps are those of the module it names.
LEMMA PartStep ==
    ASSUME [Next]_svars
    PROVE  /\ part' = part
           /\ part = "artifacts" => [Files!Next]_Files!vars
           /\ part = "order"     => [Order!Next]_Order!vars
           /\ part = "dag"       => [Dag!Next]_Dag!vars
           /\ part = "repairs"   => [Repairs!Next]_Repairs!vars
BY DEF Next, svars, ovars, avars, dvars, mvars,
       Files!vars, Order!vars, Dag!vars, Repairs!vars

-------------------------------------------------------------------------------
(* The files of tasks: ArtifactFiles. *)

\* One operation of the Core at a time; what an upload and a revocation under way
\* are about.
InCore ==
    /\ core.op = "idle" => core = Files!Idle
    /\ core.op = "put" =>
          /\ core.run \in live /\ core.blob \in Blobs
          /\ core.by = Files!NoWork =>
                dispatch[core.run] = "prepared" /\ core.blob = Initial[core.run]
          /\ core.by # Files!NoWork =>
                core.by.task \in FileTasks /\ RunOf[core.by.task] = core.run
    /\ core.op = "reap" => core.run \in Runs /\ dispatch[core.run] = "failed"

AnyBlob  == Blobs \cup {None}
WorkType == [task : FileTasks \cup {None}, try : Nat, has : AnyBlob, put : AnyBlob]
CoreType == [op : {"idle", "put", "reap"}, run : Runs \cup {""}, by : WorkType, blob : AnyBlob]

FilesTyped ==
    /\ live \subseteq Runs /\ row \in [Blobs -> {"none", "managed", "given"}]
    /\ grants \subseteq live \X Blobs /\ files \subseteq Blobs /\ opened \subseteq Blobs
    /\ uploaded \subseteq Runs \X Blobs
    /\ dispatch \in [Runs -> {"prepared", "sent", "failed", "revoked", "over"}]
    /\ tries \in [FileTasks -> Nat] /\ published \in [FileTasks -> AnyBlob]
    /\ work \subseteq WorkType /\ \A w \in work : w.task \in FileTasks
    /\ core \in CoreType /\ InCore

\* The rows of the store: what was stored in the open is not the reaper's, also when
\* it has a row; bytes without a row are nobody's and, if they are there, open.
Marked ==
    /\ \A b \in opened : b \in files /\ row[b] # "managed"
    /\ \A b \in Blobs :
          /\ row[b] = "given" => b \in opened
          /\ row[b] = "none" => ~Files!Granted(b) /\ (b \in files => b \in opened)

\* Private bytes without a reader are left by a revocation that is not over.
Owed == Files!Orphans # {} => \E r \in Runs : dispatch[r] = "failed"

Has(r, b) == b = None \/ <<r, b>> \in uploaded

\* An upload stays as long as its run; a run that is not prepared yet has none.
Lasting ==
    \A u \in uploaded : IF u[1] \in live THEN u[2] \in files /\ u \in grants
                        ELSE dispatch[u[1]] # "prepared"

\* What a run starts with, what its tasks work on and what they hand on are uploads of
\* the run.
Ours ==
    /\ \A r \in Runs : /\ dispatch[r] = "sent" => r \in live /\ Has(r, Initial[r])
                       /\ dispatch[r] = "prepared" /\ r \in live => Initial[r] # None
    /\ \A t \in FileTasks : Has(RunOf[t], published[t])
    /\ \A w \in work : /\ dispatch[RunOf[w.task]] = "sent"
                       /\ Has(RunOf[w.task], w.has) /\ Has(RunOf[w.task], w.put)

FilesInv == Files!Parameters /\ FilesTyped /\ Marked /\ Owed /\ Lasting /\ Ours

\* What a live run has uploaded is not left to the reaper.
LEMMA UploadsNotReaped ==
    ASSUME FilesInv, NEW u \in uploaded, u[1] \in live
    PROVE  u[2] \notin Files!Orphans
<1>1. u = <<u[1], u[2]>> /\ u[1] \in Runs /\ u \in grants
  BY DEF FilesInv, FilesTyped, Lasting
<1>2. QED
  BY <1>1 DEF Files!Orphans, Files!Granted

\* A Core that has nothing to do.
LEMMA IdleCore ==
    /\ Files!NoWork \in WorkType /\ Files!Idle \in CoreType
    /\ core' = Files!Idle => InCore'
<1>1. Files!NoWork \in WorkType
  BY DEF Files!NoWork, WorkType, AnyBlob
<1>2. Files!Idle \in CoreType /\ Files!Idle.op = "idle"
  BY <1>1 DEF Files!Idle, CoreType, AnyBlob
<1>3. QED
  BY <1>1, <1>2 DEF InCore

-------------------------------------------------------------------------------

\* A Core that has begun an upload.
LEMMA PutCore ==
    ASSUME NEW r \in Runs, NEW w \in WorkType, NEW b \in Blobs
    PROVE  [op |-> "put", run |-> r, by |-> w, blob |-> b] \in CoreType
BY DEF CoreType, AnyBlob

\* The reservation of an upload, by the preparation of a run or by an attempt.
LEMMA MarkStep ==
    ASSUME FilesInv, NEW r \in Runs, NEW w \in WorkType, NEW b \in Blobs, Files!Mark(r, w, b),
           w = Files!NoWork => dispatch[r] = "prepared" /\ b = Initial[r],
           w # Files!NoWork => w.task \in FileTasks /\ RunOf[w.task] = r,
           UNCHANGED <<dispatch, tries, work, published>>
    PROVE  FilesInv'
<1> USE DEF FilesInv, FilesTyped, Files!Mark
<1>1. r \in live /\ core' = [op |-> "put", run |-> r, by |-> w, blob |-> b]
  OBVIOUS
<1>2. core' \in CoreType /\ InCore'
  <2>1. core' \in CoreType
    BY <1>1, PutCore
  <2>2. core'.op = "put" /\ core'.run = r /\ core'.by = w /\ core'.blob = b /\ live' = live
    BY <1>1
  <2>3. QED
    BY <1>1, <2>1, <2>2 DEF InCore
<1>3. FilesTyped'
  BY <1>2 DEF Files!Reserved
<1>4. Marked'
  BY DEF Marked, Files!Granted, Files!Reserved
<1>5. Owed'
  BY DEF Owed, Files!Orphans, Files!Granted, Files!Reserved
<1>6. Lasting' /\ Ours'
  BY DEF Lasting, Ours, Has
<1>7. QED
  BY <1>3, <1>4, <1>5, <1>6 DEF Files!Parameters

\* The write that ends an upload, after which a run may be sent.
LEMMA WriteStep ==
    ASSUME FilesInv, Files!Write,
           \A r \in Runs : \/ dispatch'[r] = dispatch[r]
                           \/ r = core.run /\ dispatch[r] # "failed" /\ dispatch'[r] # "prepared"
    PROVE  /\ core.run \in live /\ core.blob \in Blobs /\ core' = Files!Idle
           /\ uploaded' = uploaded \cup {<<core.run, core.blob>>}
           /\ files' \subseteq Blobs /\ uploaded' \subseteq Runs \X Blobs
           /\ Marked' /\ Owed' /\ Lasting'
<1> USE DEF FilesInv, FilesTyped, Files!Write
<1> DEFINE new == <<core.run, core.blob>>
<1>1. /\ core.run \in live /\ core.run \in Runs /\ core.blob \in Blobs /\ core' = Files!Idle
      /\ uploaded' = uploaded \cup {new} /\ new \in grants
      /\ files' = files \cup {core.blob} /\ live' = live /\ grants' = grants
  BY DEF InCore
<1>2. Marked'
  BY <1>1 DEF Marked, Files!Granted
<1>3. Owed'
  BY <1>1 DEF Owed, Files!Orphans, Files!Granted
<1>4. ASSUME NEW u \in uploaded'
      PROVE  IF u[1] \in live' THEN u[2] \in files' /\ u \in grants' ELSE dispatch'[u[1]] # "prepared"
  <2>1. CASE u \in uploaded
    BY <1>1, <2>1 DEF Lasting
  <2>2. CASE u = new
    BY <1>1, <2>2
  <2>3. QED
    BY <1>1, <2>1, <2>2
<1>5. QED
  BY <1>1, <1>2, <1>3, <1>4 DEF Lasting

\* The Core does nothing.
LEMMA IdleIs == Files!Idle.op = "idle"
BY DEF Files!Idle

\* The capability of a run.
LEMMA CreateCapabilityStep ==
    ASSUME FilesInv, NEW r \in Runs, Files!CreateCapability(r)
    PROVE  FilesInv'
<1> USE DEF FilesInv, FilesTyped, Files!CreateCapability, Files!taskVars
<1>1. /\ core = Files!Idle /\ core' = core /\ dispatch[r] = "prepared" /\ r \notin live
      /\ dispatch' = [dispatch EXCEPT ![r] = IF Initial[r] = None THEN "sent" ELSE @]
      /\ live' = live \cup {r} /\ work' = work
  OBVIOUS
<1>2. FilesTyped'
  <2>1. core' = Files!Idle /\ core'.op = "idle"
    BY <1>1, IdleIs
  <2>2. InCore'
    BY <2>1 DEF InCore
  <2>3. live' \subseteq Runs /\ dispatch' \in [Runs -> {"prepared", "sent", "failed", "revoked", "over"}]
    BY <1>1
  <2>4. QED
    BY <1>1, <2>2, <2>3
<1>3. Marked' /\ Owed'
  BY <1>1 DEF Marked, Owed, Files!Orphans, Files!Granted
<1>4. Lasting'
  BY <1>1 DEF Lasting
<1>5. Ours'
  BY <1>1 DEF Ours, Has, Files!Parameters
<1>6. QED
  BY <1>2, <1>3, <1>4, <1>5 DEF Files!Parameters

\* The upload of the file of a run's workspace.
LEMMA StoreInitialStep ==
    ASSUME FilesInv, NEW r \in Runs, Files!StoreInitial(r)
    PROVE  FilesInv'
<1>1. r \in live /\ dispatch[r] = "prepared" /\ Files!Mark(r, Files!NoWork, Initial[r])
  BY DEF Files!StoreInitial, Files!Mark
<1>2. Initial[r] \in Blobs
  BY <1>1 DEF FilesInv, Files!Parameters, Ours
<1>3. QED
  BY <1>1, <1>2, IdleCore, MarkStep DEF Files!StoreInitial, Files!taskVars

\* A run is sent when its file is stored.
LEMMA InitialStoredStep ==
    ASSUME FilesInv, Files!InitialStored
    PROVE  FilesInv'
<1> USE DEF FilesInv, FilesTyped, Files!InitialStored, Files!taskVars
<1>1. /\ Files!Write /\ core.op = "put" /\ core.run \in Runs
      /\ dispatch[core.run] = "prepared" /\ core.blob = Initial[core.run]
      /\ dispatch' = [dispatch EXCEPT ![core.run] = "sent"]
  BY DEF InCore, Files!Write
<1>2. /\ core.run \in live /\ core' = Files!Idle /\ uploaded' = uploaded \cup {<<core.run, core.blob>>}
      /\ files' \subseteq Blobs /\ uploaded' \subseteq Runs \X Blobs /\ Marked' /\ Owed' /\ Lasting'
  BY <1>1, WriteStep
<1>3. FilesTyped'
  BY <1>1, <1>2, IdleCore DEF Files!Write
<1>4. Ours'
  BY <1>1, <1>2 DEF Ours, Has, Files!Write
<1>5. QED
  BY <1>2, <1>3, <1>4 DEF Files!Parameters

\* An attempt uploads what it changed ...
LEMMA UploadStep ==
    ASSUME FilesInv, NEW w \in work, NEW b \in Fresh, Files!Upload(w, b)
    PROVE  FilesInv'
<1>1. w \in WorkType /\ w.task \in FileTasks /\ RunOf[w.task] \in Runs /\ b \in Blobs
  BY DEF FilesInv, FilesTyped, Files!Parameters
<1>2. w # Files!NoWork
  BY <1>1 DEF Files!NoWork, FilesInv, Files!Parameters
<1>3. QED
  BY <1>1, <1>2, MarkStep DEF Files!Upload, Files!taskVars

\* ... and hears of it.
LEMMA UploadedStep ==
    ASSUME FilesInv, Files!Uploaded
    PROVE  FilesInv'
<1> USE DEF FilesInv, FilesTyped
<1> DEFINE new == [core.by EXCEPT !.put = core.blob]
<1>1. /\ Files!Write /\ core.op = "put" /\ core.by.task \in FileTasks /\ RunOf[core.by.task] = core.run
      /\ core.by \in WorkType /\ UNCHANGED <<dispatch, tries, published>>
      /\ work' \subseteq work \cup {new} /\ (new \in work' => core.by \in work \/ new \in work)
  BY DEF InCore, Files!Uploaded, Files!Write, CoreType
<1>2. /\ core.run \in live /\ core.blob \in Blobs /\ core' = Files!Idle
      /\ uploaded' = uploaded \cup {<<core.run, core.blob>>}
      /\ files' \subseteq Blobs /\ uploaded' \subseteq Runs \X Blobs /\ Marked' /\ Owed' /\ Lasting'
  BY <1>1, WriteStep
<1>3. new \in WorkType /\ new.task = core.by.task /\ new.has = core.by.has /\ new.put = core.blob
  BY <1>1, <1>2 DEF WorkType, AnyBlob
<1> HIDE DEF new
<1>4. FilesTyped'
  <2>1. core' \in CoreType /\ InCore'
    BY <1>2, IdleCore
  <2>2. work' \subseteq WorkType /\ \A w \in work' : w.task \in FileTasks
    BY <1>1, <1>3
  <2>3. QED
    BY <1>1, <1>2, <2>1, <2>2 DEF Files!Write
<1>5. Ours'
  <2>1. ASSUME NEW w \in work'
        PROVE  /\ dispatch[RunOf[w.task]] = "sent"
               /\ Has(RunOf[w.task], w.has)' /\ Has(RunOf[w.task], w.put)'
    BY <1>1, <1>2, <1>3, <2>1 DEF Ours, Has
  <2>2. QED
    BY <1>1, <1>2, <2>1 DEF Ours, Has, Files!Write
<1>6. QED
  BY <1>2, <1>4, <1>5 DEF Files!Parameters

\* An upload fails before it is written.
LEMMA PutFailsStep ==
    ASSUME FilesInv, Files!PutFails
    PROVE  FilesInv'
<1> USE DEF FilesInv, FilesTyped, Files!PutFails, Files!storeVars, Files!taskVars
<1>1. FilesTyped'
  BY IdleCore
<1>2. Marked' /\ Owed' /\ Lasting'
  BY DEF InCore, Marked, Owed, Lasting, Files!Orphans, Files!Granted
<1>3. Ours'
  BY DEF InCore, Ours, Has
<1>4. QED
  BY <1>1, <1>2, <1>3 DEF Files!Parameters

\* A summary is stored in the open.
LEMMA StoreSummaryStep ==
    ASSUME FilesInv, NEW b \in Blobs, Files!StoreSummary(b)
    PROVE  FilesInv'
<1> USE DEF FilesInv, FilesTyped, Files!StoreSummary, Files!taskVars
<1>1. FilesTyped' /\ Marked' /\ Owed'
  BY DEF InCore, Marked, Owed, Files!Orphans, Files!Granted
<1>2. Lasting' /\ Ours'
  BY DEF Lasting, Ours, Has
<1>3. QED
  BY <1>1, <1>2 DEF Files!Parameters

-------------------------------------------------------------------------------

\* A submission fails and its tasks are stopped.
LEMMA DispatchFailsStep ==
    ASSUME FilesInv, NEW r \in Runs, Files!DispatchFails(r)
    PROVE  FilesInv'
<1> USE DEF FilesInv, FilesTyped, Files!DispatchFails, Files!Of, Files!storeVars
<1>1. FilesTyped'
  BY DEF InCore, Files!Idle
<1>2. Marked' /\ Owed' /\ Lasting'
  BY DEF Marked, Owed, Lasting, Files!Orphans, Files!Granted
<1>3. Ours'
  BY DEF Ours, Has
<1>4. QED
  BY <1>1, <1>2, <1>3 DEF Files!Parameters

\* Its capability and grants are revoked.
LEMMA RevokeStep ==
    ASSUME FilesInv, NEW r \in Runs, Files!Revoke(r)
    PROVE  FilesInv'
<1> USE DEF FilesInv, FilesTyped, Files!Revoke, Files!taskVars
<1>1. FilesTyped'
  BY DEF InCore, Files!Idle, Files!NoWork, CoreType, WorkType, AnyBlob
<1>2. Marked'
  BY DEF Marked, Files!Granted
<1>3. Owed' /\ Lasting' /\ Ours'
  BY DEF Owed, Lasting, Ours, Has
<1>4. QED
  BY <1>1, <1>2, <1>3 DEF Files!Parameters

\* A blob that nobody can read is removed.
LEMMA ReapStep ==
    ASSUME FilesInv, NEW b \in Blobs, Files!Reap(b)
    PROVE  FilesInv'
<1> USE DEF FilesInv, FilesTyped, Files!Reap, Files!taskVars
<1>1. FilesTyped'
  BY DEF InCore
<1>2. Marked' /\ Owed'
  BY DEF Marked, Owed, Files!Orphans, Files!Granted
<1>3. Lasting'
  BY UploadsNotReaped DEF Lasting
<1>4. Ours'
  BY DEF Ours, Has
<1>5. QED
  BY <1>1, <1>2, <1>3, <1>4 DEF Files!Parameters

\* Nothing is left to remove.
LEMMA ReapDoneStep ==
    ASSUME FilesInv, Files!ReapDone
    PROVE  FilesInv'
<1> USE DEF FilesInv, FilesTyped, Files!ReapDone, Files!storeVars, Files!taskVars
<1>1. FilesTyped'
  BY IdleCore
<1>2. Marked' /\ Owed' /\ Lasting'
  BY DEF InCore, Marked, Owed, Lasting, Files!Orphans, Files!Granted
<1>3. Ours'
  BY DEF InCore, Ours, Has
<1>4. QED
  BY <1>1, <1>2, <1>3 DEF Files!Parameters

\* The Core ends, and comes back.
LEMMA CrashStep ==
    ASSUME FilesInv, Files!Crash
    PROVE  FilesInv'
<1> USE DEF FilesInv, FilesTyped, Files!Crash
<1>1. /\ core' = Files!Idle /\ work' = {} /\ files' \subseteq files /\ files \ files' \subseteq Files!Orphans
      /\ UNCHANGED <<live, row, grants, opened, uploaded, tries, published>>
  OBVIOUS
<1>2. /\ dispatch' \in [Runs -> {"prepared", "sent", "failed", "revoked", "over"}]
      /\ \A r \in Runs : /\ dispatch'[r] # "sent" /\ (dispatch[r] = "failed" => dispatch'[r] = "failed")
                         /\ dispatch'[r] = "prepared" => dispatch[r] = "prepared" /\ r \notin live
  OBVIOUS
<1>3. FilesTyped'
  BY <1>1, <1>2, IdleCore
<1>4. Marked' /\ Owed'
  BY <1>1, <1>2 DEF Marked, Owed, Files!Orphans, Files!Granted
<1>5. Lasting'
  BY <1>1, <1>2, UploadsNotReaped DEF Lasting
<1>6. Ours'
  BY <1>1, <1>2 DEF Ours, Has
<1>7. QED
  BY <1>3, <1>4, <1>5, <1>6 DEF Files!Parameters

-------------------------------------------------------------------------------

\* An attempt starts with the files of its run or those its parents changed.
LEMMA StageStep ==
    ASSUME FilesInv, NEW t \in FileTasks, Files!Stage(t)
    PROVE  FilesInv'
<1> USE DEF FilesInv, FilesTyped
<1> DEFINE new(b) == [task |-> t, try |-> tries[t] + 1, has |-> b, put |-> None]
<1>1. /\ dispatch[RunOf[t]] = "sent" /\ tries' = [tries EXCEPT ![t] = @ + 1]
      /\ work' = work \cup {new(b) : b \in Files!Staged(t)}
      /\ UNCHANGED <<live, row, grants, files, opened, uploaded, core, dispatch, published>>
  BY DEF Files!Stage, Files!storeVars
<1>2. ASSUME NEW b \in Files!Staged(t)
      PROVE  b \in AnyBlob /\ Has(RunOf[t], b)
  <2>1. RunOf[t] \in Runs /\ Initial[RunOf[t]] \in AnyBlob
    BY DEF Files!Parameters, AnyBlob
  <2>2. \A p \in Parents[t] : published[p] \in AnyBlob /\ Has(RunOf[t], published[p])
    BY DEF Files!Parameters, Ours
  <2>3. Has(RunOf[t], Initial[RunOf[t]])
    BY <1>1, <2>1 DEF Ours
  <2>4. QED
    BY <1>2, <2>1, <2>2, <2>3 DEF Files!Staged, Files!Changes
<1>3. \A b \in AnyBlob : new(b) \in WorkType
  BY DEF WorkType, AnyBlob
<1>4. ASSUME NEW w \in work'
      PROVE  /\ w \in WorkType /\ w.task \in FileTasks /\ dispatch[RunOf[w.task]] = "sent"
             /\ Has(RunOf[w.task], w.has) /\ Has(RunOf[w.task], w.put)
  <2>1. CASE w \in work
    BY <2>1 DEF Ours
  <2>2. CASE \E b \in Files!Staged(t) : w = new(b)
    <3>1. PICK b \in Files!Staged(t) : w = new(b)
      BY <2>2
    <3>2. w.task = t /\ w.has = b /\ w.put = None
      BY <3>1
    <3>3. QED
      BY <1>1, <1>2, <1>3, <3>1, <3>2 DEF Has
  <2>3. QED
    BY <1>1, <2>1, <2>2
<1> HIDE DEF new
<1>5. FilesTyped'
  BY <1>1, <1>4 DEF InCore
<1>6. Ours'
  BY <1>1, <1>4 DEF Ours, Has
<1>7. Marked' /\ Owed' /\ Lasting'
  BY <1>1 DEF Marked, Owed, Lasting, Files!Orphans, Files!Granted
<1>8. QED
  BY <1>5, <1>6, <1>7 DEF Files!Parameters

\* The parents of a task conflict, and the run is over.
LEMMA ConflictStep ==
    ASSUME FilesInv, NEW t \in FileTasks, Files!Conflict(t)
    PROVE  FilesInv'
<1> USE DEF FilesInv, FilesTyped, Files!Parameters, Files!Conflict, Files!Of, Files!storeVars
<1>1. FilesTyped'
  BY DEF InCore
<1>2. Marked' /\ Owed' /\ Lasting'
  BY DEF Marked, Owed, Lasting, Files!Orphans, Files!Granted
<1>3. Ours'
  BY DEF Ours, Has
<1>4. QED
  BY <1>1, <1>2, <1>3

\* A task publishes what its attempt uploaded; an attempt ends without.
LEMMA EndStep ==
    ASSUME FilesInv, NEW w \in work, Files!Finish(w) \/ Files!WorkerEnds(w)
    PROVE  FilesInv'
<1> USE DEF FilesInv, FilesTyped, Files!Finish, Files!WorkerEnds, Files!storeVars
<1>1. /\ w \in WorkType /\ w.task \in FileTasks /\ w.put \in AnyBlob
      /\ Has(RunOf[w.task], w.put) /\ MaxTries[w.task] + 1 \in Nat
  BY DEF WorkType, Ours, Files!Parameters
<1>2. /\ UNCHANGED <<live, row, grants, files, opened, uploaded, core, dispatch>>
      /\ work' \subseteq work /\ tries' \in [FileTasks -> Nat]
      /\ published' \in [FileTasks -> AnyBlob]
      /\ \A t \in FileTasks : published'[t] = published[t] \/ (t = w.task /\ published'[t] = w.put)
  BY <1>1
<1>3. FilesTyped'
  BY <1>2 DEF InCore
<1>4. Marked' /\ Owed' /\ Lasting'
  BY <1>2 DEF Marked, Owed, Lasting, Files!Orphans, Files!Granted
<1>5. Ours'
  BY <1>1, <1>2 DEF Ours, Has
<1>6. QED
  BY <1>3, <1>4, <1>5 DEF Files!Parameters

-------------------------------------------------------------------------------

\* At first the store is empty.
LEMMA InitFiles == Files!Parameters /\ Files!Init => FilesInv
<1> SUFFICES ASSUME Files!Parameters, Files!Init
             PROVE  FilesInv
  OBVIOUS
<1> USE DEF Files!Init
<1>1. FilesTyped
  BY DEF FilesTyped, InCore, Files!Idle, Files!NoWork, CoreType, WorkType, AnyBlob
<1>2. QED
  BY <1>1 DEF FilesInv, Marked, Owed, Lasting, Ours, Has, Files!Orphans, Files!Granted

\* Every step keeps the invariant.
LEMMA NextFiles == FilesInv /\ [Files!Next]_Files!vars => FilesInv'
<1> SUFFICES ASSUME FilesInv, [Files!Next]_Files!vars
             PROVE  FilesInv'
  OBVIOUS
<1>1. CASE UNCHANGED Files!vars
  BY <1>1 DEF FilesInv, FilesTyped, InCore, Marked, Owed, Lasting, Ours, Has, Files!Orphans,
              Files!Granted, Files!Parameters, Files!vars
<1>2. ASSUME NEW r \in Runs, Files!CreateCapability(r) \/ Files!StoreInitial(r)
                             \/ Files!DispatchFails(r) \/ Files!Revoke(r)
      PROVE  FilesInv'
  BY <1>2, CreateCapabilityStep, StoreInitialStep, DispatchFailsStep, RevokeStep
<1>3. ASSUME NEW b \in Blobs, Files!StoreSummary(b) \/ Files!Reap(b)
      PROVE  FilesInv'
  BY <1>3, StoreSummaryStep, ReapStep
<1>4. CASE Files!InitialStored \/ Files!Uploaded \/ Files!PutFails \/ Files!ReapDone \/ Files!Crash
  BY <1>4, InitialStoredStep, UploadedStep, PutFailsStep, ReapDoneStep, CrashStep
<1>5. ASSUME NEW t \in FileTasks, Files!Stage(t) \/ Files!Conflict(t)
      PROVE  FilesInv'
  BY <1>5, StageStep, ConflictStep
<1>6. ASSUME NEW w \in work, Files!Finish(w) \/ Files!WorkerEnds(w)
                             \/ \E b \in Fresh : Files!Upload(w, b)
      PROVE  FilesInv'
  BY <1>6, EndStep, UploadStep
<1>7. QED
  BY <1>1, <1>2, <1>3, <1>4, <1>5, <1>6 DEF Files!Next

\* The invariant of the store and of the files of the runs.
THEOREM FilesInvariance == Spec => [](part = "artifacts" => FilesInv)
<1>1. Init => (part = "artifacts" => FilesInv)
  BY InitFiles, ParametersAssumption DEF Init
<1>2. (part = "artifacts" => FilesInv) /\ [Next]_svars => (part = "artifacts" => FilesInv)'
  BY NextFiles, PartStep
<1>3. QED
  BY <1>1, <1>2, PTL DEF Spec

\* The four parts of ArtifactsSafe from the invariant.
LEMMA FilesSafe == FilesInv => Files!ArtifactsSafe
<1> SUFFICES ASSUME FilesInv
             PROVE  Files!ArtifactsSafe
  OBVIOUS
<1> USE DEF FilesInv, FilesTyped
<1>1. ASSUME NEW r \in live, NEW b \in AnyBlob, Has(r, b)
      PROVE  Files!Readable(r, b)
  <2>1. CASE b = None
    BY <2>1 DEF Files!Readable
  <2>2. CASE <<r, b>> \in uploaded
    <3>1. <<r, b>>[1] = r /\ <<r, b>>[2] = b
      OBVIOUS
    <3>2. QED
      BY <2>2, <3>1 DEF Lasting, Files!Readable
  <2>3. QED
    BY <1>1, <2>1, <2>2 DEF Has
<1>2. Files!Kept
  <2>1. ASSUME NEW t \in FileTasks, RunOf[t] \in live
        PROVE  Files!Readable(RunOf[t], published[t])
    BY <1>1, <2>1 DEF Ours
  <2>2. ASSUME NEW w \in work
        PROVE  Files!Readable(RunOf[w.task], w.has)
    <3>1. w.has \in AnyBlob /\ RunOf[w.task] \in Runs
      BY DEF WorkType, Files!Parameters
    <3>2. dispatch[RunOf[w.task]] = "sent" /\ Has(RunOf[w.task], w.has)
      BY DEF Ours
    <3>3. RunOf[w.task] \in live
      BY <3>1, <3>2 DEF Ours
    <3>4. QED
      BY <1>1, <3>1, <3>2, <3>3
  <2>3. QED
    BY <2>1, <2>2 DEF Files!Kept, Lasting
<1>3. Files!OpenKept /\ Files!Denied
  BY DEF Files!OpenKept, Files!Denied, Marked
<1>4. Files!Reaped
  BY DEF Files!Reaped, Owed
<1>5. QED
  BY <1>2, <1>3, <1>4 DEF Files!ArtifactsSafe

\* What a live run uploaded, and what its tasks will find, is there and its own to
\* read; open bytes are never deleted; private bytes are denied to everybody without a
\* grant, also after a crash; no private bytes without a reader stay behind.
THEOREM FilesStaySafe == Spec => []ArtifactsSafe
<1>1. (part = "artifacts" => FilesInv) => ArtifactsSafe
  BY FilesSafe DEF ArtifactsSafe
<1>2. QED
  BY <1>1, FilesInvariance, PTL

-------------------------------------------------------------------------------
(* The standby workers: DispatchOrder. *)

Worker == Actors \cup {None}

OrderTyped ==
    /\ place \in [QueueTasks -> {"idle", "queued", "waiting", "running"}]
    /\ head \in QueueTasks \cup {None} /\ lease \in [QueueTasks -> Worker]
    /\ pool \subseteq Actors /\ Cardinality(pool) <= Target

\* Only a running task has a worker; the head is still in the queue.
OrderPlaces ==
    /\ \A t \in QueueTasks : lease[t] # None => place[t] = "running"
    /\ head # None => place[head] = "queued"

Apart == \A t, u \in QueueTasks : t # u /\ lease[t] = lease[u] => lease[t] = None

OrderInv ==
    Order!Parameters /\ OrderTyped /\ OrderPlaces /\ Apart /\ busy = Order!Leased \cap pool

\* Cardinality there is Cardinality here.
LEMMA SameSize ==
    \A S : Order!Cardinality(S) = Cardinality(S) /\ (Order!IsFiniteSet(S) <=> IsFiniteSet(S))
BY DEF Order!Cardinality, Cardinality, Order!IsFiniteSet, IsFiniteSet

\* New workers are nobody's, and not more than are missing.
LEMMA StartedWorkers ==
    ASSUME OrderInv, NEW present \in SUBSET pool, NEW new \in Order!Started(present)
    PROVE  /\ new \subseteq Actors /\ new \cap Order!Leased = {} /\ new \cap pool = {}
           /\ Cardinality(present \cup new) <= Target
<1>1. /\ new \subseteq Actors /\ new \cap Order!Leased = {} /\ new \cap pool = {}
      /\ Cardinality(present) + Cardinality(new) <= Target
  BY SameSize DEF Order!Started
<1>2. IsFiniteSet(present) /\ IsFiniteSet(new) /\ present \cap new = {}
  <2>1. IsFiniteSet(Actors) /\ present \in SUBSET Actors /\ new \in SUBSET Actors
    BY <1>1, SameSize DEF OrderInv, OrderTyped, Order!Parameters
  <2>2. QED
    BY <1>1, <2>1, FS_Subset
<1>3. Cardinality(present \cup new) = Cardinality(present) + Cardinality(new)
  <2>1. Cardinality(present \cap new) = 0
    BY <1>2, FS_EmptySet
  <2>2. Cardinality(present) \in Nat /\ Cardinality(new) \in Nat
    BY <1>2, FS_CardinalityType
  <2>3. Cardinality(present \cup new)
           = Cardinality(present) + Cardinality(new) - Cardinality(present \cap new)
    BY <1>2, FS_Union
  <2>4. QED
    BY <2>1, <2>2, <2>3
<1>4. QED
  BY <1>1, <1>3

\* A worker goes and others may come.
LEMMA ReplacedWorker ==
    ASSUME OrderInv, NEW a, Order!Replace(a)
    PROVE  /\ pool' \subseteq Actors /\ Cardinality(pool') <= Target
           /\ Order!Leased \cap pool' = (Order!Leased \cap pool) \ {a}
<1>1. PICK new \in Order!Started(pool \ {a}) : pool' = (pool \ {a}) \cup new
  BY DEF Order!Replace
<1>2. /\ new \subseteq Actors /\ new \cap Order!Leased = {} /\ new \cap pool = {}
      /\ Cardinality((pool \ {a}) \cup new) <= Target
  BY StartedWorkers
<1>3. QED
  BY <1>1, <1>2 DEF OrderInv, OrderTyped

\* A task comes to run, with a free worker, or without.
LEMMA AcquireStep ==
    ASSUME OrderInv, NEW t \in QueueTasks, place[t] = "queued", Order!Acquire(t)
    PROVE  /\ lease' \in [QueueTasks -> Worker] /\ Apart' /\ busy' = (Order!Leased \cap pool)'
           /\ pool' \subseteq Actors /\ Cardinality(pool') <= Target
           /\ \A u \in QueueTasks \ {t} : lease'[u] = lease[u]
<1> USE DEF OrderInv, OrderTyped
<1>1. lease[t] = None
  BY DEF OrderPlaces
<1>2. CASE UNCHANGED <<pool, lease, busy>>
  BY <1>2 DEF Apart, Order!Leased
<1>3. ASSUME NEW a \in pool \ busy, Order!Replace(a), UNCHANGED <<lease, busy>>
      PROVE  /\ Apart' /\ busy' = (Order!Leased \cap pool)'
             /\ pool' \subseteq Actors /\ Cardinality(pool') <= Target
  BY <1>3, ReplacedWorker DEF Apart, Order!Leased
<1>4. ASSUME NEW a \in pool \ busy, lease' = [lease EXCEPT ![t] = a], busy' = busy \cup {a}, pool' = pool
      PROVE  /\ lease' \in [QueueTasks -> Worker] /\ Apart' /\ busy' = (Order!Leased \cap pool)'
             /\ \A u \in QueueTasks \ {t} : lease'[u] = lease[u]
  <2>1. lease' \in [QueueTasks -> Worker] /\ lease'[t] = a /\ \A u \in QueueTasks \ {t} : lease'[u] = lease[u]
    BY <1>4 DEF Worker
  <2>2. a \notin Order!Leased /\ a # None
    BY <1>4 DEF Order!Parameters
  <2>3. Order!Leased' = Order!Leased \cup {a}
    BY <1>1, <2>1, <2>2 DEF Order!Leased
  <2>4. Apart'
    BY <2>1, <2>2 DEF Apart, Order!Leased
  <2>5. QED
    BY <1>4, <2>1, <2>3, <2>4
<1>5. QED
  BY <1>2, <1>3, <1>4 DEF Order!Acquire

\* A task has ended, and its worker is kept or replaced.
LEMMA ReleaseStep ==
    ASSUME OrderInv, NEW t \in QueueTasks, Order!Keep(t) \/ Order!Discard(t)
    PROVE  /\ lease' \in [QueueTasks -> Worker] /\ Apart' /\ busy' = (Order!Leased \cap pool)'
           /\ pool' \subseteq Actors /\ Cardinality(pool') <= Target
           /\ lease'[t] = None /\ \A u \in QueueTasks \ {t} : lease'[u] = lease[u]
<1> USE DEF OrderInv, OrderTyped
<1>1. lease' = [lease EXCEPT ![t] = None] /\ busy' = busy \ {lease[t]}
  BY DEF Order!Keep, Order!Discard, Order!Release
<1>2. /\ lease' \in [QueueTasks -> Worker] /\ lease'[t] = None
      /\ \A u \in QueueTasks \ {t} : lease'[u] = lease[u]
  BY <1>1 DEF Worker
<1>3. Apart'
  BY <1>2 DEF Apart
<1>4. Order!Leased' = Order!Leased \ {lease[t]}
  BY <1>2 DEF Apart, Order!Leased
<1>5. CASE pool' = pool
  BY <1>1, <1>2, <1>3, <1>4, <1>5
<1>6. CASE Order!Replace(lease[t])
  BY <1>1, <1>2, <1>3, <1>4, <1>6, ReplacedWorker
<1>7. QED
  BY <1>5, <1>6 DEF Order!Keep, Order!Discard

\* At first there is no worker.
LEMMA InitOrder == Order!Parameters /\ Order!Init => OrderInv
BY FS_EmptySet
DEF Order!Init, OrderInv, OrderTyped, OrderPlaces, Apart, Worker, Order!Leased, Order!Parameters

\* The steps of the submit thread.
LEMMA SubmitStep ==
    ASSUME OrderInv, Order!Submit
    PROVE  OrderInv'
<1> USE DEF OrderInv, OrderTyped
<1>1. CASE Order!Peek
  <2>1. head' \in QueueTasks /\ place[head'] = "queued"
    BY <1>1 DEF Order!Peek, Order!First, Order!Starved, Order!At
  <2>2. QED
    BY <1>1, <2>1 DEF Order!Peek, Order!poolVars, OrderPlaces, Apart, Order!Leased, Order!Parameters
<1>2. CASE Order!Dispatch
  <2>1. /\ head \in QueueTasks /\ place[head] = "queued" /\ head' = None
        /\ place' = [place EXCEPT ![head] = "running"] /\ Order!Acquire(head)
    BY <1>2 DEF Order!Dispatch, Order!Fits, OrderPlaces
  <2>2. /\ lease' \in [QueueTasks -> Worker] /\ Apart' /\ busy' = (Order!Leased \cap pool)'
        /\ pool' \subseteq Actors /\ Cardinality(pool') <= Target
        /\ \A u \in QueueTasks \ {head} : lease'[u] = lease[u]
    BY <2>1, AcquireStep
  <2>3. OrderPlaces'
    BY <2>1, <2>2 DEF OrderPlaces, Order!Parameters
  <2>4. QED
    BY <2>1, <2>2, <2>3 DEF Order!Parameters
<1>3. CASE Order!Pending
  BY <1>3 DEF Order!Pending, Order!poolVars, OrderPlaces, Apart, Order!Leased, Order!Parameters
<1>4. CASE Order!Park
  <2>1. /\ head \in QueueTasks /\ place[head] = "queued" /\ lease[head] = None /\ head' = None
        /\ place' = [place EXCEPT ![head] = "waiting"] /\ UNCHANGED <<pool, busy, lease>>
    BY <1>4 DEF Order!Park, Order!poolVars, OrderPlaces
  <2>2. QED
    BY <2>1 DEF OrderPlaces, Apart, Order!Leased, Order!Parameters
<1>5. QED
  BY <1>1, <1>2, <1>3, <1>4 DEF Order!Submit

\* The end of an attempt.
LEMMA EndOfAttemptStep ==
    ASSUME OrderInv, NEW t \in QueueTasks, Order!End(t)
    PROVE  OrderInv'
<1> USE DEF OrderInv, OrderTyped
<1>1. /\ place[t] = "running" /\ head' = head
      /\ place' = [place EXCEPT ![t] = "idle"] \/ place' = [place EXCEPT ![t] = "queued"]
      /\ Order!Keep(t) \/ Order!Discard(t)
  BY DEF Order!End, Order!Finish, Order!Retry, Order!Cancel
<1>2. /\ lease' \in [QueueTasks -> Worker] /\ Apart' /\ busy' = (Order!Leased \cap pool)'
      /\ pool' \subseteq Actors /\ Cardinality(pool') <= Target
      /\ lease'[t] = None /\ \A u \in QueueTasks \ {t} : lease'[u] = lease[u]
  BY <1>1, ReleaseStep
<1>3. OrderPlaces'
  BY <1>1, <1>2 DEF OrderPlaces
<1>4. QED
  BY <1>1, <1>2, <1>3 DEF Order!Parameters

\* Every step keeps the invariant.
LEMMA NextOrder == OrderInv /\ [Order!Next]_Order!vars => OrderInv'
<1> SUFFICES ASSUME OrderInv, [Order!Next]_Order!vars
             PROVE  OrderInv'
  OBVIOUS
<1> USE DEF OrderInv, OrderTyped, Order!poolVars
<1>1. CASE Order!Tick \/ UNCHANGED Order!vars
  BY <1>1 DEF Order!Tick, Order!vars, OrderPlaces, Apart, Order!Leased, Order!Parameters
<1>2. CASE Order!Ensure
  <2>1. PICK new \in Order!Started(pool) : pool' = pool \cup new
    BY <1>2 DEF Order!Ensure
  <2>2. /\ new \subseteq Actors /\ new \cap Order!Leased = {}
        /\ Cardinality(pool \cup new) <= Target
    BY StartedWorkers
  <2>3. Order!Leased' = Order!Leased
    BY <1>2 DEF Order!Ensure, Order!Leased
  <2>4. QED
    BY <1>2, <2>1, <2>2, <2>3 DEF Order!Ensure, OrderPlaces, Apart, Order!Parameters
<1>3. CASE Order!RemoveNode
  BY <1>3, FS_EmptySet DEF Order!RemoveNode, OrderPlaces, Apart, Order!Leased, Order!Parameters
<1>4. ASSUME NEW t \in QueueTasks, Order!Put(t) \/ Order!Restore(t)
      PROVE  OrderInv'
  <2>1. /\ place[t] \in {"idle", "waiting"} /\ place' = [place EXCEPT ![t] = "queued"]
        /\ UNCHANGED <<head, pool, busy, lease>>
    BY <1>4 DEF Order!Put, Order!Restore
  <2>2. QED
    BY <2>1 DEF OrderPlaces, Apart, Order!Leased, Order!Parameters
<1>5. ASSUME NEW t \in QueueTasks, Order!BackoffOver(t)
      PROVE  OrderInv'
  BY <1>5 DEF Order!BackoffOver, OrderPlaces, Apart, Order!Leased, Order!Parameters
<1>6. QED
  BY <1>1, <1>2, <1>3, <1>4, <1>5, SubmitStep, EndOfAttemptStep DEF Order!Next

\* The invariant of the queue and the pool.
THEOREM OrderInvariance == Spec => [](part = "order" => OrderInv)
<1>1. Init => (part = "order" => OrderInv)
  BY InitOrder, ParametersAssumption DEF Init
<1>2. (part = "order" => OrderInv) /\ [Next]_svars => (part = "order" => OrderInv)'
  BY NextOrder, PartStep
<1>3. QED
  BY <1>1, <1>2, PTL DEF Spec

\* No two tasks share a worker, and the marks of busy workers are those of the leases,
\* also when the node left and came back, and when an identity is used again.
THEOREM WorkersStayExact == Spec => []WorkersExact
<1>1. OrderInv => Order!WorkersExact
  BY SameSize DEF OrderInv, OrderTyped, Apart, Order!WorkersExact
<1>2. (part = "order" => OrderInv) => WorkersExact
  BY <1>1 DEF WorkersExact
<1>3. QED
  BY <1>2, OrderInvariance, PTL

-------------------------------------------------------------------------------
(* The submission of a DAG: DagSubmission. *)

InputType == [schema : {"none", "literal", "typed", "from_run", "from", "from_user", "from_task"},
              node : Members \cup {None}, long : BOOLEAN, has : BOOLEAN]
DefinitionType == [edges : SUBSET Dag!Edges, inputs : [Inputs -> InputType],
                   contract : BOOLEAN, set : BOOLEAN]

DagTyped ==
    /\ draft \in DefinitionType /\ first \in DefinitionType /\ definition \in DefinitionType
    /\ params \in [Inputs -> InputType] /\ answer \in {"none", "accepted", "refused"}
    /\ state \in {"none", "active", "failed", "finished"}
    /\ sent \in [Members -> Nat] /\ started \subseteq Members /\ finished \subseteq started

\* A specification as a client writes it.
AsWritten(d) == ~d.set /\ \A s \in Inputs : d.inputs[s] \in Dag!Written \cup {Dag!NoInput}

\* What an id is bound to: the first specification that was accepted, in its normal form.
BoundTo ==
    /\ AsWritten(draft)
    /\ definition.set => /\ AsWritten(first) /\ definition = Dag!Normal(first)
                         /\ Dag!Acyclic(definition.edges) /\ Dag!Consistent(definition)
    /\ answer = "accepted" => definition.set

\* The references of the tasks are those of the definition.
Referenced ==
    answer = "accepted" =>
        \A s \in Inputs : params[s].schema = "from_task" =>
            \/ params[s].long /\ params[s].node \in Dag!Sources(definition.edges, s)
            \/ /\ Dag!Sources(definition.edges, s) = {}
               /\ definition.inputs[s].schema = "from_task"

\* A task is sent when all it waits for has finished, and once.
SentWhenReady ==
    /\ state = "none" => finished = {} /\ started = {} /\ sent = [n \in Members |-> 0]
    /\ state # "none" =>
          /\ answer = "accepted"
          /\ \A n \in Members : sent[n] = IF Dag!Before(definition.edges, n) \subseteq finished THEN 1 ELSE 0
    /\ state = "active" => finished # Members
    /\ state = "failed" => ~Dag!Backed

DagInv == Dag!Parameters /\ DagTyped /\ BoundTo /\ Dag!Rebindable /\ Referenced /\ SentWhenReady

-------------------------------------------------------------------------------

\* What a client writes is an input, and has no value yet.
LEMMA WrittenType ==
    ASSUME NEW i \in Dag!Written \cup {Dag!NoInput}
    PROVE  i \in InputType /\ ~i.has /\ i.schema \in {"none", "literal", "typed", "from_run", "from"}
<1>1. \/ \E schema \in {"none", "literal", "typed", "from_run"} : i = Dag!Input(schema, None, FALSE, FALSE)
      \/ \E n \in Members, long \in BOOLEAN : i = Dag!Input("from", n, long, FALSE)
  BY DEF Dag!Written, Dag!NoInput
<1>2. CASE \E schema \in {"none", "literal", "typed", "from_run"} :
             i = Dag!Input(schema, None, FALSE, FALSE)
  <2>1. PICK schema \in {"none", "literal", "typed", "from_run"} : i = Dag!Input(schema, None, FALSE, FALSE)
    BY <1>2
  <2>2. i = [schema |-> schema, node |-> None, long |-> FALSE, has |-> FALSE]
    BY <2>1 DEF Dag!Input
  <2>3. QED
    BY <2>2 DEF InputType
<1>3. CASE \E n \in Members, long \in BOOLEAN : i = Dag!Input("from", n, long, FALSE)
  <2>1. PICK n \in Members, long \in BOOLEAN : i = Dag!Input("from", n, long, FALSE)
    BY <1>3
  <2>2. i = [schema |-> "from", node |-> n, long |-> long, has |-> FALSE]
    BY <2>1 DEF Dag!Input
  <2>3. QED
    BY <2>2 DEF InputType
<1>4. QED
  BY <1>1, <1>2, <1>3

\* The normal form of an input: its schema, its value, the rest as it was.
LEMMA NormalInputIs ==
    ASSUME NEW i \in InputType
    PROVE  LET n == Dag!NormalInput(i)
           IN /\ n \in InputType /\ n.node = i.node /\ n.long = i.long
              /\ i.schema = "literal" => n.schema = "from_user" /\ n.has
              /\ i.schema = "typed" => n.schema = "from_user" /\ n.has = i.has
              /\ i.schema = "from" => n.schema = "from_task" /\ n.has
              /\ i.schema \notin {"literal", "typed", "from"} => n = i
<1>1. CASE i.schema = "literal"
  <2>1. Dag!NormalInput(i) = [i EXCEPT !.schema = "from_user", !.has = TRUE]
    BY <1>1 DEF Dag!NormalInput
  <2>2. QED
    BY <1>1, <2>1 DEF InputType
<1>2. CASE i.schema = "typed"
  <2>1. Dag!NormalInput(i) = [i EXCEPT !.schema = "from_user"]
    BY <1>2 DEF Dag!NormalInput
  <2>2. QED
    BY <1>2, <2>1 DEF InputType
<1>3. CASE i.schema = "from"
  <2>1. Dag!NormalInput(i) = [i EXCEPT !.schema = "from_task", !.has = TRUE]
    BY <1>3 DEF Dag!NormalInput
  <2>2. QED
    BY <1>3, <2>1 DEF InputType
<1>4. CASE i.schema \notin {"literal", "typed", "from"}
  <2>1. Dag!NormalInput(i) = i
    BY <1>4 DEF Dag!NormalInput
  <2>2. QED
    BY <1>4, <2>1
<1>5. QED
  BY <1>1, <1>2, <1>3, <1>4

\* A normal form is its own.
LEMMA NormalInputOnce ==
    ASSUME NEW i \in InputType
    PROVE  Dag!NormalInput(Dag!NormalInput(i)) = Dag!NormalInput(i)
<1> DEFINE n == Dag!NormalInput(i)
<1>1. n \in InputType /\ n.schema \notin {"literal", "typed", "from"}
  <2>1. i.schema \in {"none", "literal", "typed", "from_run", "from", "from_user", "from_task"}
    BY DEF InputType
  <2>2. QED
    BY <2>1, NormalInputIs
<1> HIDE DEF n
<1>2. Dag!NormalInput(n) = n
  BY <1>1, NormalInputIs
<1>3. QED
  BY <1>2 DEF n

\* Two inputs that are written differently differ in their normal forms.
LEMMA NormalInputTells ==
    ASSUME NEW i \in Dag!Written \cup {Dag!NoInput}, NEW j \in Dag!Written \cup {Dag!NoInput},
           Dag!NormalInput(i) = Dag!NormalInput(j)
    PROVE  i = j
<1>1. /\ i \in InputType /\ ~i.has /\ i.schema \in {"none", "literal", "typed", "from_run", "from"}
      /\ j \in InputType /\ ~j.has /\ j.schema \in {"none", "literal", "typed", "from_run", "from"}
  BY WrittenType
<1>2. i.node = j.node /\ i.long = j.long
  BY <1>1, NormalInputIs
<1>3. i.schema = j.schema
  <2> DEFINE n == Dag!NormalInput(i)
  <2>1. /\ i.schema = "literal" => n.schema = "from_user" /\ n.has
        /\ i.schema = "typed" => n.schema = "from_user" /\ ~n.has
        /\ i.schema = "from" => n.schema = "from_task"
        /\ i.schema \in {"none", "from_run"} => n.schema = i.schema
    BY <1>1, NormalInputIs
  <2>2. /\ j.schema = "literal" => n.schema = "from_user" /\ n.has
        /\ j.schema = "typed" => n.schema = "from_user" /\ ~n.has
        /\ j.schema = "from" => n.schema = "from_task"
        /\ j.schema \in {"none", "from_run"} => n.schema = j.schema
    BY <1>1, NormalInputIs
  <2> HIDE DEF n
  <2>3. QED
    BY <1>1, <2>1, <2>2
<1>4. i.has = j.has
  BY <1>1 DEF InputType
<1>5. QED
  BY <1>1, <1>2, <1>3, <1>4 DEF InputType

\* The normal form of a specification.
LEMMA NormalIs ==
    ASSUME NEW d \in DefinitionType
    PROVE  LET n == Dag!Normal(d)
           IN /\ n \in DefinitionType /\ n.edges = d.edges /\ n.contract = d.contract /\ n.set
              /\ \A s \in Inputs : d.inputs[s] \in InputType /\ n.inputs[s] = Dag!NormalInput(d.inputs[s])
<1> DEFINE inputs == [s \in Inputs |-> Dag!NormalInput(d.inputs[s])]
<1>1. /\ \A s \in Inputs : d.inputs[s] \in InputType /\ d.edges \in SUBSET Dag!Edges
      /\ d.contract \in BOOLEAN
  BY DEF DefinitionType
<1>2. inputs \in [Inputs -> InputType]
  BY <1>1, NormalInputIs
<1>3. \A s \in Inputs : inputs[s] = Dag!NormalInput(d.inputs[s])
  OBVIOUS
<1>4. Dag!Normal(d) = [d EXCEPT !.inputs = inputs, !.set = TRUE]
  BY DEF Dag!Normal
<1> HIDE DEF inputs
<1>5. QED
  BY <1>1, <1>2, <1>3, <1>4 DEF DefinitionType

\* It is its own normal form.
LEMMA NormalOnce ==
    ASSUME NEW d \in DefinitionType
    PROVE  Dag!Normal(Dag!Normal(d)) = Dag!Normal(d)
<1> DEFINE n == Dag!Normal(d)
           m == Dag!Normal(n)
<1>1. /\ n \in DefinitionType /\ n.set
      /\ \A s \in Inputs : d.inputs[s] \in InputType /\ n.inputs[s] = Dag!NormalInput(d.inputs[s])
  BY NormalIs
<1> HIDE DEF n
<1>2. /\ m \in DefinitionType /\ m.edges = n.edges /\ m.contract = n.contract /\ m.set
      /\ \A s \in Inputs : m.inputs[s] = Dag!NormalInput(n.inputs[s])
  BY <1>1, NormalIs
<1> HIDE DEF m
<1>3. \A s \in Inputs : m.inputs[s] = n.inputs[s]
  BY <1>1, <1>2, NormalInputOnce
<1>4. m.inputs = n.inputs /\ m.set = n.set
  BY <1>1, <1>2, <1>3 DEF DefinitionType
<1>5. m = n
  BY <1>1, <1>2, <1>4 DEF DefinitionType
<1>6. QED
  BY <1>5 DEF m, n

\* Two specifications that are written differently differ in their normal forms.
LEMMA NormalTells ==
    ASSUME NEW d \in DefinitionType, NEW e \in DefinitionType, AsWritten(d), AsWritten(e),
           Dag!Normal(d) = Dag!Normal(e)
    PROVE  d = e
<1>1. /\ d.edges = e.edges /\ d.contract = e.contract
      /\ \A s \in Inputs : Dag!NormalInput(d.inputs[s]) = Dag!NormalInput(e.inputs[s])
  BY NormalIs
<1>2. \A s \in Inputs : d.inputs[s] = e.inputs[s]
  BY <1>1, NormalInputTells DEF AsWritten
<1>3. d.inputs = e.inputs /\ d.set = e.set
  BY <1>2 DEF DefinitionType, AsWritten
<1>4. QED
  BY <1>1, <1>3 DEF DefinitionType

-------------------------------------------------------------------------------

\* The client writes, before its workflow runs.
LEMMA DraftStep ==
    ASSUME DagInv, draft' \in DefinitionType, AsWritten(draft)', Dag!Drafts
    PROVE  DagInv'
<1>1. /\ answer' = "none" /\ state = "none"
      /\ UNCHANGED <<first, definition, params, state, sent, started, finished>>
  BY DEF Dag!Drafts, Dag!runVars
<1>2. BoundTo'
  BY <1>1 DEF BoundTo, DagInv
<1>3. SentWhenReady'
  BY <1>1 DEF SentWhenReady, DagInv
<1>4. QED
  BY <1>1, <1>2, <1>3 DEF DagInv, DagTyped, Referenced, Dag!Rebindable

\* The client adds an edge.
LEMMA EdgeStep ==
    ASSUME DagInv, NEW e \in Dag!Edges, Dag!AddEdge(e)
    PROVE  DagInv'
<1>1. draft \in DefinitionType /\ AsWritten(draft)
  BY DEF DagInv, DagTyped, BoundTo
<1>2. draft' = [draft EXCEPT !.edges = @ \cup {e}] /\ Dag!Drafts
  BY DEF Dag!AddEdge
<1>3. draft' \in DefinitionType /\ draft'.inputs = draft.inputs /\ draft'.set = draft.set
  BY <1>1, <1>2 DEF DefinitionType
<1>4. AsWritten(draft)'
  BY <1>1, <1>3 DEF AsWritten
<1>5. QED
  BY <1>2, <1>3, <1>4, DraftStep

\* An input that had none is set.
LEMMA InputStep ==
    ASSUME DagInv, NEW s \in Inputs, NEW i \in Dag!Written, Dag!SetInput(s, i)
    PROVE  DagInv'
<1> DEFINE inputs == [draft.inputs EXCEPT ![s] = i]
<1>1. draft \in DefinitionType /\ AsWritten(draft)
  BY DEF DagInv, DagTyped, BoundTo
<1>2. draft' = [draft EXCEPT !.inputs[s] = i] /\ Dag!Drafts
  BY DEF Dag!SetInput
<1>3. draft.inputs \in [Inputs -> InputType] /\ i \in InputType
  BY <1>1, WrittenType DEF DefinitionType
<1>4. /\ inputs \in [Inputs -> InputType]
      /\ \A u \in Inputs : inputs[u] = IF u = s THEN i ELSE draft.inputs[u]
  BY <1>3
<1>5. draft' = [draft EXCEPT !.inputs = inputs]
  BY <1>1, <1>2 DEF DefinitionType
<1> HIDE DEF inputs
<1>6. draft' \in DefinitionType /\ draft'.inputs = inputs /\ draft'.set = draft.set
  BY <1>1, <1>4, <1>5 DEF DefinitionType
<1>7. AsWritten(draft)'
  BY <1>1, <1>4, <1>6 DEF AsWritten
<1>8. QED
  BY <1>2, <1>6, <1>7, DraftStep

\* The contract asks for an input of the run.
LEMMA ContractStep ==
    ASSUME DagInv, Dag!SetContract
    PROVE  DagInv'
<1>1. draft \in DefinitionType /\ AsWritten(draft)
  BY DEF DagInv, DagTyped, BoundTo
<1>2. draft' = [draft EXCEPT !.contract = TRUE] /\ Dag!Drafts
  BY DEF Dag!SetContract
<1>3. draft' \in DefinitionType /\ draft'.inputs = draft.inputs /\ draft'.set = draft.set
  BY <1>1, <1>2 DEF DefinitionType
<1>4. AsWritten(draft)'
  BY <1>1, <1>3 DEF AsWritten
<1>5. QED
  BY <1>2, <1>3, <1>4, DraftStep

\* The inputs of the tasks, with the source of the edge that each has.
LEMMA ParamsAre ==
    ASSUME DagInv, NEW d \in DefinitionType
    PROVE  /\ Dag!Params(d) \in [Inputs -> InputType]
           /\ \A s \in Inputs :
                 LET p == Dag!Params(d)[s]
                 IN IF Dag!Sources(d.edges, s) = {} THEN p = d.inputs[s]
                    ELSE p.long /\ p.node \in Dag!Sources(d.edges, s)
<1>1. ASSUME NEW s \in Inputs
      PROVE  Dag!Sources(d.edges, s) \subseteq Members /\ d.inputs[s] \in InputType
  BY DEF Dag!Sources, Dag!Edges, DefinitionType
<1>2. ASSUME NEW s \in Inputs
      PROVE  /\ Dag!Params(d)[s] \in InputType
             /\ IF Dag!Sources(d.edges, s) = {} THEN Dag!Params(d)[s] = d.inputs[s]
                ELSE Dag!Params(d)[s].long /\ Dag!Params(d)[s].node \in Dag!Sources(d.edges, s)
  <2>1. CASE Dag!Sources(d.edges, s) = {}
    BY <1>1, <2>1 DEF Dag!Params
  <2>2. CASE Dag!Sources(d.edges, s) # {}
    <3> DEFINE n == CHOOSE n \in Dag!Sources(d.edges, s) : TRUE
    <3>1. n \in Dag!Sources(d.edges, s)
      BY <2>2
    <3>2. Dag!Params(d)[s] = Dag!Input("from_task", n, TRUE, TRUE)
      BY <2>2 DEF Dag!Params
    <3> HIDE DEF n
    <3>3. Dag!Params(d)[s] = [schema |-> "from_task", node |-> n, long |-> TRUE, has |-> TRUE]
      BY <3>2 DEF Dag!Input
    <3>4. n \in Members
      BY <1>1, <3>1
    <3>5. QED
      BY <2>2, <3>1, <3>3, <3>4 DEF InputType
  <2>3. QED
    BY <2>1, <2>2
<1>3. Dag!Params(d) \in [Inputs -> InputType]
  <2>1. \A s \in Inputs : Dag!Params(d)[s] \in InputType
    BY <1>2
  <2>2. Dag!Params(d) = [s \in Inputs |-> Dag!Params(d)[s]]
    BY DEF Dag!Params
  <2>3. QED
    BY <2>1, <2>2
<1>4. QED
  BY <1>2, <1>3

\* A submission is accepted under a new id, or as the one its id is bound to; or it is refused.
LEMMA BindStep ==
    ASSUME DagInv, Dag!Submit
    PROVE  DagInv'
<1> DEFINE new == Dag!Normal(draft)
           accepts == Dag!Acyclic(new.edges) /\ (definition.set => new = definition) /\ Dag!Consistent(new)
<1>1. /\ draft \in DefinitionType /\ AsWritten(draft) /\ first \in DefinitionType /\ state = "none"
      /\ UNCHANGED <<draft, state, sent, started, finished>>
      /\ definition.set => /\ AsWritten(first) /\ definition = Dag!Normal(first)
                           /\ Dag!Acyclic(definition.edges) /\ Dag!Consistent(definition)
  BY DEF DagInv, DagTyped, BoundTo, Dag!Submit, Dag!runVars
<1>2. new \in DefinitionType /\ Dag!Normal(new) = new /\ new.set
  BY <1>1, NormalIs, NormalOnce
<1>3. definition.set => (new = definition <=> draft = first)
  BY <1>1, NormalTells
<1>4. IF accepts
      THEN /\ answer' = "accepted" /\ definition' = Dag!Normal(new) /\ params' = Dag!Params(new)
           /\ first' = IF definition.set THEN first ELSE draft
      ELSE answer' = "refused" /\ UNCHANGED <<first, definition, params>>
  BY DEF Dag!Submit
<1> HIDE DEF new
<1>5. SentWhenReady'
  BY <1>1 DEF SentWhenReady, DagInv
<1>6. CASE accepts
  <2>1. /\ answer' = "accepted" /\ definition' = new /\ params' = Dag!Params(new)
        /\ first' = draft /\ new = Dag!Normal(draft) /\ Dag!Acyclic(new.edges) /\ Dag!Consistent(new)
    BY <1>2, <1>3, <1>4, <1>6 DEF new
  <2>2. DagTyped'
    BY <1>1, <1>2, <2>1, ParamsAre DEF DagInv, DagTyped
  <2>3. BoundTo'
    BY <1>1, <1>2, <2>1 DEF BoundTo
  <2>4. Dag!Rebindable'
    BY <1>1, <2>1 DEF Dag!Rebindable
  <2>5. Referenced'
    BY <1>2, <2>1, ParamsAre DEF Referenced
  <2>6. QED
    BY <1>5, <2>2, <2>3, <2>4, <2>5 DEF DagInv, Dag!Parameters
<1>7. CASE ~accepts
  <2>1. answer' = "refused" /\ UNCHANGED <<first, definition, params>>
    BY <1>4, <1>7
  <2>2. definition.set => draft # first
    BY <1>1, <1>3, <1>7
  <2>3. DagTyped'
    BY <1>1, <2>1 DEF DagInv, DagTyped
  <2>4. BoundTo'
    BY <1>1, <2>1 DEF BoundTo
  <2>5. Dag!Rebindable' /\ Referenced'
    BY <1>1, <2>1, <2>2 DEF Dag!Rebindable, Referenced
  <2>6. QED
    BY <1>5, <2>3, <2>4, <2>5 DEF DagInv, Dag!Parameters
<1>8. QED
  BY <1>6, <1>7

\* The run starts with the tasks that wait for none.
LEMMA StartStep ==
    ASSUME DagInv, NEW given \in BOOLEAN, Dag!Start(given)
    PROVE  DagInv'
<1>1. /\ answer = "accepted" /\ state = "none" /\ state' = "active" /\ finished = {} /\ started = {}
      /\ sent' = [n \in Members |-> IF n \in Dag!Roots THEN 1 ELSE 0]
      /\ params' = [s \in Inputs |-> IF params[s].schema = "from_run"
                                     THEN [params[s] EXCEPT !.schema = "from_user", !.has = TRUE]
                                     ELSE params[s]]
      /\ UNCHANGED <<draft, first, definition, answer, started, finished>>
  BY DEF Dag!Start, DagInv, SentWhenReady
<1>2. ASSUME NEW s \in Inputs
      PROVE  params'[s] \in InputType /\ (params'[s].schema = "from_task" => params'[s] = params[s])
  <2>1. params[s] \in InputType
    BY DEF DagInv, DagTyped
  <2>2. [params[s] EXCEPT !.schema = "from_user", !.has = TRUE].schema = "from_user"
    BY <2>1 DEF InputType
  <2>3. [params[s] EXCEPT !.schema = "from_user", !.has = TRUE] \in InputType
    BY <2>1 DEF InputType
  <2>4. QED
    BY <1>1, <2>1, <2>2, <2>3
<1>3. params' \in [Inputs -> InputType]
  BY <1>1, <1>2
<1>4. sent' \in [Members -> Nat]
  BY <1>1
<1>5. BoundTo' /\ Dag!Rebindable'
  BY <1>1 DEF BoundTo, Dag!Rebindable, DagInv
<1>6. Referenced'
  BY <1>1, <1>2 DEF Referenced, DagInv
<1>7. SentWhenReady'
  <2>1. \A n \in Members : n \in Dag!Roots <=> Dag!Before(definition.edges, n) \subseteq finished
    BY <1>1 DEF Dag!Roots
  <2>2. Members # {}
    BY DEF DagInv, Dag!Parameters
  <2>3. QED
    BY <1>1, <2>1, <2>2 DEF SentWhenReady
<1>8. QED
  BY <1>1, <1>3, <1>4, <1>5, <1>6, <1>7 DEF DagInv, DagTyped, Dag!Parameters

\* What waits for another has a source that goes before.
LEMMA SourcesBefore ==
    ASSUME NEW edges, NEW s \in Inputs
    PROVE  Dag!Sources(edges, s) \subseteq Dag!Before(edges, s.node)
BY DEF Dag!Before

\* A task runs, if its references resolve; those with an edge do.
LEMMA LaunchStep ==
    ASSUME DagInv, NEW n \in Members, Dag!Launch(n)
    PROVE  DagInv'
<1>1. /\ state = "active" /\ sent[n] > 0 /\ started' = started \cup {n} /\ answer = "accepted"
      /\ state' = IF Dag!Resolves(n) THEN state ELSE "failed"
      /\ UNCHANGED <<draft, first, definition, params, answer, sent, finished>>
  BY DEF Dag!Launch, DagInv, SentWhenReady
<1>2. Dag!Backed => Dag!Resolves(n)
  <2> SUFFICES ASSUME Dag!Backed, NEW s \in Inputs, s.node = n, params[s].schema = "from_task"
               PROVE  params[s].long /\ params[s].node \in finished
    BY DEF Dag!Resolves
  <2>1. Dag!Before(definition.edges, n) \subseteq finished
    BY <1>1 DEF DagInv, SentWhenReady
  <2>2. params[s].long /\ params[s].node \in Dag!Sources(definition.edges, s)
    BY <1>1 DEF DagInv, Referenced, Dag!Backed
  <2>3. QED
    BY <2>1, <2>2, SourcesBefore
<1>3. DagTyped'
  BY <1>1 DEF DagInv, DagTyped
<1>4. BoundTo' /\ Dag!Rebindable' /\ Referenced'
  BY <1>1 DEF BoundTo, Dag!Rebindable, Referenced, DagInv
<1>5. SentWhenReady'
  BY <1>1, <1>2 DEF SentWhenReady, DagInv, Dag!Backed
<1>6. QED
  BY <1>3, <1>4, <1>5 DEF DagInv, Dag!Parameters

\* A task has finished: those that waited for it alone are sent.
LEMMA FinishStep ==
    ASSUME DagInv, NEW n \in Members, Dag!Finish(n)
    PROVE  DagInv'
<1> DEFINE over == finished \cup {n}
<1>1. /\ state = "active" /\ n \in started /\ n \notin finished /\ finished' = over
      /\ state' = IF over = Members THEN "finished" ELSE state
      /\ answer = "accepted"
      /\ sent' = [m \in Members |-> IF m \in Dag!Ready(n, over) THEN sent[m] + 1 ELSE sent[m]]
      /\ UNCHANGED <<draft, first, definition, params, answer, started>>
  BY DEF Dag!Finish, DagInv, SentWhenReady
<1>2. ASSUME NEW m \in Members
      PROVE  sent'[m] = IF Dag!Before(definition.edges, m) \subseteq over THEN 1 ELSE 0
  <2>1. sent[m] = IF Dag!Before(definition.edges, m) \subseteq finished THEN 1 ELSE 0
    BY <1>1 DEF DagInv, SentWhenReady
  <2>2. m \in Dag!Ready(n, over) <=> /\ n \in Dag!Before(definition.edges, m)
                                     /\ Dag!Before(definition.edges, m) \subseteq over
    BY DEF Dag!Ready
  <2>3. QED
    BY <1>1, <2>1, <2>2
<1>3. sent' \in [Members -> Nat]
  <2>1. \A m \in Members : sent'[m] \in Nat
    BY <1>2
  <2>2. QED
    BY <1>1, <2>1
<1>4. DagTyped'
  BY <1>1, <1>3 DEF DagInv, DagTyped
<1>5. BoundTo' /\ Dag!Rebindable' /\ Referenced'
  BY <1>1 DEF BoundTo, Dag!Rebindable, Referenced, DagInv
<1>6. SentWhenReady'
  BY <1>1, <1>2 DEF SentWhenReady, Dag!Backed
<1>7. QED
  BY <1>4, <1>5, <1>6 DEF DagInv, Dag!Parameters

\* Nothing is written and nothing is submitted.
LEMMA InitDag == Dag!Parameters /\ Dag!Init => DagInv
<1> SUFFICES ASSUME Dag!Parameters, Dag!Init
             PROVE  DagInv
  OBVIOUS
<1>1. Dag!NoInput \in InputType
  BY WrittenType
<1>2. /\ Dag!NoDefinition \in DefinitionType /\ ~Dag!NoDefinition.set
      /\ \A s \in Inputs : Dag!NoDefinition.inputs[s] = Dag!NoInput
  BY <1>1 DEF Dag!NoDefinition, DefinitionType
<1>3. /\ draft = Dag!NoDefinition /\ first = Dag!NoDefinition /\ definition = Dag!NoDefinition
      /\ params = [s \in Inputs |-> Dag!NoInput] /\ answer = "none" /\ state = "none"
      /\ sent = [n \in Members |-> 0] /\ started = {} /\ finished = {}
  BY DEF Dag!Init
<1>4. DagTyped
  BY <1>1, <1>2, <1>3 DEF DagTyped
<1>5. BoundTo
  BY <1>2, <1>3 DEF BoundTo, AsWritten
<1>6. Dag!Rebindable /\ Referenced /\ SentWhenReady
  BY <1>3 DEF Dag!Rebindable, Referenced, SentWhenReady
<1>7. QED
  BY <1>4, <1>5, <1>6 DEF DagInv

\* Every step keeps the invariant.
LEMMA NextDag == DagInv /\ [Dag!Next]_Dag!vars => DagInv'
<1> SUFFICES ASSUME DagInv, [Dag!Next]_Dag!vars
             PROVE  DagInv'
  OBVIOUS
<1>1. ASSUME NEW e \in Dag!Edges, Dag!AddEdge(e)
      PROVE  DagInv'
  BY <1>1, EdgeStep
<1>2. ASSUME NEW s \in Inputs, NEW i \in Dag!Written, Dag!SetInput(s, i)
      PROVE  DagInv'
  BY <1>2, InputStep
<1>3. CASE Dag!SetContract
  BY <1>3, ContractStep
<1>4. CASE Dag!Submit
  BY <1>4, BindStep
<1>5. ASSUME NEW given \in BOOLEAN, Dag!Start(given)
      PROVE  DagInv'
  BY <1>5, StartStep
<1>6. ASSUME NEW n \in Members, Dag!Launch(n) \/ Dag!Finish(n)
      PROVE  DagInv'
  BY <1>6, LaunchStep, FinishStep
<1>7. CASE UNCHANGED Dag!vars
  <2>1. UNCHANGED <<draft, first, definition, params, answer, state, sent, started, finished>>
    BY <1>7 DEF Dag!vars
  <2>2. DagTyped'
    BY <2>1 DEF DagInv, DagTyped
  <2>3. BoundTo' /\ Dag!Rebindable' /\ Referenced'
    BY <2>1 DEF BoundTo, Dag!Rebindable, Referenced, DagInv
  <2>4. SentWhenReady'
    BY <2>1 DEF SentWhenReady, DagInv, Dag!Backed
  <2>5. QED
    BY <2>2, <2>3, <2>4 DEF DagInv, Dag!Parameters
<1>8. QED
  BY <1>1, <1>2, <1>3, <1>4, <1>5, <1>6, <1>7 DEF Dag!Next

\* DagInv is inductive, whatever the nodes and their inputs.
THEOREM DagInvariance == Spec => [](part = "dag" => DagInv)
<1>1. Init => (part = "dag" => DagInv)
  BY InitDag, ParametersAssumption DEF Init
<1>2. (part = "dag" => DagInv) /\ [Next]_svars => (part = "dag" => DagInv)'
  BY NextDag, PartStep
<1>3. QED
  BY <1>1, <1>2, PTL DEF Spec

\* The run of a DAG (DagSubmission, Executable): of the nodes that have not finished the
\* first one was sent, as the graph has no cycle.
LEMMA DagExecutable == DagInv => Dag!Executable
<1> SUFFICES ASSUME DagInv
             PROVE  Dag!Executable
  OBVIOUS
<1>1. \A n \in Members : /\ sent[n] <= 1
                         /\ sent[n] = 1 => Dag!Before(definition.edges, n) \subseteq finished
  BY DEF DagInv, SentWhenReady
<1>2. ASSUME state = "active"
      PROVE  \E n \in Members : sent[n] = 1 /\ n \notin finished
  <2> DEFINE some == Members \ finished
  <2>1. /\ finished # Members /\ finished \subseteq Members /\ Dag!Acyclic(definition.edges)
        /\ \A n \in Members : sent[n] = IF Dag!Before(definition.edges, n) \subseteq finished THEN 1 ELSE 0
    BY <1>2 DEF DagInv, DagTyped, BoundTo, SentWhenReady
  <2>2. PICK n \in some : Dag!Before(definition.edges, n) \cap some = {}
    <3>1. some \subseteq Members /\ some # {}
      BY <2>1
    <3>2. QED
      BY <2>1, <3>1 DEF Dag!Acyclic
  <2>3. Dag!Before(definition.edges, n) \subseteq Members
    BY DEF Dag!Before, Dag!Sources, Dag!Edges, DagInv, DagTyped, DefinitionType
  <2>4. QED
    BY <2>1, <2>2, <2>3
<1>3. state = "failed" => ~Dag!Backed
  BY DEF DagInv, SentWhenReady
<1>4. QED
  BY <1>1, <1>2, <1>3 DEF Dag!Executable

-------------------------------------------------------------------------------
(* The levels of a DAG. *)

\* A family of sets of finitely many elements has a set that no other one contains.
LEMMA LargestSet ==
    ASSUME NEW N, IsFiniteSet(N), NEW F \in SUBSET SUBSET N, F # {}
    PROVE  \E S \in F : \A R \in F : S \subseteq R => R = S
<1> DEFINE T == {N \ S : S \in F}
<1>1. IsWellFoundedOn(StrictSubsetOrdering(N), SUBSET N)
  BY FS_StrictSubsetOrderingWellFounded, FS_FiniteSubsetsOfFinite
<1>2. T \subseteq SUBSET N /\ T # {}
  <2>1. PICK S : S \in F
    OBVIOUS
  <2>2. N \ S \in T
    BY <2>1
  <2> HIDE DEF T
  <2>3. T \subseteq SUBSET N
    BY DEF T
  <2>4. QED
    BY <2>2, <2>3
<1>3. \E x \in T : \A y \in T : ~(<<y, x>> \in StrictSubsetOrdering(N))
  <2> HIDE DEF T
  <2>1. QED
    BY <1>1, <1>2, WFMin
<1>4. PICK S \in F : \A R \in F : ~(<<N \ R, N \ S>> \in StrictSubsetOrdering(N))
  BY <1>3
<1>5. ASSUME NEW R \in F, S \subseteq R
      PROVE  R = S
  <2>1. ~(<<N \ R, N \ S>> \in StrictSubsetOrdering(N))
    BY <1>4
  <2>2. N \ R \in SUBSET N /\ N \ S \in SUBSET N /\ N \ R \subseteq N \ S
    BY <1>5
  <2>3. N \ R = N \ S
    BY <2>1, <2>2 DEF StrictSubsetOrdering
  <2>4. QED
    BY <1>5, <2>3
<1>6. QED
  BY <1>5

\* Of finitely many numbers one is the greatest.
LEMMA Greatest ==
    ASSUME NEW S, IsFiniteSet(S), S # {}, NEW f, \A x \in S : f[x] \in Nat
    PROVE  /\ \E s \in S : \A x \in S : f[x] <= f[s]
           /\ \E s \in S : f[s] = Dag!Max({f[x] : x \in S}) /\ \A x \in S : f[x] <= f[s]
<1> DEFINE Under(s) == {x \in S : f[x] <= f[s]}
           F == {Under(s) : s \in S}
<1>1. F \in SUBSET SUBSET S /\ F # {}
  OBVIOUS
<1>2. PICK s \in S : \A x \in S : Under(s) \subseteq Under(x) => Under(x) = Under(s)
  <2>1. \E U \in F : \A R \in F : U \subseteq R => R = U
    <3> HIDE DEF F
    <3>1. QED
      BY <1>1, LargestSet
  <2>2. PICK U \in F : \A R \in F : U \subseteq R => R = U
    BY <2>1
  <2>3. PICK s \in S : U = Under(s)
    OBVIOUS
  <2>4. \A x \in S : Under(x) \in F
    OBVIOUS
  <2> HIDE DEF F, Under
  <2>5. QED
    BY <2>2, <2>3, <2>4
<1>3. ASSUME NEW x \in S
      PROVE  f[x] <= f[s]
  <2>1. SUFFICES ASSUME f[s] < f[x]
                 PROVE  FALSE
    OBVIOUS
  <2>2. Under(s) \subseteq Under(x)
    BY <2>1
  <2>3. x \in Under(x) /\ x \notin Under(s)
    BY <2>1
  <2>4. QED
    BY <1>2, <2>2, <2>3
<1>4. f[s] = Dag!Max({f[x] : x \in S})
  <2>1. \E y \in {f[x] : x \in S} : \A z \in {f[x] : x \in S} : y >= z
    BY <1>3
  <2>2. PICK t \in S : Dag!Max({f[x] : x \in S}) = f[t] /\ \A x \in S : f[t] >= f[x]
    BY <2>1 DEF Dag!Max
  <2>3. f[t] \in Nat /\ f[s] \in Nat /\ f[t] <= f[s] /\ f[t] >= f[s]
    BY <1>3, <2>2
  <2>4. QED
    BY <2>2, <2>3
<1>5. QED
  BY <1>3, <1>4

\* B says what each node of N waits for; nothing waits for itself in the end.
Ordered(N, B) ==
    /\ IsFiniteSet(N) /\ \A n \in N : B[n] \subseteq N
    /\ \A some \in SUBSET N \ {{}} : \E n \in some : B[n] \cap some = {}

Above(B, f, n) == IF B[n] = {} THEN 0 ELSE Dag!Max({f[m] : m \in B[n]}) + 1

\* A function that gives each node the number that prepare_for_strategy does exists ...
LEMMA LevelsExist ==
    ASSUME NEW N, NEW B, Ordered(N, B)
    PROVE  \E f : f = [n \in N |-> Above(B, f, n)]
<1> DEFINE F == {S \in SUBSET N : /\ \A n \in S : B[n] \subseteq S
                                  /\ \E f : f = [n \in S |-> Above(B, f, n)]}
<1>1. {} \in F
  <2> DEFINE e == [n \in {} |-> 0]
  <2>1. e = [n \in {} |-> Above(B, e, n)]
    OBVIOUS
  <2>2. QED
    BY <2>1
<1>2. PICK S \in F : \A R \in F : S \subseteq R => R = S
  <2>1. F \in SUBSET SUBSET N /\ F # {}
    BY <1>1
  <2> HIDE DEF F
  <2>2. QED
    BY <2>1, LargestSet DEF Ordered
<1>3. PICK f : f = [n \in S |-> Above(B, f, n)]
  OBVIOUS
<1>4. S = N
  <2>1. SUFFICES ASSUME S # N
                 PROVE  FALSE
    OBVIOUS
  <2>2. PICK n \in N \ S : B[n] \cap (N \ S) = {}
    BY <2>1 DEF Ordered
  <2>3. B[n] \subseteq S
    BY <2>2 DEF Ordered
  <2> DEFINE g == [x \in S \cup {n} |-> IF x \in S THEN f[x] ELSE Above(B, f, n)]
  <2>4. ASSUME NEW x \in S \cup {n}
        PROVE  Above(B, g, x) = Above(B, f, x)
    <3>1. B[x] \subseteq S
      BY <2>3, <2>4
    <3>2. {g[m] : m \in B[x]} = {f[m] : m \in B[x]}
      BY <3>1
    <3> HIDE DEF g
    <3>3. QED
      BY <3>2 DEF Above
  <2>5. \A x \in S \cup {n} : g[x] = Above(B, g, x)
    <3>1. \A x \in S : f[x] = Above(B, f, x)
      BY <1>3
    <3>2. \A x \in S \cup {n} : g[x] = Above(B, f, x)
      BY <2>2, <3>1
    <3> HIDE DEF g
    <3>3. QED
      BY <2>4, <3>2
  <2>6. g = [x \in S \cup {n} |-> Above(B, g, x)]
    <3> DEFINE h == [x \in S \cup {n} |-> Above(B, g, x)]
    <3>1. DOMAIN g = S \cup {n} /\ g = [x \in S \cup {n} |-> g[x]]
      OBVIOUS
    <3>2. \A x \in S \cup {n} : g[x] = h[x]
      BY <2>5
    <3> HIDE DEF g
    <3>3. QED
      BY <3>1, <3>2
  <2>7. S \cup {n} \in F
    <3>1. \A x \in S \cup {n} : B[x] \subseteq S \cup {n}
      BY <2>3
    <3> HIDE DEF g
    <3>2. QED
      BY <2>6, <3>1
  <2>8. QED
    BY <1>2, <2>2, <2>7
<1>5. QED
  BY <1>3, <1>4

\* A node is above all that it waits for, by one above one of these.
Levels(N, B, f) ==
    /\ f \in [N -> Nat]
    /\ \A n \in N : /\ \A m \in B[n] : f[m] < f[n]
                    /\ B[n] = {} => f[n] = 0
                    /\ B[n] # {} => \E m \in B[n] : f[n] = f[m] + 1

\* ... and whichever it is, its values are levels.
LEMMA LevelsAre ==
    ASSUME NEW N, NEW B, Ordered(N, B), NEW f, f = [n \in N |-> Above(B, f, n)]
    PROVE  Levels(N, B, f)
<1>1. /\ IsFiniteSet(N) /\ \A n \in N : B[n] \subseteq N
      /\ \A some \in SUBSET N \ {{}} : \E n \in some : B[n] \cap some = {}
  BY DEF Ordered
<1>2. DOMAIN f = N /\ f = [n \in N |-> f[n]] /\ \A n \in N : f[n] = Above(B, f, n)
  OBVIOUS
<1>3. ASSUME NEW n \in N, \A m \in B[n] : f[m] \in Nat
      PROVE  /\ f[n] \in Nat
             /\ \A m \in B[n] : f[m] < f[n]
             /\ B[n] = {} => f[n] = 0
             /\ B[n] # {} => \E m \in B[n] : f[n] = f[m] + 1
  <2>1. CASE B[n] = {}
    BY <1>2, <2>1 DEF Above
  <2>2. CASE B[n] # {}
    <3>1. IsFiniteSet(B[n])
      BY <1>1, FS_Subset
    <3>2. PICK s \in B[n] : /\ f[s] = Dag!Max({f[x] : x \in B[n]})
                            /\ \A x \in B[n] : f[x] <= f[s]
      BY <1>3, <2>2, <3>1, Greatest
    <3>3. f[n] = f[s] + 1
      BY <1>2, <2>2, <3>2 DEF Above
    <3>4. QED
      BY <1>3, <2>2, <3>2, <3>3
  <2>3. QED
    BY <2>1, <2>2
<1> DEFINE odd == {n \in N : f[n] \notin Nat}
<1>4. odd = {}
  <2>1. SUFFICES ASSUME odd # {}
                 PROVE  FALSE
    OBVIOUS
  <2>2. PICK n \in odd : B[n] \cap odd = {}
    BY <1>1, <2>1
  <2>3. n \in N /\ \A m \in B[n] : f[m] \in Nat
    BY <1>1, <2>2
  <2>4. QED
    BY <1>3, <2>2, <2>3
<1>5. \A n \in N : f[n] \in Nat /\ \A m \in B[n] : f[m] \in Nat
  BY <1>1, <1>4
<1>6. f \in [N -> Nat]
  BY <1>2, <1>5
<1>7. QED
  BY <1>3, <1>5, <1>6 DEF Levels

\* R is a strict order in which each node comes after those it waits for.
Along(N, B, R) ==
    /\ \A x, y, z \in N : <<x, y>> \in R /\ <<y, z>> \in R => <<x, z>> \in R
    /\ \A x \in N : <<x, x>> \notin R
    /\ \A n \in N : \A m \in B[n] : <<m, n>> \in R

\* There are as many nodes before a node (in any strict order that goes with B) as its
\* level says, at least.
LEMMA ChainBelow ==
    ASSUME NEW N, NEW B, Ordered(N, B), NEW f, Levels(N, B, f),
           NEW R, Along(N, B, R), NEW node \in N
    PROVE  \E C \in SUBSET N : Cardinality(C) = f[node] /\ \A c \in C : <<c, node>> \in R
<1> DEFINE Chain(n) == \E C \in SUBSET N : Cardinality(C) = f[n] /\ \A c \in C : <<c, n>> \in R
           odd == {n \in N : ~Chain(n)}
<1>1. /\ IsFiniteSet(N) /\ \A n \in N : B[n] \subseteq N
      /\ \A some \in SUBSET N \ {{}} : \E n \in some : B[n] \cap some = {}
  BY DEF Ordered
<1>2. ASSUME NEW n \in N, \A m \in B[n] : Chain(m)
      PROVE  Chain(n)
  <2>1. CASE B[n] = {}
    <3>1. f[n] = 0 /\ Cardinality({}) = 0
      BY <2>1, FS_EmptySet DEF Levels
    <3>2. QED
      BY <3>1
  <2>2. CASE B[n] # {}
    <3>1. PICK m \in B[n] : f[n] = f[m] + 1
      BY <2>2 DEF Levels
    <3>2. PICK C \in SUBSET N : Cardinality(C) = f[m] /\ \A c \in C : <<c, m>> \in R
      BY <1>2, <3>1
    <3>3. m \in N /\ m \notin C
      BY <1>1, <3>1, <3>2 DEF Along
    <3>4. Cardinality(C \cup {m}) = f[n]
      BY <1>1, <3>1, <3>2, <3>3, FS_Subset, FS_AddElement
    <3>5. \A c \in C \cup {m} : <<c, n>> \in R
      BY <3>1, <3>2, <3>3 DEF Along
    <3>6. QED
      BY <3>3, <3>4, <3>5
  <2>3. QED
    BY <2>1, <2>2
<1>3. odd = {}
  <2>1. SUFFICES ASSUME odd # {}
                 PROVE  FALSE
    OBVIOUS
  <2>2. PICK n \in odd : B[n] \cap odd = {}
    BY <1>1, <2>1
  <2>3. n \in N /\ \A m \in B[n] : Chain(m)
    BY <1>1, <2>2
  <2>4. QED
    BY <1>2, <2>2, <2>3
<1>4. QED
  BY <1>3

\* What waits for a node, in the other direction, is ordered too.
LEMMA OrderedBack ==
    ASSUME NEW N, NEW B, Ordered(N, B), NEW f, Levels(N, B, f),
           NEW A, \A n \in N : A[n] = {m \in N : n \in B[m]}
    PROVE  Ordered(N, A)
<1>1. ASSUME NEW some \in SUBSET N \ {{}}
      PROVE  \E n \in some : A[n] \cap some = {}
  <2>1. IsFiniteSet(some) /\ some # {} /\ \A x \in some : f[x] \in Nat
    BY FS_Subset DEF Ordered, Levels
  <2>2. PICK n \in some : \A x \in some : f[x] <= f[n]
    BY <2>1, Greatest
  <2>3. \A m \in A[n] : f[n] < f[m] /\ f[m] \in Nat
    BY DEF Levels
  <2>4. \A m \in A[n] : m \notin some
    BY <2>1, <2>2, <2>3
  <2>5. QED
    BY <2>4
<1>2. QED
  BY <1>1 DEF Ordered

\* Levels in the two directions grow the opposite way, and together they are less than
\* the number of nodes: what is below a node and what is above it are different nodes.
LEMMA TwoLevels ==
    ASSUME NEW N, NEW B, Ordered(N, B), NEW f, Levels(N, B, f),
           NEW A, \A n \in N : A[n] = {m \in N : n \in B[m]}, NEW g, Levels(N, A, g)
    PROVE  \A n \in N : f[n] + g[n] < Cardinality(N)
<1> DEFINE R == {p \in N \X N : f[p[1]] < f[p[2]]}
           Q == {p \in N \X N : f[p[2]] < f[p[1]]}
<1>1. /\ \A x, y \in N : <<x, y>> \in R <=> f[x] < f[y]
      /\ \A x, y \in N : <<x, y>> \in Q <=> f[y] < f[x]
      /\ \A x \in N : f[x] \in Nat /\ g[x] \in Nat
  BY DEF Levels
<1>2. \A n \in N : \A m \in B[n] : <<m, n>> \in R
  BY <1>1 DEF Ordered, Levels
<1>3. \A n \in N : \A m \in A[n] : <<m, n>> \in Q
  BY <1>1 DEF Ordered, Levels
<1>4. Ordered(N, A)
  BY OrderedBack
<1> HIDE DEF R, Q
<1>5. SUFFICES ASSUME NEW n \in N
               PROVE  f[n] + g[n] < Cardinality(N)
  OBVIOUS
<1>6. PICK C \in SUBSET N : Cardinality(C) = f[n] /\ \A c \in C : <<c, n>> \in R
  <2>1. Along(N, B, R)
    BY <1>1, <1>2 DEF Along
  <2>2. QED
    BY <2>1, ChainBelow
<1>7. PICK E \in SUBSET N : Cardinality(E) = g[n] /\ \A e \in E : <<e, n>> \in Q
  <2>1. Along(N, A, Q)
    BY <1>1, <1>3 DEF Along
  <2>2. QED
    BY <1>4, <2>1, ChainBelow
<1>8. C \cap E = {} /\ n \notin C /\ n \notin E
  <2>1. \A c \in C : f[c] < f[n] /\ f[c] \in Nat
    BY <1>1, <1>6
  <2>2. \A e \in E : f[n] < f[e] /\ f[e] \in Nat
    BY <1>1, <1>7
  <2>3. QED
    BY <1>1, <2>1, <2>2
<1>9. Cardinality(C \cup E \cup {n}) = f[n] + g[n] + 1
  <2>1. IsFiniteSet(C) /\ IsFiniteSet(E)
    BY FS_Subset DEF Ordered
  <2>2. IsFiniteSet(C \cup E) /\ Cardinality(C \cup E) = f[n] + g[n]
    <3>1. Cardinality(C \cup E) = Cardinality(C) + Cardinality(E) - Cardinality(C \cap E)
      BY <2>1, FS_Union
    <3>2. Cardinality(C \cap E) = 0
      BY <1>8, FS_EmptySet
    <3>3. QED
      BY <1>1, <1>6, <1>7, <2>1, <3>1, <3>2, FS_Union
  <2>3. QED
    BY <1>8, <2>2, FS_AddElement
<1>10. Cardinality(C \cup E \cup {n}) <= Cardinality(N) /\ Cardinality(N) \in Nat
  BY FS_Subset, FS_CardinalityType DEF Ordered
<1>11. QED
  BY <1>1, <1>9, <1>10

\* An instance has its own copy of the operators of FiniteSets.
LEMMA SameDagCount ==
    \A S : Dag!Cardinality(S) = Cardinality(S) /\ (Dag!IsFiniteSet(S) <=> IsFiniteSet(S))
BY DEF Dag!Cardinality, Cardinality, Dag!IsFiniteSet, IsFiniteSet

\* What a task of the DAG waits for, and what waits for it.
Waits == [n \in Members |-> Dag!Before(definition.edges, n)]
Follow == [n \in Members |-> Dag!After(n)]

\* The two functions of prepare_for_strategy are such levels.
LEMMA AncestorsAre ==
    ASSUME Ordered(Members, Waits)
    PROVE  Levels(Members, Waits, Dag!Ancestors)
<1> DEFINE L == [n \in Members |-> Above(Waits, Dag!Ancestors, n)]
<1>1. \A f : [n \in Members |-> LET before == Dag!Before(definition.edges, n)
                                IN IF before = {} THEN 0 ELSE Dag!Max({f[m] : m \in before}) + 1]
             = [n \in Members |-> Above(Waits, f, n)]
  BY DEF Above, Waits
<1>2. \E f : f = [n \in Members |-> LET before == Dag!Before(definition.edges, n)
                                    IN IF before = {} THEN 0 ELSE Dag!Max({f[m] : m \in before}) + 1]
  <2>1. \E f : f = [n \in Members |-> Above(Waits, f, n)]
    BY LevelsExist
  <2>2. QED
    BY <1>1, <2>1
<1>3. Dag!Ancestors = L
  BY <1>1, <1>2 DEF Dag!Ancestors
<1>4. QED
  BY <1>3, LevelsAre

\* The same for those that wait for a task.
LEMMA DescendantsAre ==
    ASSUME Ordered(Members, Follow)
    PROVE  Levels(Members, Follow, Dag!Descendants)
<1> DEFINE L == [n \in Members |-> Above(Follow, Dag!Descendants, n)]
<1>1. \A f : [n \in Members |-> IF Dag!After(n) = {} THEN 0 ELSE Dag!Max({f[m] : m \in Dag!After(n)}) + 1]
             = [n \in Members |-> Above(Follow, f, n)]
  BY DEF Above, Follow
<1>2. \E f : f = [n \in Members |-> IF Dag!After(n) = {} THEN 0 ELSE Dag!Max({f[m] : m \in Dag!After(n)}) + 1]
  <2>1. \E f : f = [n \in Members |-> Above(Follow, f, n)]
    BY LevelsExist
  <2>2. QED
    BY <1>1, <2>1
<1>3. Dag!Descendants = L
  BY <1>1, <1>2 DEF Dag!Descendants
<1>4. QED
  BY <1>3, LevelsAre

\* The levels of a DAG that runs (DagSubmission, Levelled).
LEMMA DagLevelled == DagInv => Dag!Levelled
<1> SUFFICES ASSUME DagInv, state = "active"
             PROVE  /\ \A n \in Members, m \in Members : n \in Dag!Before(definition.edges, m) =>
                          /\ Dag!Ancestors[n] < Dag!Ancestors[m]
                          /\ Dag!Descendants[m] < Dag!Descendants[n]
                    /\ \A n \in Members :
                          Dag!Ancestors[n] + Dag!Descendants[n] < Dag!Cardinality(Members)
  BY DEF Dag!Levelled
<1>1. Ordered(Members, Waits)
  <2>1. /\ IsFiniteSet(Members) /\ Dag!Acyclic(definition.edges) /\ definition \in DefinitionType
    BY SameDagCount DEF DagInv, DagTyped, BoundTo, SentWhenReady, Dag!Parameters
  <2>2. \A n \in Members : Waits[n] = Dag!Before(definition.edges, n) /\ Waits[n] \subseteq Members
    BY <2>1 DEF Waits, Dag!Before, Dag!Sources, Dag!Edges, DefinitionType
  <2>3. QED
    BY <2>1, <2>2 DEF Ordered, Dag!Acyclic
<1>2. Levels(Members, Waits, Dag!Ancestors)
  BY <1>1, AncestorsAre
<1>3. \A n \in Members : Follow[n] = {m \in Members : n \in Waits[m]}
  BY DEF Follow, Waits, Dag!After
<1>4. Ordered(Members, Follow)
  BY <1>1, <1>2, <1>3, OrderedBack
<1>5. Levels(Members, Follow, Dag!Descendants)
  BY <1>4, DescendantsAre
<1>6. ASSUME NEW n \in Members, NEW m \in Members, n \in Dag!Before(definition.edges, m)
      PROVE  /\ Dag!Ancestors[n] < Dag!Ancestors[m]
             /\ Dag!Descendants[m] < Dag!Descendants[n]
  <2>1. n \in Waits[m] /\ m \in Follow[n]
    BY <1>3, <1>6 DEF Waits
  <2>2. QED
    BY <1>2, <1>5, <2>1 DEF Levels
<1>7. \A n \in Members : Dag!Ancestors[n] + Dag!Descendants[n] < Dag!Cardinality(Members)
  <2>1. \A n \in Members : Dag!Ancestors[n] + Dag!Descendants[n] < Cardinality(Members)
    BY <1>1, <1>2, <1>3, <1>5, TwoLevels
  <2>2. QED
    BY <2>1, SameDagCount
<1>8. QED
  BY <1>6, <1>7

\* A task is sent once and finds its inputs, and a run does not stop half-way; a workflow
\* id stays bound to its specification; the levels that HACS weighs tasks by are true to
\* the graph.
THEOREM DagStaysSound == Spec => []DagSound
<1>1. DagInv => Dag!DagSound
  BY DagExecutable, DagLevelled DEF DagInv, Dag!DagSound
<1>2. (part = "dag" => DagInv) => DagSound
  BY <1>1 DEF DagSound
<1>3. QED
  BY <1>2, DagInvariance, PTL

-------------------------------------------------------------------------------
(* Repairs: MemoryRepair. *)

AnyNode    == Nodes \cup {None}
AnyType    == Repairs!ErrorTypes \cup {"cuda_oom", "resource_cleanup_failed", "resource_capacity_exceeded"}
TaskType   == [request : Nat, attempt : Nat, node : AnyNode, avoid : SUBSET Nodes, corrections : Nat]
EntryType  == [type : AnyType, node : AnyNode, asked : Nat, needed : Nat,
               outcome : {"open", "failed", "succeeded"}]
RepairType == [amount : Nat, needed : Nat]
MsgType    == [run : Runs, attempt : Nat, ok : BOOLEAN, peak : Nat, required : Nat]
Profile    == [samples : Nat, peak : Nat, bound : Nat]
Phases     == {"none", "refused", "queued", "running", "recovering", "finished", "failed", "over"}

RepairTyped ==
    /\ phase \in [Runs -> Phases] /\ task \in [Runs -> TaskType]
    /\ repair \in [Runs -> RepairType] /\ trace \in [Runs -> Seq(EntryType)]
    /\ channel \in Seq(MsgType) /\ counted \subseteq Runs \X Nat
    /\ profiles \in [Repairs!Contexts -> Profile]

\* Each attempt but the one that is running has an entry; a repair is under way only
\* for a task that may be retried, and asks for more.
Attempts(r) ==
    LET n == Len(trace[r])
    IN /\ phase[r] \in {"none", "refused"} => n = 0 /\ task[r].node = None /\ task[r].attempt = 0
       /\ phase[r] = "queued" => n = task[r].attempt /\ n <= Retries[r]
       /\ phase[r] \in {"running", "recovering", "finished"} => task[r].attempt = n + 1
       /\ phase[r] \in {"running", "recovering"} => task[r].node \in Nodes
       /\ phase[r] \in {"running", "recovering", "finished", "over"} => n <= Retries[r]
       /\ phase[r] = "failed" => n \in 1..(Retries[r] + 1)
       /\ phase[r] = "recovering" => /\ n < Retries[r] /\ repair[r].amount > task[r].request
                                     /\ repair[r].amount >= repair[r].needed
                                     /\ repair[r].amount <= Limit[r]
       /\ Repairs!Active(r) => task[r].request <= Limit[r] /\ task[r].node \notin task[r].avoid

\* What each entry says: an active task has gone beyond it.
Entries(r) ==
    \A i \in DOMAIN trace[r] :
        LET e == trace[r][i]
        IN /\ i < Len(trace[r]) \/ phase[r] = "failed" => e.outcome = "failed"
           /\ i = Len(trace[r]) =>
                 /\ Repairs!Active(r) => e.outcome = "open"
                 /\ phase[r] = "finished" => e.outcome = "succeeded"
           /\ Repairs!Active(r) =>
                 /\ e.type = "cuda_oom" => task[r].request > e.asked /\ task[r].request >= e.needed
                 /\ e.type = "node_lost" => e.node \in task[r].avoid

Key(j) == <<channel[j].run, channel[j].attempt>>

\* An event is about an attempt that has an entry, or is the success of the last.
Sensible(r, k) ==
    k <= Len(trace[r]) \/ (phase[r] = "finished" /\ k = task[r].attempt)

Reports(r) ==
    \A k \in Nat :
       /\ <<r, k>> \in counted => Sensible(r, k)
       /\ \A j \in DOMAIN channel : Key(j) = <<r, k>> =>
             /\ Sensible(r, k)
             /\ channel[j].ok <=> (phase[r] = "finished" /\ k = task[r].attempt)

\* The event of a retry is there until it is counted.
Reported(r) ==
    Repairs!Active(r) =>
        \A k \in DOMAIN trace[r] :
            <<r, k>> \in counted \/ \E j \in DOMAIN channel : Key(j) = <<r, k>>

\* The first event of a retry that asked for more memory says so, and the history does
\* when it is counted.
Raised(r) ==
    \A k \in DOMAIN trace[r] :
        trace[r][k].type = "cuda_oom" /\ (phase[r] = "failed" => k < Len(trace[r])) =>
            IF <<r, k>> \in counted THEN profiles[Repairs!ContextOf(r)].bound > trace[r][k].asked
            ELSE \A j \in DOMAIN channel :
                    Key(j) = <<r, k>> /\ (\A i \in 1..(j - 1) : Key(i) # <<r, k>>)
                    => channel[j].required > trace[r][k].asked

Successes(c) ==
    {r \in Runs : /\ Repairs!ContextOf(r) = c /\ phase[r] = "finished"
                  /\ <<r, task[r].attempt>> \in counted}

Counts == \A c \in Repairs!Contexts : profiles[c].samples = Cardinality(Successes(c))

RepairInv ==
    /\ Repairs!Parameters /\ RepairTyped /\ Counts
    /\ \A r \in Runs : Attempts(r) /\ Entries(r) /\ Reports(r) /\ Reported(r) /\ Raised(r)

Same(r) == phase'[r] = phase[r] /\ task'[r] = task[r] /\ repair'[r] = repair[r] /\ trace'[r] = trace[r]

-------------------------------------------------------------------------------

\* The larger of two numbers.
LEMMA MaxOfTwo ==
    ASSUME NEW a \in Nat, NEW b \in Nat
    PROVE  LET m == Repairs!Max({a, b}) IN m \in {a, b} /\ m >= a /\ m >= b
<1>1. \E x \in {a, b} : \A y \in {a, b} : x >= y
  <2>1. CASE a >= b
    BY <2>1
  <2>2. CASE b >= a
    BY <2>2
  <2>3. QED
    BY <2>1, <2>2
<1>2. QED
  BY <1>1 DEF Repairs!Max

\* The same for four.
LEMMA MaxOfFour ==
    ASSUME NEW a \in Nat, NEW b \in Nat, NEW c \in Nat, NEW d \in Nat
    PROVE  LET m == Repairs!Max({a, b, c, d})
           IN m \in {a, b, c, d} /\ m >= a /\ m >= b /\ m >= c /\ m >= d
<1> DEFINE S == {a, b, c, d}
<1>1. \E x \in {a, b} : x >= a /\ x >= b
  BY MaxOfTwo
<1>2. \E x \in {c, d} : x >= c /\ x >= d
  BY MaxOfTwo
<1>3. \E x \in S : \A y \in S : x >= y
  BY <1>1, <1>2
<1>4. QED
  BY <1>3 DEF Repairs!Max

\* What a submission asks for is an amount.
LEMMA RecommendedType ==
    ASSUME RepairInv, NEW r \in Runs
    PROVE  Repairs!Recommended(r) \in Nat
<1> DEFINE prof == profiles[Repairs!ContextOf(r)]
<1>1. prof \in Profile /\ Declared \in Nat
  BY DEF RepairInv, RepairTyped, Repairs!Parameters, Repairs!Contexts
<1>2. Repairs!Margin(prof.peak) \in Nat /\ prof.bound \in Nat
  BY <1>1 DEF Repairs!Margin, Profile
<1> DEFINE S == {Declared, Repairs!Margin(prof.peak), prof.bound}
<1>3. Repairs!Max(S) \in S
  <2>1. {Declared, Repairs!Margin(prof.peak), prof.bound, prof.bound} = S
    OBVIOUS
  <2>2. QED
    BY <1>1, <1>2, <2>1, MaxOfFour
<1>4. QED
  BY <1>1, <1>2, <1>3 DEF Repairs!Recommended

\* After a failure more is asked for, and no less than was needed.
LEMMA AdjustedGrows ==
    ASSUME NEW asked \in Nat, NEW needed \in Nat
    PROVE  LET amount == Repairs!Adjusted(asked, needed)
           IN amount \in Nat /\ amount > asked /\ amount >= needed
<1>1. Repairs!Margin(needed) \in Nat /\ Repairs!Margin(needed) >= needed
  BY DEF Repairs!Margin
<1>2. Repairs!Growth(asked) \in Nat
  BY DEF Repairs!Growth
<1>3. asked + 256 \in Nat /\ asked + 256 > asked
  OBVIOUS
<1>4. QED
  BY <1>1, <1>2, <1>3, MaxOfFour DEF Repairs!Adjusted

\* An entry keeps all but its outcome.
LEMMA EntryOutcome ==
    ASSUME NEW e \in EntryType, NEW o \in {"failed", "succeeded"}
    PROVE  LET c == [e EXCEPT !.outcome = o]
           IN /\ c \in EntryType /\ c.outcome = o /\ c.type = e.type /\ c.node = e.node
              /\ c.asked = e.asked /\ c.needed = e.needed
BY DEF EntryType

\* One member of a sequence is replaced.
LEMMA Replaced ==
    ASSUME NEW S, NEW s \in Seq(S), NEW p \in DOMAIN s, NEW x \in S
    PROVE  LET c == [s EXCEPT ![p] = x]
           IN /\ c \in Seq(S) /\ Len(c) = Len(s) /\ c[p] = x
              /\ \A i \in DOMAIN s : i # p => c[i] = s[i]
OBVIOUS

\* The open entry is closed, if there is one; all else stays.
LEMMA Closing ==
    ASSUME NEW s \in Seq(EntryType), NEW o \in {"failed", "succeeded"},
           \A i, j \in DOMAIN s : s[i].outcome = "open" /\ s[j].outcome = "open" => i = j
    PROVE  /\ Repairs!Closed(s, o) \in Seq(EntryType) /\ Len(Repairs!Closed(s, o)) = Len(s)
           /\ \A i \in DOMAIN s :
                 LET c == Repairs!Closed(s, o)[i]
                 IN /\ c.outcome = IF s[i].outcome = "open" THEN o ELSE s[i].outcome
                    /\ c.type = s[i].type /\ c.node = s[i].node
                    /\ c.asked = s[i].asked /\ c.needed = s[i].needed
<1> DEFINE open == {i \in DOMAIN s : s[i].outcome = "open"}
<1>1. CASE open = {}
  <2>1. Repairs!Closed(s, o) = s
    BY <1>1 DEF Repairs!Closed
  <2>2. QED
    BY <1>1, <2>1
<1>2. CASE open # {}
  <2>1. PICK p \in DOMAIN s : s[p].outcome = "open"
    BY <1>2
  <2> DEFINE e == [s[p] EXCEPT !.outcome = o]
  <2>2. open = {p} /\ p \in Nat
    BY <2>1
  <2>3. Repairs!Max({p}) = p
    BY <2>2 DEF Repairs!Max
  <2>4. Repairs!Closed(s, o) = [s EXCEPT ![p] = e]
    BY <2>2, <2>3 DEF Repairs!Closed
  <2>5. /\ e \in EntryType /\ e.outcome = o /\ e.type = s[p].type /\ e.node = s[p].node
        /\ e.asked = s[p].asked /\ e.needed = s[p].needed
    <3>1. s[p] \in EntryType
      OBVIOUS
    <3>2. QED
      BY <3>1, EntryOutcome
  <2> HIDE DEF e
  <2>6. /\ Repairs!Closed(s, o) \in Seq(EntryType) /\ Len(Repairs!Closed(s, o)) = Len(s)
        /\ Repairs!Closed(s, o)[p] = e
        /\ \A i \in DOMAIN s : i # p => Repairs!Closed(s, o)[i] = s[i]
    BY <2>4, <2>5, Replaced
  <2>7. \A i \in DOMAIN s : i # p => s[i].outcome # "open"
    BY <2>1
  <2>8. QED
    BY <2>1, <2>5, <2>6, <2>7
<1>3. QED
  BY <1>1, <1>2

\* The entries of an active task: all but the last have failed, which is open.
LEMMA OpenTrace ==
    ASSUME RepairInv, NEW r \in Runs, Repairs!Active(r)
    PROVE  /\ trace[r] \in Seq(EntryType) /\ Len(trace[r]) \in Nat /\ DOMAIN trace[r] = 1..Len(trace[r])
           /\ \A i \in DOMAIN trace[r] :
                 trace[r][i].outcome = IF i = Len(trace[r]) THEN "open" ELSE "failed"
BY DEF RepairInv, RepairTyped, Entries

\* When the task goes on or has succeeded, the last is closed.
LEMMA ClosedTrace ==
    ASSUME RepairInv, NEW r \in Runs, Repairs!Active(r), NEW o \in {"failed", "succeeded"}
    PROVE  LET c == Repairs!Closed(trace[r], o)
           IN /\ c \in Seq(EntryType) /\ Len(c) = Len(trace[r])
              /\ \A i \in DOMAIN trace[r] :
                    /\ c[i].outcome = IF i = Len(trace[r]) THEN o ELSE "failed"
                    /\ c[i].type = trace[r][i].type /\ c[i].node = trace[r][i].node
                    /\ c[i].asked = trace[r][i].asked /\ c[i].needed = trace[r][i].needed
<1>1. /\ trace[r] \in Seq(EntryType)
      /\ \A i \in DOMAIN trace[r] :
            trace[r][i].outcome = IF i = Len(trace[r]) THEN "open" ELSE "failed"
  BY OpenTrace
<1>2. \A i, j \in DOMAIN trace[r] : trace[r][i].outcome = "open" /\ trace[r][j].outcome = "open" => i = j
  BY <1>1
<1>3. QED
  BY <1>1, <1>2, Closing

\* When it has failed, so has the new entry.
LEMMA FailedTrace ==
    ASSUME RepairInv, NEW r \in Runs, Repairs!Active(r), NEW e \in EntryType, e.outcome = "failed"
    PROVE  LET c == Repairs!Closed(Append(trace[r], e), "failed")
               n == Len(trace[r])
           IN /\ c \in Seq(EntryType) /\ Len(c) = n + 1
              /\ \A i \in 1..(n + 1) : c[i].outcome = "failed"
              /\ \A i \in 1..n : c[i].type = trace[r][i].type /\ c[i].asked = trace[r][i].asked
<1> DEFINE s == Append(trace[r], e)
           n == Len(trace[r])
<1>1. /\ s \in Seq(EntryType) /\ n \in Nat /\ Len(s) = n + 1 /\ DOMAIN s = 1..(n + 1)
      /\ \A i \in 1..n : s[i] = trace[r][i] /\ s[i].outcome = IF i = n THEN "open" ELSE "failed"
      /\ s[n + 1].outcome = "failed"
  BY OpenTrace
<1> HIDE DEF s
<1>2. \A i, j \in DOMAIN s : s[i].outcome = "open" /\ s[j].outcome = "open" => i = j
  BY <1>1
<1>3. /\ Repairs!Closed(s, "failed") \in Seq(EntryType) /\ Len(Repairs!Closed(s, "failed")) = n + 1
      /\ \A i \in DOMAIN s :
            LET c == Repairs!Closed(s, "failed")[i]
            IN /\ c.outcome = IF s[i].outcome = "open" THEN "failed" ELSE s[i].outcome
               /\ c.type = s[i].type /\ c.asked = s[i].asked
  BY <1>1, <1>2, Closing
<1>4. \A i \in 1..(n + 1) : Repairs!Closed(s, "failed")[i].outcome = "failed"
  <2>1. ASSUME NEW i \in 1..(n + 1)
        PROVE  s[i].outcome \in {"open", "failed"}
    <3>1. CASE i = n + 1
      BY <1>1, <3>1
    <3>2. CASE i \in 1..n
      BY <1>1, <3>2
    <3>3. QED
      BY <1>1, <3>1, <3>2
  <2>2. QED
    BY <1>1, <1>3, <2>1
<1>5. ASSUME NEW i \in 1..n
      PROVE  /\ Repairs!Closed(s, "failed")[i].type = trace[r][i].type
             /\ Repairs!Closed(s, "failed")[i].asked = trace[r][i].asked
  <2>1. i \in DOMAIN s /\ s[i] = trace[r][i]
    BY <1>1
  <2>2. QED
    BY <1>3, <2>1
<1>6. QED
  BY <1>1, <1>3, <1>4, <1>5 DEF s

-------------------------------------------------------------------------------

\* A run that a step is not about.
LEMMA OtherRun ==
    ASSUME NEW s \in Runs, Same(s), Attempts(s), Entries(s)
    PROVE  Attempts(s)' /\ Entries(s)'
BY DEF Same, Attempts, Entries, Repairs!Active

\* A step without an event: the entries stay, and no run comes to its end.
LEMMA QuietStep ==
    ASSUME RepairInv, NEW r \in Runs, \A s \in Runs \ {r} : Same(s),
           UNCHANGED <<profiles, counted, channel>>, trace'[r] = trace[r],
           phase[r] \in {"none", "queued", "running"},
           phase'[r] \in {"refused", "queued", "running", "recovering"}
    PROVE  Counts' /\ \A s \in Runs : Reports(s)' /\ Reported(s)' /\ Raised(s)'
<1>1. \A s \in Runs : /\ trace'[s] = trace[s]
                      /\ phase[s] = "finished" => task'[s] = task[s]
                      /\ phase'[s] = "finished" <=> phase[s] = "finished"
                      /\ phase'[s] = "failed" <=> phase[s] = "failed"
  BY DEF Same
<1>2. \A j : Key(j)' = Key(j)
  BY DEF Key
<1>3. Counts'
  <2>1. \A c : Successes(c)' = Successes(c)
    BY <1>1 DEF Successes, Repairs!ContextOf
  <2>2. QED
    BY <2>1 DEF Counts, RepairInv
<1>4. ASSUME NEW s \in Runs
      PROVE  Reports(s)' /\ Reported(s)' /\ Raised(s)'
  <2>1. Attempts(s) /\ Reports(s) /\ Reported(s) /\ Raised(s) /\ trace[s] \in Seq(EntryType)
    BY DEF RepairInv, RepairTyped
  <2>2. \A k : Sensible(s, k)' <=> Sensible(s, k)
    BY <1>1 DEF Sensible
  <2>3. Reports(s)'
    BY <1>1, <1>2, <2>1, <2>2 DEF Reports
  <2>4. Raised(s)'
    BY <1>1, <1>2, <2>1 DEF Raised, Repairs!ContextOf
  <2>5. Repairs!Active(s)' => Repairs!Active(s) \/ trace[s] = <<>>
    BY <2>1 DEF Same, Repairs!Active, Attempts
  <2>6. Reported(s)'
    BY <1>1, <1>2, <2>1, <2>5 DEF Reported
  <2>7. QED
    BY <2>3, <2>4, <2>6
<1>5. QED
  BY <1>3, <1>4

\* An attempt ends with an event: the last one, with an entry more, or with success.
LEMMA SendStep ==
    ASSUME RepairInv, NEW r \in Runs, \A s \in Runs \ {r} : Same(s), NEW m \in MsgType,
           UNCHANGED <<profiles, counted>>, channel' = Append(channel, m),
           m.run = r, m.attempt = task[r].attempt, task'[r].attempt = task[r].attempt,
           Repairs!Active(r), trace'[r] \in Seq(EntryType),
           \A k \in DOMAIN trace[r] : /\ trace'[r][k].type = trace[r][k].type
                                      /\ trace'[r][k].asked = trace[r][k].asked,
           \/ /\ phase'[r] = "finished" /\ m.ok /\ Len(trace'[r]) = Len(trace[r])
              /\ task[r].attempt = Len(trace[r]) + 1
           \/ /\ phase'[r] = "failed" /\ ~m.ok /\ Len(trace'[r]) = Len(trace[r]) + 1
              /\ task[r].attempt \in {Len(trace[r]), Len(trace[r]) + 1}
           \/ /\ phase'[r] = "queued" /\ ~m.ok /\ Len(trace'[r]) = Len(trace[r]) + 1
              /\ task[r].attempt = Len(trace[r]) + 1
              /\ LET e == trace'[r][Len(trace[r]) + 1]
                 IN e.type = "cuda_oom" => m.required > e.asked
    PROVE  Counts' /\ \A s \in Runs : Reports(s)' /\ Reported(s)' /\ Raised(s)'
<1> DEFINE n == Len(trace[r])
           k0 == task[r].attempt
           last == Len(channel) + 1
<1>1. /\ n \in Nat /\ k0 \in Nat /\ DOMAIN trace[r] = 1..n /\ phase[r] \notin {"finished", "failed"}
      /\ k0 \in {n, n + 1} /\ Len(trace'[r]) \in {n, n + 1} /\ DOMAIN trace'[r] = 1..Len(trace'[r])
      /\ k0 <= Len(trace'[r]) \/ phase'[r] = "finished"
      /\ phase'[r] = "finished" => k0 = n + 1
      /\ phase'[r] = "finished" <=> m.ok
  BY DEF Repairs!Active, TaskType, RepairInv, RepairTyped
<1>2. /\ last \in Nat /\ DOMAIN channel = 1..(last - 1) /\ DOMAIN channel' = 1..last
      /\ channel'[last] = m
      /\ \A j \in DOMAIN channel : channel'[j] = channel[j] /\ channel[j] \in MsgType
  BY DEF RepairInv, RepairTyped
<1>3. \A j \in DOMAIN channel' : Key(j)' = IF j = last THEN <<r, k0>> ELSE Key(j)
  BY <1>2 DEF Key
<1>4. /\ \A k \in Nat : <<r, k>> \in counted => k <= n
      /\ \A k \in Nat, j \in DOMAIN channel : Key(j) = <<r, k>> => k <= n /\ ~channel[j].ok
  BY <1>1 DEF Reports, Sensible, RepairInv
<1>5. ASSUME NEW s \in Runs \ {r}
      PROVE  /\ Same(s) /\ Reports(s) /\ Reported(s) /\ Raised(s) /\ trace[s] \in Seq(EntryType)
             /\ \A k : <<s, k>> # <<r, k0>>
  BY DEF RepairInv, RepairTyped
<1>6. Reported(r) /\ Raised(r)
  BY DEF RepairInv
<1> HIDE DEF n, k0, last
<1>7. ASSUME NEW s \in Runs
      PROVE  Reports(s)'
  <2>1. CASE s # r
    <3>1. Same(s) /\ Reports(s) /\ \A k : Sensible(s, k)' <=> Sensible(s, k)
      BY <1>5, <2>1 DEF Same, Sensible
    <3>2. ASSUME NEW k \in Nat, NEW j \in DOMAIN channel', Key(j)' = <<s, k>>
          PROVE  j \in DOMAIN channel /\ Key(j) = <<s, k>> /\ channel'[j] = channel[j]
      BY <1>2, <1>3, <1>5, <2>1, <3>2
    <3>3. QED
      BY <3>1, <3>2 DEF Reports, Same
  <2>2. CASE s = r
    <3>1. ASSUME NEW k \in Nat, k <= n \/ k = k0
          PROVE  Sensible(r, k)'
      BY <1>1, <3>1 DEF Sensible, k0
    <3>2. ASSUME NEW k \in Nat, NEW j \in DOMAIN channel', Key(j)' = <<r, k>>
          PROVE  /\ k <= n \/ k = k0
                 /\ channel'[j].ok <=> (phase'[r] = "finished" /\ k = task'[r].attempt)
      <4>1. CASE j # last
        <5>1. j \in DOMAIN channel /\ Key(j) = <<r, k>> /\ channel'[j] = channel[j]
          BY <1>2, <1>3, <3>2, <4>1
        <5>2. QED
          BY <1>1, <1>4, <5>1 DEF k0
      <4>2. CASE j = last
        <5>1. k = k0 /\ channel'[j] = m
          BY <1>2, <1>3, <3>2, <4>2
        <5>2. QED
          BY <1>1, <5>1 DEF k0
      <4>3. QED
        BY <4>1, <4>2
    <3>3. QED
      BY <1>4, <2>2, <3>1, <3>2 DEF Reports
  <2>3. QED
    BY <2>1, <2>2
<1>8. Counts'
  <2>1. ASSUME NEW c, NEW s \in Runs
        PROVE  s \in Successes(c)' <=> s \in Successes(c)
    <3>1. CASE s = r
      <4>1. r \notin Successes(c)
        BY <1>1 DEF Successes
      <4>2. phase'[r] = "finished" => <<r, task'[r].attempt>> \notin counted
        BY <1>1, <1>4 DEF k0
      <4>3. QED
        BY <3>1, <4>1, <4>2 DEF Successes
    <3>2. CASE s # r
      BY <1>5, <3>2 DEF Successes, Same, Repairs!ContextOf
    <3>3. QED
      BY <3>1, <3>2
  <2>2. ASSUME NEW c
        PROVE  Successes(c)' = Successes(c)
    <3>1. Successes(c) \subseteq Runs /\ Successes(c)' \subseteq Runs
      BY DEF Successes
    <3>2. \A s \in Runs : s \in Successes(c)' <=> s \in Successes(c)
      BY <2>1
    <3>3. QED
      BY <3>1, <3>2
  <2>3. QED
    BY <2>2 DEF Counts, RepairInv
<1>9. ASSUME NEW s \in Runs
      PROVE  Reported(s)'
  <2>1. SUFFICES ASSUME Repairs!Active(s)', NEW k \in DOMAIN trace'[s], <<s, k>> \notin counted
                 PROVE  \E j \in DOMAIN channel' : Key(j)' = <<s, k>>
    BY DEF Reported
  <2>2. CASE k \in DOMAIN trace[s] /\ Repairs!Active(s)
    <3>1. PICK j \in DOMAIN channel : Key(j) = <<s, k>>
      BY <1>5, <1>6, <2>1, <2>2 DEF Reported
    <3>2. QED
      BY <1>2, <1>3, <3>1
  <2>3. CASE s = r /\ k \notin DOMAIN trace[s]
    <3>1. phase'[r] \notin {"finished", "failed"}
      BY <2>1, <2>3 DEF Repairs!Active
    <3>2. k = k0
      BY <1>1, <2>1, <2>3, <3>1 DEF n, k0
    <3>3. QED
      BY <1>2, <1>3, <2>3, <3>2
  <2>4. CASE s # r
    BY <1>5, <2>1, <2>2, <2>4 DEF Same, Repairs!Active
  <2>5. QED
    BY <2>2, <2>3, <2>4
<1>10. ASSUME NEW s \in Runs
       PROVE  Raised(s)'
  <2>1. SUFFICES ASSUME NEW k \in DOMAIN trace'[s], trace'[s][k].type = "cuda_oom",
                        phase'[s] = "failed" => k < Len(trace'[s])
                 PROVE  IF <<s, k>> \in counted
                        THEN profiles[Repairs!ContextOf(s)].bound > trace'[s][k].asked
                        ELSE \A j \in DOMAIN channel' :
                                Key(j)' = <<s, k>> /\ (\A i \in 1..(j - 1) : Key(i)' # <<s, k>>)
                                => channel'[j].required > trace'[s][k].asked
    BY DEF Raised, Repairs!ContextOf
  <2>2. CASE k \in DOMAIN trace[s]
    <3>1. /\ trace[s][k].type = "cuda_oom" /\ trace'[s][k].asked = trace[s][k].asked
          /\ phase[s] = "failed" => k < Len(trace[s])
          /\ Raised(s)
      BY <1>1, <1>5, <1>6, <2>1, <2>2 DEF Same
    <3>2. CASE <<s, k>> \in counted
      BY <2>2, <3>1, <3>2 DEF Raised
    <3>3. ASSUME <<s, k>> \notin counted, NEW j \in DOMAIN channel', Key(j)' = <<s, k>>,
                 \A i \in 1..(j - 1) : Key(i)' # <<s, k>>
          PROVE  channel'[j].required > trace'[s][k].asked
      <4>1. j # last
        <5>1. CASE s = r
          <6>1. PICK i \in DOMAIN channel : Key(i) = <<s, k>>
            BY <1>6, <2>2, <3>3, <5>1 DEF Reported
          <6>2. Key(i)' = <<s, k>> /\ i \in 1..(last - 1)
            BY <1>2, <1>3, <6>1
          <6>3. QED
            BY <3>3, <6>2
        <5>2. CASE s # r
          BY <1>3, <1>5, <3>3, <5>2
        <5>3. QED
          BY <5>1, <5>2
      <4>2. j \in DOMAIN channel /\ channel'[j] = channel[j] /\ Key(j) = <<s, k>>
        BY <1>2, <1>3, <3>3, <4>1
      <4>3. \A i \in 1..(j - 1) : i \in DOMAIN channel' /\ i # last
        BY <1>2, <4>2
      <4>4. \A i \in 1..(j - 1) : Key(i) # <<s, k>>
        BY <1>3, <3>3, <4>3
      <4>5. QED
        BY <2>2, <3>1, <3>3, <4>2, <4>4 DEF Raised
    <3>4. QED
      BY <3>2, <3>3
  <2>3. CASE s = r /\ k \notin DOMAIN trace[s]
    <3>1. k = n + 1 /\ phase'[r] \notin {"failed", "finished"}
      BY <1>1, <2>1, <2>3 DEF n
    <3>2. k = k0 /\ m.required > trace'[r][k].asked
      BY <2>1, <2>3, <3>1 DEF n, k0
    <3>3. <<s, k>> \notin counted /\ \A j \in DOMAIN channel : Key(j) # <<s, k>>
      BY <1>1, <1>4, <2>3, <3>1
    <3>4. QED
      BY <1>2, <1>3, <2>3, <3>2, <3>3
  <2>4. CASE s # r
    BY <1>5, <2>1, <2>2, <2>4 DEF Same
  <2>5. QED
    BY <2>2, <2>3, <2>4
<1>11. QED
  BY <1>7, <1>8, <1>9, <1>10

-------------------------------------------------------------------------------

\* A task that goes to a node.
LEMMA Placed ==
    ASSUME NEW t \in TaskType, NEW n \in Nodes
    PROVE  LET u == [t EXCEPT !.node = n, !.attempt = @ + 1]
           IN /\ u \in TaskType /\ u.request = t.request /\ u.node = n /\ u.avoid = t.avoid
              /\ u.attempt = t.attempt + 1
<1>1. n \in AnyNode /\ t.attempt + 1 \in Nat
  BY DEF TaskType, AnyNode
<1>2. QED
  BY <1>1 DEF TaskType

\* A run is prepared, an attempt begins.
LEMMA BeginStep ==
    ASSUME RepairInv, NEW r \in Runs, Repairs!Prepare(r) \/ Repairs!Launch(r)
    PROVE  RepairInv'
<1>1. /\ UNCHANGED <<profiles, counted, channel, repair, trace>> /\ \A s \in Runs \ {r} : Same(s)
      /\ phase[r] \in {"none", "queued"} /\ phase'[r] \in {"refused", "queued", "running"}
      /\ phase' \in [Runs -> Phases]
  BY DEF Repairs!Prepare, Repairs!Launch, RepairInv, RepairTyped, Same, Phases
<1>2. Counts' /\ \A s \in Runs : Reports(s)' /\ Reported(s)' /\ Raised(s)'
  BY <1>1, QuietStep
<1>3. /\ trace[r] \in Seq(EntryType) /\ Len(trace[r]) \in Nat /\ DOMAIN trace[r] = 1..Len(trace[r])
      /\ task[r] \in TaskType /\ Attempts(r) /\ Entries(r) /\ Limit[r] \in Nat
      /\ Retries[r] \in Nat
  BY DEF RepairInv, RepairTyped, Repairs!Parameters
<1>4. CASE Repairs!Prepare(r)
  <2>1. Repairs!Recommended(r) \in Nat
    BY RecommendedType
  <2>2. /\ phase[r] = "none" /\ Len(trace[r]) = 0
        /\ phase'[r] = IF Repairs!Recommended(r) > Limit[r] THEN "refused" ELSE "queued"
        /\ task' = [task EXCEPT ![r] = [task[r] EXCEPT !.request = Repairs!Recommended(r)]]
    BY <1>3, <1>4 DEF Repairs!Prepare, RepairInv, RepairTyped, Attempts
  <2>3. /\ task' \in [Runs -> TaskType] /\ task'[r].request = Repairs!Recommended(r)
        /\ task'[r].attempt = task[r].attempt /\ task'[r].node = task[r].node
        /\ task'[r].avoid = task[r].avoid /\ task[r].avoid \subseteq Nodes /\ None \notin Nodes
    BY <1>3, <2>1, <2>2 DEF TaskType, RepairInv, RepairTyped, Repairs!Parameters
  <2>4. Attempts(r)' /\ Entries(r)'
    BY <1>1, <1>3, <2>1, <2>2, <2>3 DEF Attempts, Entries, Repairs!Active
  <2>5. QED
    BY <1>1, <1>2, <2>3, <2>4, OtherRun DEF RepairInv, RepairTyped
<1>5. CASE Repairs!Launch(r)
  <2>1. PICK n \in Repairs!Eligible(r) :
           /\ phase[r] = "queued" /\ phase'[r] = "running"
           /\ task' = [task EXCEPT ![r].node = n, ![r].attempt = @ + 1]
    BY <1>5 DEF Repairs!Launch, RepairInv, RepairTyped
  <2>2. /\ n \in Nodes /\ n \notin task[r].avoid
        /\ task'[r] = [task[r] EXCEPT !.node = n, !.attempt = @ + 1]
    BY <2>1 DEF Repairs!Eligible, RepairInv, RepairTyped
  <2>3. /\ task'[r] \in TaskType /\ task'[r].request = task[r].request /\ task'[r].node = n
        /\ task'[r].avoid = task[r].avoid /\ task'[r].attempt = task[r].attempt + 1
    <3> DEFINE u == [task[r] EXCEPT !.node = n, !.attempt = @ + 1]
    <3>1. /\ u \in TaskType /\ u.request = task[r].request /\ u.node = n /\ u.avoid = task[r].avoid
          /\ u.attempt = task[r].attempt + 1
      BY <1>3, <2>2, Placed
    <3>2. task'[r] = u
      BY <2>2
    <3> HIDE DEF u
    <3>3. QED
      BY <3>1, <3>2
  <2>4. task' \in [Runs -> TaskType]
    BY <2>1, <2>3 DEF RepairInv, RepairTyped
  <2>5. Attempts(r)' /\ Entries(r)'
    BY <1>1, <1>3, <2>1, <2>2, <2>3 DEF Attempts, Entries, Repairs!Active
  <2>6. QED
    BY <1>1, <1>2, <2>4, <2>5, OtherRun DEF RepairInv, RepairTyped
<1>6. QED
  BY <1>4, <1>5

\* An attempt has succeeded.
LEMMA SucceedStep ==
    ASSUME RepairInv, NEW r \in Runs, NEW peak \in Needs, Repairs!Succeed(r, peak)
    PROVE  RepairInv'
<1> DEFINE m == [run |-> r, attempt |-> task[r].attempt, ok |-> peak > 0, peak |-> peak, required |-> 0]
           c == Repairs!Closed(trace[r], "succeeded")
<1>1. /\ peak \in Nat /\ peak > 0 /\ task[r] \in TaskType /\ trace[r] \in Seq(EntryType)
      /\ Len(trace[r]) \in Nat /\ DOMAIN trace[r] = 1..Len(trace[r])
      /\ Attempts(r) /\ Entries(r)
  BY DEF RepairInv, RepairTyped, Repairs!Parameters
<1>2. /\ m \in MsgType /\ m.run = r /\ m.attempt = task[r].attempt /\ m.ok
  BY <1>1 DEF MsgType, TaskType
<1>3. /\ phase[r] = "running" /\ phase' = [phase EXCEPT ![r] = "finished"]
      /\ trace' = [trace EXCEPT ![r] = c] /\ channel' = Append(channel, m)
      /\ UNCHANGED <<profiles, counted, task, repair>>
  BY DEF Repairs!Succeed, Repairs!Send
<1>4. Repairs!Active(r)
  BY <1>3 DEF Repairs!Active
<1>5. /\ c \in Seq(EntryType) /\ Len(c) = Len(trace[r])
      /\ \A i \in DOMAIN trace[r] : /\ c[i].outcome = IF i = Len(trace[r]) THEN "succeeded" ELSE "failed"
                                    /\ c[i].type = trace[r][i].type /\ c[i].asked = trace[r][i].asked
  BY <1>4, ClosedTrace
<1> HIDE DEF m, c
<1>6. /\ phase'[r] = "finished" /\ trace'[r] = c /\ \A s \in Runs \ {r} : Same(s)
      /\ phase' \in [Runs -> Phases] /\ trace' \in [Runs -> Seq(EntryType)] /\ channel' \in Seq(MsgType)
  BY <1>2, <1>3, <1>5 DEF RepairInv, RepairTyped, Same, Phases
<1>7. Counts' /\ \A s \in Runs : Reports(s)' /\ Reported(s)' /\ Raised(s)'
  BY <1>1, <1>2, <1>3, <1>4, <1>5, <1>6, SendStep DEF Attempts
<1>8. Attempts(r)' /\ Entries(r)'
  <2>1. Attempts(r)'
    BY <1>1, <1>3, <1>5, <1>6 DEF Attempts, Repairs!Active
  <2>2. Entries(r)'
    BY <1>1, <1>3, <1>5, <1>6 DEF Entries, Repairs!Active
  <2>3. QED
    BY <2>1, <2>2
<1>9. QED
  BY <1>3, <1>6, <1>7, <1>8, OtherRun DEF RepairInv, RepairTyped

\* An attempt has failed for good.
LEMMA FailStep ==
    ASSUME RepairInv, NEW r \in Runs, Repairs!Active(r), NEW type \in AnyType, NEW needed \in Nat,
           Repairs!Fail(r, type, needed)
    PROVE  RepairInv'
<1> DEFINE m == [run |-> r, attempt |-> task[r].attempt, ok |-> 0 > 0, peak |-> 0, required |-> 0]
           e == Repairs!Entry(r, type, needed, "failed")
           c == Repairs!Closed(Append(trace[r], e), "failed")
           n == Len(trace[r])
<1>1. /\ task[r] \in TaskType /\ trace[r] \in Seq(EntryType) /\ n \in Nat
      /\ DOMAIN trace[r] = 1..n /\ Attempts(r) /\ Retries[r] \in Nat
  BY DEF RepairInv, RepairTyped, Repairs!Parameters
<1>2. m \in MsgType /\ m.run = r /\ m.attempt = task[r].attempt /\ ~m.ok
  <2>1. (0 > 0) = FALSE /\ task[r].attempt \in Nat
    BY <1>1 DEF TaskType
  <2>2. QED
    BY <2>1 DEF MsgType
<1>3. e \in EntryType /\ e.outcome = "failed"
  BY <1>1 DEF Repairs!Entry, EntryType, TaskType
<1>4. /\ phase' = [phase EXCEPT ![r] = "failed"] /\ repair' = [repair EXCEPT ![r] = Repairs!NoRepair]
      /\ trace' = [trace EXCEPT ![r] = c] /\ channel' = Append(channel, m)
      /\ UNCHANGED <<profiles, counted, task>>
  BY DEF Repairs!Fail, Repairs!Send
<1>5. /\ c \in Seq(EntryType) /\ Len(c) = n + 1 /\ \A i \in 1..(n + 1) : c[i].outcome = "failed"
      /\ \A i \in 1..n : c[i].type = trace[r][i].type /\ c[i].asked = trace[r][i].asked
  BY <1>3, FailedTrace
<1> HIDE DEF m, c, e
<1>6. Repairs!NoRepair \in RepairType
  BY DEF Repairs!NoRepair, RepairType
<1>7. /\ phase'[r] = "failed" /\ trace'[r] = c /\ \A s \in Runs \ {r} : Same(s)
      /\ phase' \in [Runs -> Phases] /\ trace' \in [Runs -> Seq(EntryType)] /\ channel' \in Seq(MsgType)
      /\ repair' \in [Runs -> RepairType]
  BY <1>2, <1>4, <1>5, <1>6 DEF RepairInv, RepairTyped, Same, Phases
<1>8. task[r].attempt \in {n, n + 1} /\ n <= Retries[r]
  BY <1>1 DEF Attempts, Repairs!Active
<1>9. Counts' /\ \A s \in Runs : Reports(s)' /\ Reported(s)' /\ Raised(s)'
  BY <1>1, <1>2, <1>4, <1>5, <1>7, <1>8, SendStep
<1>10. Attempts(r)' /\ Entries(r)'
  BY <1>1, <1>4, <1>5, <1>7, <1>8 DEF Attempts, Entries, Repairs!Active
<1>11. QED
  BY <1>4, <1>7, <1>9, <1>10, OtherRun DEF RepairInv, RepairTyped

\* An attempt has failed, and the task goes on.
LEMMA RetryStep ==
    ASSUME RepairInv, NEW r \in Runs, phase[r] \in {"running", "recovering"},
           NEW type \in AnyType, NEW needed \in Nat, NEW next \in TaskType,
           Repairs!Retry(r, type, needed, next), repair' \in [Runs -> RepairType],
           \A s \in Runs \ {r} : repair'[s] = repair[s],
           task[r].attempt <= Retries[r], next.attempt = task[r].attempt,
           next.request >= task[r].request, next.request <= Limit[r], next.node = None,
           task[r].avoid \subseteq next.avoid,
           type = "cuda_oom" => next.request > task[r].request /\ next.request >= needed,
           type = "node_lost" => task[r].node \in next.avoid
    PROVE  RepairInv'
<1> DEFINE m == [run |-> r, attempt |-> task[r].attempt, ok |-> 0 > 0, peak |-> 0,
                 required |-> IF type = "cuda_oom" THEN next.request ELSE 0]
           e == Repairs!Entry(r, type, needed, "open")
           f == Repairs!Closed(trace[r], "failed")
           c == Append(f, e)
           n == Len(trace[r])
<1>1. /\ task[r] \in TaskType /\ trace[r] \in Seq(EntryType) /\ n \in Nat
      /\ DOMAIN trace[r] = 1..n /\ Attempts(r) /\ Entries(r) /\ Retries[r] \in Nat /\ Limit[r] \in Nat
      /\ task[r].request \in Nat /\ next.request \in Nat /\ task[r].attempt \in Nat
      /\ None \notin Nodes /\ next.avoid \subseteq Nodes
  BY DEF RepairInv, RepairTyped, Repairs!Parameters, TaskType
<1>2. /\ m \in MsgType /\ m.run = r /\ m.attempt = task[r].attempt /\ ~m.ok
      /\ type = "cuda_oom" => m.required = next.request
  <2>1. (0 > 0) = FALSE
    OBVIOUS
  <2>2. QED
    BY <1>1, <2>1 DEF MsgType
<1>3. /\ e \in EntryType /\ e.outcome = "open" /\ e.type = type /\ e.asked = task[r].request
      /\ e.needed = needed /\ e.node = task[r].node
  BY <1>1 DEF Repairs!Entry, EntryType, TaskType
<1>4. /\ phase' = [phase EXCEPT ![r] = "queued"] /\ trace' = [trace EXCEPT ![r] = c]
      /\ task' = [task EXCEPT ![r] = next] /\ channel' = Append(channel, m)
      /\ UNCHANGED <<profiles, counted>>
  BY DEF Repairs!Retry, Repairs!Send
<1>5. Repairs!Active(r) /\ task[r].attempt = n + 1
  BY <1>1 DEF Repairs!Active, Attempts
<1>6. /\ f \in Seq(EntryType) /\ Len(f) = n
      /\ \A i \in 1..n : /\ f[i].outcome = "failed" /\ f[i].type = trace[r][i].type
                         /\ f[i].node = trace[r][i].node /\ f[i].asked = trace[r][i].asked
                         /\ f[i].needed = trace[r][i].needed
  BY <1>1, <1>5, ClosedTrace
<1> HIDE DEF m, e, f
<1>7. /\ c \in Seq(EntryType) /\ Len(c) = n + 1 /\ c[n + 1] = e /\ \A i \in 1..n : c[i] = f[i]
      /\ DOMAIN c = 1..(n + 1)
  BY <1>1, <1>3, <1>6
<1> HIDE DEF c
<1>8. /\ phase'[r] = "queued" /\ trace'[r] = c /\ task'[r] = next /\ \A s \in Runs \ {r} : Same(s)
      /\ phase' \in [Runs -> Phases] /\ trace' \in [Runs -> Seq(EntryType)] /\ channel' \in Seq(MsgType)
      /\ task' \in [Runs -> TaskType]
  BY <1>2, <1>4, <1>7 DEF RepairInv, RepairTyped, Same, Phases
<1>9. Counts' /\ \A s \in Runs : Reports(s)' /\ Reported(s)' /\ Raised(s)'
  <2>1. LET x == trace'[r][n + 1] IN x.type = "cuda_oom" => m.required > x.asked
    BY <1>2, <1>3, <1>7, <1>8
  <2>2. \A k \in DOMAIN trace[r] : /\ trace'[r][k].type = trace[r][k].type
                                   /\ trace'[r][k].asked = trace[r][k].asked
    BY <1>1, <1>6, <1>7, <1>8
  <2>3. QED
    BY <1>2, <1>4, <1>5, <1>7, <1>8, <2>1, <2>2, SendStep
<1>10. Attempts(r)'
  BY <1>1, <1>4, <1>5, <1>7, <1>8 DEF Attempts, Repairs!Active
<1>11. Entries(r)'
  <2>1. ASSUME NEW i \in 1..n
        PROVE  /\ c[i].outcome = "failed"
               /\ c[i].type = "cuda_oom" => next.request > c[i].asked /\ next.request >= c[i].needed
               /\ c[i].type = "node_lost" => c[i].node \in next.avoid
    <3>1. trace[r][i] \in EntryType
      BY <1>1
    <3>2. trace[r][i].asked \in Nat /\ trace[r][i].needed \in Nat
      BY <3>1 DEF EntryType
    <3>3. /\ trace[r][i].type = "cuda_oom" => /\ task[r].request > trace[r][i].asked
                                              /\ task[r].request >= trace[r][i].needed
          /\ trace[r][i].type = "node_lost" => trace[r][i].node \in task[r].avoid
      BY <1>1, <1>5 DEF Entries
    <3>4. /\ c[i].outcome = "failed" /\ c[i].type = trace[r][i].type /\ c[i].node = trace[r][i].node
          /\ c[i].asked = trace[r][i].asked /\ c[i].needed = trace[r][i].needed
      BY <1>6, <1>7
    <3>5. QED
      BY <1>1, <3>2, <3>3, <3>4
  <2>2. /\ phase'[r] = "queued" /\ trace'[r] = c /\ task'[r] = next /\ Len(c) = n + 1
        /\ DOMAIN c = 1..(n + 1)
    BY <1>7, <1>8
  <2>3. ASSUME NEW i \in 1..(n + 1)
        PROVE  /\ i < n + 1 => c[i].outcome = "failed"
               /\ i = n + 1 => c[i].outcome = "open"
               /\ c[i].type = "cuda_oom" => next.request > c[i].asked /\ next.request >= c[i].needed
               /\ c[i].type = "node_lost" => c[i].node \in next.avoid
    <3>1. i \in 1..n \/ i = n + 1
      BY <1>1
    <3>2. QED
      BY <1>1, <1>3, <1>7, <2>1, <3>1
  <2>4. QED
    BY <1>1, <2>2, <2>3 DEF Entries, Repairs!Active
<1>12. QED
  BY <1>4, <1>8, <1>9, <1>10, <1>11, OtherRun DEF RepairInv, RepairTyped

-------------------------------------------------------------------------------

\* What is changed in a task after an error.
LEMMA Mended ==
    ASSUME NEW t \in TaskType, NEW A \in SUBSET Nodes, NEW c \in Nat
    PROVE  LET u == [t EXCEPT !.node = None, !.avoid = A, !.corrections = c]
           IN /\ u \in TaskType /\ u.request = t.request /\ u.node = None /\ u.avoid = A
              /\ u.attempt = t.attempt
<1>1. None \in AnyNode
  BY DEF AnyNode
<1>2. QED
  BY <1>1 DEF TaskType

\* What is changed in a task by its recovery.
LEMMA Enlarged ==
    ASSUME NEW t \in TaskType, NEW a \in Nat
    PROVE  LET u == [t EXCEPT !.request = a, !.node = None]
           IN /\ u \in TaskType /\ u.request = a /\ u.node = None /\ u.avoid = t.avoid
              /\ u.attempt = t.attempt
<1>1. None \in AnyNode
  BY DEF AnyNode
<1>2. QED
  BY <1>1 DEF TaskType

\* An error of an attempt, which is repaired or not.
LEMMA ErrorStep ==
    ASSUME RepairInv, NEW r \in Runs, NEW type \in Repairs!ErrorTypes, Repairs!Error(r, type)
    PROVE  RepairInv'
<1>1. /\ phase[r] = "running" /\ Repairs!Active(r) /\ type \in AnyType /\ type # "cuda_oom" /\ 0 \in Nat
  BY DEF Repairs!Error, Repairs!Active, Repairs!ErrorTypes, AnyType
<1>2. /\ task[r] \in TaskType /\ Attempts(r) /\ repair \in [Runs -> RepairType]
  BY DEF RepairInv, RepairTyped
<1>3. CASE Repairs!ShouldRetry(r, type)
  <2> DEFINE A == IF type = "node_lost" THEN task[r].avoid \cup {task[r].node} ELSE task[r].avoid
             c == IF type = "invocation_error" THEN task[r].corrections + 1 ELSE task[r].corrections
             next == Repairs!AfterError(r, type)
  <2>1. /\ task[r].node \in Nodes /\ task[r].avoid \subseteq Nodes /\ task[r].corrections \in Nat
        /\ task[r].request \in Nat /\ task[r].request <= Limit[r]
    BY <1>1, <1>2 DEF Attempts, TaskType
  <2>2. /\ A \in SUBSET Nodes /\ c \in Nat /\ task[r].avoid \subseteq A
        /\ type = "node_lost" => task[r].node \in A
    BY <2>1
  <2>3. next = [task[r] EXCEPT !.node = None, !.avoid = A, !.corrections = c]
    BY <1>2 DEF Repairs!AfterError, TaskType
  <2> HIDE DEF A, c, next
  <2>4. /\ next \in TaskType /\ next.request = task[r].request /\ next.node = None
        /\ next.avoid = A /\ next.attempt = task[r].attempt
    <3> DEFINE u == [task[r] EXCEPT !.node = None, !.avoid = A, !.corrections = c]
    <3>1. task[r] \in TaskType /\ A \in SUBSET Nodes /\ c \in Nat
      BY <1>2, <2>2
    <3>2. /\ u \in TaskType /\ u.request = task[r].request /\ u.node = None /\ u.avoid = A
          /\ u.attempt = task[r].attempt
      <4>1. \A a \in SUBSET Nodes, k \in Nat :
               LET x == [task[r] EXCEPT !.node = None, !.avoid = a, !.corrections = k]
               IN /\ x \in TaskType /\ x.request = task[r].request /\ x.node = None /\ x.avoid = a
                  /\ x.attempt = task[r].attempt
        BY <3>1, Mended
      <4>2. QED
        BY <3>1, <4>1
    <3>3. next = u
      BY <2>3
    <3> HIDE DEF u
    <3>4. QED
      BY <3>2, <3>3
  <2>5. /\ Repairs!Retry(r, type, 0, next) /\ repair' = repair /\ task[r].attempt <= Retries[r]
    BY <1>3 DEF Repairs!Error, Repairs!ShouldRetry, next
  <2>6. /\ repair' \in [Runs -> RepairType] /\ \A s \in Runs \ {r} : repair'[s] = repair[s]
    BY <1>2, <2>5
  <2>7. /\ next.request >= task[r].request /\ next.request <= Limit[r]
        /\ task[r].avoid \subseteq next.avoid
        /\ type = "node_lost" => task[r].node \in next.avoid
    BY <2>1, <2>2, <2>4
  <2>8. QED
    BY <1>1, <2>4, <2>5, <2>6, <2>7, RetryStep
<1>4. CASE ~Repairs!ShouldRetry(r, type)
  <2>1. Repairs!Fail(r, type, 0)
    BY <1>4 DEF Repairs!Error
  <2>2. QED
    BY <1>1, <2>1, FailStep
<1>5. QED
  BY <1>3, <1>4

\* A task out of memory waits for its recovery, or has failed.
LEMMA MemoryStep ==
    ASSUME RepairInv, NEW r \in Runs, NEW needed \in Needs, Repairs!OutOfMemory(r, needed)
    PROVE  RepairInv'
<1> DEFINE amount == Repairs!Adjusted(task[r].request, needed)
           n == Len(trace[r])
<1>1. /\ phase[r] = "running" /\ Repairs!Active(r) /\ needed \in Nat /\ "cuda_oom" \in AnyType
      /\ task[r] \in TaskType /\ Attempts(r) /\ Entries(r) /\ n \in Nat /\ Retries[r] \in Nat
      /\ Limit[r] \in Nat
  BY DEF Repairs!OutOfMemory, Repairs!Active, AnyType, RepairInv, RepairTyped, Repairs!Parameters
<1>2. task[r].request \in Nat /\ task[r].attempt \in Nat
  BY <1>1 DEF TaskType
<1>3. amount \in Nat /\ amount > task[r].request /\ amount >= needed
  BY <1>1, <1>2, AdjustedGrows
<1> DEFINE waits == Repairs!ShouldRetry(r, "cuda_oom") /\ amount <= Limit[r]
<1>4. CASE waits
  <2> DEFINE rec == [amount |-> amount, needed |-> needed]
  <2>1. /\ phase' = [phase EXCEPT ![r] = "recovering"] /\ repair' = [repair EXCEPT ![r] = rec]
        /\ UNCHANGED <<profiles, counted, channel, task, trace>>
        /\ task[r].attempt <= Retries[r] /\ amount <= Limit[r]
    BY <1>4 DEF Repairs!OutOfMemory, Repairs!ShouldRetry
  <2>2. rec \in RepairType /\ rec.amount = amount /\ rec.needed = needed
    BY <1>1, <1>3 DEF RepairType
  <2> HIDE DEF rec, amount
  <2>3. /\ phase'[r] = "recovering" /\ repair'[r] = rec /\ \A s \in Runs \ {r} : Same(s)
        /\ phase' \in [Runs -> Phases] /\ repair' \in [Runs -> RepairType]
    BY <2>1, <2>2 DEF RepairInv, RepairTyped, Same, Phases
  <2>4. Counts' /\ \A s \in Runs : Reports(s)' /\ Reported(s)' /\ Raised(s)'
    BY <1>1, <2>1, <2>3, QuietStep
  <2>5. Attempts(r)'
    BY <1>1, <1>2, <1>3, <2>1, <2>2, <2>3 DEF Attempts, Repairs!Active
  <2>6. Entries(r)'
    BY <1>1, <2>1, <2>3 DEF Entries, Repairs!Active
  <2>7. QED
    BY <2>1, <2>3, <2>4, <2>5, <2>6, OtherRun DEF RepairInv, RepairTyped
<1>5. CASE ~waits
  <2>1. Repairs!Fail(r, "cuda_oom", needed)
    BY <1>5 DEF Repairs!OutOfMemory
  <2>2. QED
    BY <1>1, <2>1, FailStep
<1>6. QED
  BY <1>4, <1>5

\* The recovery is over, and the task goes on with more; or it is not, and the task fails.
LEMMA RecoveryStep ==
    ASSUME RepairInv, NEW r \in Runs, Repairs!Recovered(r) \/ Repairs!NotRecovered(r) \/ Repairs!Exceeds(r)
    PROVE  RepairInv'
<1>1. /\ Repairs!Active(r) /\ 0 \in Nat
      /\ {"cuda_oom", "resource_cleanup_failed", "resource_capacity_exceeded"} \subseteq AnyType
  BY DEF Repairs!Recovered, Repairs!NotRecovered, Repairs!Exceeds, Repairs!Active, AnyType
<1>2. CASE Repairs!Recovered(r)
  <2> DEFINE next == [task[r] EXCEPT !.request = repair[r].amount, !.node = None]
  <2>1. /\ phase[r] = "recovering" /\ repair' = [repair EXCEPT ![r] = Repairs!NoRepair]
        /\ Repairs!Retry(r, "cuda_oom", repair[r].needed, next)
    BY <1>2 DEF Repairs!Recovered
  <2>2. /\ task[r] \in TaskType /\ Attempts(r) /\ repair[r] \in RepairType /\ Len(trace[r]) \in Nat
        /\ repair \in [Runs -> RepairType] /\ Retries[r] \in Nat /\ Limit[r] \in Nat
    BY DEF RepairInv, RepairTyped, Repairs!Parameters
  <2>3. /\ repair[r].amount \in Nat /\ repair[r].needed \in Nat /\ task[r].request \in Nat
        /\ Repairs!NoRepair \in RepairType
    BY <2>2 DEF RepairType, TaskType, Repairs!NoRepair
  <2>4. /\ next \in TaskType /\ next.request = repair[r].amount /\ next.node = None
        /\ next.avoid = task[r].avoid /\ next.attempt = task[r].attempt
    BY <2>2, <2>3, Enlarged
  <2> HIDE DEF next
  <2>5. /\ task[r].attempt <= Retries[r] /\ repair[r].amount > task[r].request
        /\ repair[r].amount >= repair[r].needed /\ repair[r].amount <= Limit[r]
    BY <2>1, <2>2 DEF Attempts
  <2>6. repair' \in [Runs -> RepairType] /\ \A s \in Runs \ {r} : repair'[s] = repair[s]
    BY <2>1, <2>2, <2>3
  <2>7. QED
    BY <1>1, <2>1, <2>3, <2>4, <2>5, <2>6, RetryStep
<1>3. CASE Repairs!NotRecovered(r)
  <2>1. Repairs!Fail(r, "resource_cleanup_failed", 0)
    BY <1>3 DEF Repairs!NotRecovered
  <2>2. QED
    BY <1>1, <2>1, FailStep
<1>4. CASE Repairs!Exceeds(r)
  <2>1. Repairs!Fail(r, "resource_capacity_exceeded", 0)
    BY <1>4 DEF Repairs!Exceeds
  <2>2. QED
    BY <1>1, <2>1, FailStep
<1>5. QED
  BY <1>2, <1>3, <1>4

-------------------------------------------------------------------------------

\* Repairs!Cardinality is Cardinality here.
LEMMA SameCount ==
    \A S : Repairs!Cardinality(S) = Cardinality(S) /\ (Repairs!IsFiniteSet(S) <=> IsFiniteSet(S))
BY DEF Repairs!Cardinality, Cardinality, Repairs!IsFiniteSet, IsFiniteSet

\* A profile with a message: nothing of it is forgotten.
LEMMA ProfileGrows ==
    ASSUME NEW p \in Profile, NEW m \in MsgType
    PROVE  LET u == Repairs!Updated(p, m)
           IN /\ u \in Profile /\ u.bound >= p.bound /\ u.bound >= m.required
              /\ u.samples = IF m.ok THEN p.samples + 1 ELSE p.samples
<1>1. /\ p.samples \in Nat /\ p.peak \in Nat /\ p.bound \in Nat
      /\ m.peak \in Nat /\ m.required \in Nat /\ m.ok \in BOOLEAN
  BY DEF Profile, MsgType
<1> DEFINE a == Repairs!Max({p.peak, m.peak})
           b == Repairs!Max({p.bound, m.required})
<1>2. a \in Nat /\ b \in Nat /\ b >= p.bound /\ b >= m.required
  BY <1>1, MaxOfTwo
<1> HIDE DEF a, b
<1>3. Repairs!Updated(p, m) = [samples |-> p.samples + (IF m.ok THEN 1 ELSE 0), peak |-> a, bound |-> b]
  BY DEF Repairs!Updated, a, b
<1>4. QED
  BY <1>1, <1>2, <1>3 DEF Profile

\* The first event is counted, and gone or handled again.
LEMMA LearnStep ==
    ASSUME RepairInv, channel # <<>>, Repairs!Learn(Head(channel))
    PROVE  /\ counted' = counted \cup {Key(1)} /\ profiles' \in [Repairs!Contexts -> Profile]
           /\ counted' \subseteq Runs \X Nat
           /\ \A c \in Repairs!Contexts : profiles'[c].bound >= profiles[c].bound
           /\ Key(1) \notin counted =>
                 LET m == channel[1]
                 IN /\ profiles'[Repairs!ContextOf(m.run)].bound >= m.required
                    /\ \A c \in Repairs!Contexts :
                          profiles'[c].samples = IF m.ok /\ c = Repairs!ContextOf(m.run)
                                                 THEN profiles[c].samples + 1 ELSE profiles[c].samples
<1> DEFINE m == channel[1]
           c0 == Repairs!ContextOf(m.run)
           u == Repairs!Updated(profiles[c0], m)
<1>1. /\ m \in MsgType /\ Head(channel) = m /\ profiles \in [Repairs!Contexts -> Profile]
      /\ counted \subseteq Runs \X Nat
  BY DEF RepairInv, RepairTyped
<1>2. m.run \in Runs /\ m.attempt \in Nat /\ c0 \in Repairs!Contexts
  BY <1>1 DEF MsgType, Repairs!Contexts
<1>3. \A c \in Repairs!Contexts : profiles[c].bound \in Nat
  BY <1>1 DEF Profile
<1>4. CASE Key(1) \in counted
  BY <1>1, <1>3, <1>4 DEF Repairs!Learn, Key
<1>5. CASE Key(1) \notin counted
  <2>1. counted' = counted \cup {Key(1)} /\ profiles' = [profiles EXCEPT ![c0] = u]
    BY <1>1, <1>5 DEF Repairs!Learn, Key
  <2>2. /\ u \in Profile /\ u.bound >= profiles[c0].bound /\ u.bound >= m.required
        /\ u.samples = IF m.ok THEN profiles[c0].samples + 1 ELSE profiles[c0].samples
    <3>1. profiles[c0] \in Profile
      BY <1>1, <1>2
    <3>2. QED
      BY <1>1, <3>1, ProfileGrows
  <2> HIDE DEF u
  <2>3. /\ profiles' \in [Repairs!Contexts -> Profile] /\ profiles'[c0] = u
        /\ \A c \in Repairs!Contexts : c # c0 => profiles'[c] = profiles[c]
    BY <1>1, <1>2, <2>1, <2>2
  <2>4. counted' \subseteq Runs \X Nat
    BY <1>1, <1>2, <2>1 DEF Key
  <2>5. QED
    BY <1>1, <1>2, <1>3, <1>5, <2>1, <2>2, <2>3, <2>4
<1>6. QED
  BY <1>4, <1>5

\* A success is counted with its event, once.
LEMMA CountStep ==
    ASSUME RepairInv, Repairs!Observe
    PROVE  Counts'
<1> DEFINE m == channel[1]
<1>1. /\ counted' = counted \cup {Key(1)} /\ UNCHANGED <<phase, task>>
      /\ Key(1) \notin counted =>
            \A c \in Repairs!Contexts :
               profiles'[c].samples = IF m.ok /\ c = Repairs!ContextOf(m.run)
                                      THEN profiles[c].samples + 1 ELSE profiles[c].samples
      /\ Key(1) \in counted => profiles' = profiles
  BY LearnStep DEF Repairs!Observe, Repairs!Learn, Key
<1>2. /\ m \in MsgType /\ m.run \in Runs /\ m.attempt \in Nat /\ Key(1) = <<m.run, m.attempt>>
  <2>1. m \in MsgType
    BY DEF RepairInv, RepairTyped, Repairs!Observe
  <2>2. QED
    BY <2>1 DEF Key, MsgType
<1>3. m.ok <=> phase[m.run] = "finished" /\ m.attempt = task[m.run].attempt
  <2>1. 1 \in DOMAIN channel /\ Reports(m.run)
    BY <1>2 DEF RepairInv, RepairTyped, Repairs!Observe
  <2>2. QED
    BY <1>2, <2>1 DEF Reports
<1>4. CASE Key(1) \in counted
  <2>1. counted' = counted /\ profiles' = profiles
    BY <1>1, <1>4
  <2>2. \A c : Successes(c)' = Successes(c)
    BY <1>1, <2>1 DEF Successes, Repairs!ContextOf
  <2>3. QED
    BY <2>1, <2>2 DEF Counts, RepairInv
<1>5. CASE Key(1) \notin counted
  <2>1. ASSUME NEW c \in Repairs!Contexts
        PROVE  profiles'[c].samples = Cardinality(Successes(c)')
    <3>1. /\ Successes(c) \subseteq Runs /\ IsFiniteSet(Runs)
          /\ profiles[c].samples = Cardinality(Successes(c))
      BY SameCount DEF RepairInv, Repairs!Parameters, Counts, Successes
    <3>2. IsFiniteSet(Successes(c))
      BY <3>1, FS_Subset
    <3>3. CASE m.ok /\ c = Repairs!ContextOf(m.run)
      <4>1. m.run \notin Successes(c)
        BY <1>2, <1>3, <1>5, <3>3 DEF Successes
      <4>2. Successes(c)' = Successes(c) \cup {m.run}
        <5>1. \A r \in Runs : r \in Successes(c)' <=> r \in Successes(c) \/ r = m.run
          BY <1>1, <1>2, <1>3, <3>3 DEF Successes, Repairs!ContextOf
        <5>2. Successes(c)' \subseteq Runs
          BY DEF Successes
        <5>3. QED
          BY <1>2, <3>1, <5>1, <5>2
      <4>3. Cardinality(Successes(c)') = Cardinality(Successes(c)) + 1
        BY <3>2, <4>1, <4>2, FS_AddElement
      <4>4. QED
        BY <1>1, <1>5, <3>1, <3>3, <4>3
    <3>4. CASE ~(m.ok /\ c = Repairs!ContextOf(m.run))
      <4>1. Successes(c)' = Successes(c)
        <5>1. \A r \in Runs : r \in Successes(c)' <=> r \in Successes(c)
          BY <1>1, <1>2, <1>3, <3>4 DEF Successes, Repairs!ContextOf
        <5>2. Successes(c)' \subseteq Runs
          BY DEF Successes
        <5>3. QED
          BY <3>1, <5>1, <5>2
      <4>2. QED
        BY <1>1, <1>5, <3>1, <3>4, <4>1
    <3>5. QED
      BY <3>3, <3>4
  <2>2. QED
    BY <2>1 DEF Counts, Repairs!Contexts, Repairs!ContextOf
<1>6. QED
  BY <1>4, <1>5

\* The Core handles an event, for the first time or again.
LEMMA ObserveStep ==
    ASSUME RepairInv, Repairs!Observe
    PROVE  RepairInv'
<1> DEFINE d == IF channel' = channel THEN 0 ELSE 1
<1>1. /\ counted' = counted \cup {Key(1)} /\ profiles' \in [Repairs!Contexts -> Profile]
      /\ counted' \subseteq Runs \X Nat
      /\ \A c \in Repairs!Contexts : profiles'[c].bound >= profiles[c].bound
      /\ Key(1) \notin counted =>
            profiles'[Repairs!ContextOf(channel[1].run)].bound >= channel[1].required
      /\ UNCHANGED <<phase, task, repair, trace>>
  BY LearnStep DEF Repairs!Observe
<1>2. /\ channel' \in Seq(MsgType) /\ d \in {0, 1} /\ 1 \in DOMAIN channel
      /\ \A j \in DOMAIN channel' : /\ j + d \in DOMAIN channel /\ channel'[j] = channel[j + d]
                                    /\ j \in Nat /\ j >= 1
      /\ \A j \in DOMAIN channel : j = 1 \/ j - d \in DOMAIN channel'
  <2>1. channel \in Seq(MsgType) /\ channel # <<>>
    BY DEF RepairInv, RepairTyped, Repairs!Observe
  <2>2. CASE channel' = channel
    BY <2>1, <2>2
  <2>3. CASE channel' # channel
    BY <2>1, <2>3 DEF Repairs!Observe
  <2>4. QED
    BY <2>2, <2>3
<1> HIDE DEF d
<1>3. \A j \in DOMAIN channel' : Key(j)' = Key(j + d)
  BY <1>2 DEF Key
<1>4. ASSUME NEW r \in Runs
      PROVE  Attempts(r)' /\ Entries(r)' /\ Reports(r)' /\ Reported(r)' /\ Raised(r)'
  <2>1. /\ Attempts(r) /\ Entries(r) /\ Reports(r) /\ Reported(r) /\ Raised(r)
        /\ trace[r] \in Seq(EntryType)
    BY DEF RepairInv, RepairTyped
  <2>2. Attempts(r)' /\ Entries(r)'
    BY <1>1, <2>1, OtherRun DEF Same
  <2>3. Reports(r)'
    <3>1. \A k : Sensible(r, k)' <=> Sensible(r, k)
      BY <1>1 DEF Sensible
    <3>2. ASSUME NEW k \in Nat, <<r, k>> \in counted'
          PROVE  Sensible(r, k)
      BY <1>1, <1>2, <2>1, <3>2 DEF Reports
    <3>3. ASSUME NEW k \in Nat, NEW j \in DOMAIN channel', Key(j)' = <<r, k>>
          PROVE  /\ Sensible(r, k)
                 /\ channel'[j].ok <=> (phase[r] = "finished" /\ k = task[r].attempt)
      BY <1>2, <1>3, <2>1, <3>3 DEF Reports
    <3>4. QED
      BY <1>1, <3>1, <3>2, <3>3 DEF Reports
  <2>4. Reported(r)'
    <3>1. SUFFICES ASSUME Repairs!Active(r), NEW k \in DOMAIN trace[r], <<r, k>> \notin counted'
                   PROVE  \E j \in DOMAIN channel' : Key(j)' = <<r, k>>
      BY <1>1 DEF Reported, Repairs!Active
    <3>2. PICK j \in DOMAIN channel : Key(j) = <<r, k>>
      BY <1>1, <2>1, <3>1 DEF Reported
    <3>3. j - d \in DOMAIN channel' /\ (j - d) + d = j
      <4>1. j # 1 /\ j \in Nat /\ d \in Nat
        BY <1>1, <1>2, <3>1, <3>2 DEF RepairInv, RepairTyped
      <4>2. QED
        BY <1>2, <4>1
    <3>4. Key(j) = <<r, k>>
      BY <3>2
    <3>5. \A i \in DOMAIN channel' : i + d = j => Key(i)' = Key(j)
      BY <1>3
    <3>6. QED
      BY <3>3, <3>4, <3>5
  <2>5. Raised(r)'
    <3>1. SUFFICES ASSUME NEW k \in DOMAIN trace[r], trace[r][k].type = "cuda_oom",
                          phase[r] = "failed" => k < Len(trace[r])
                   PROVE  IF <<r, k>> \in counted'
                          THEN profiles'[Repairs!ContextOf(r)].bound > trace[r][k].asked
                          ELSE \A j \in DOMAIN channel' :
                                  Key(j)' = <<r, k>> /\ (\A i \in 1..(j - 1) : Key(i)' # <<r, k>>)
                                  => channel'[j].required > trace[r][k].asked
      BY <1>1 DEF Raised, Repairs!ContextOf
    <3>2. /\ Repairs!ContextOf(r) \in Repairs!Contexts /\ profiles \in [Repairs!Contexts -> Profile]
          /\ channel \in Seq(MsgType) /\ channel[1] \in MsgType /\ trace[r][k] \in EntryType
      BY <1>2, <2>1 DEF RepairInv, RepairTyped, Repairs!Contexts
    <3>3. /\ profiles[Repairs!ContextOf(r)].bound \in Nat /\ profiles'[Repairs!ContextOf(r)].bound \in Nat
          /\ trace[r][k].asked \in Nat /\ channel[1].required \in Nat
      BY <1>1, <1>2, <3>2 DEF Profile, EntryType, MsgType
    <3>4. CASE <<r, k>> \in counted
      <4>1. profiles[Repairs!ContextOf(r)].bound > trace[r][k].asked
        BY <2>1, <3>1, <3>4 DEF Raised
      <4>2. QED
        BY <1>1, <3>2, <3>3, <3>4, <4>1
    <3>5. CASE <<r, k>> \notin counted /\ Key(1) = <<r, k>>
      <4>1. channel[1].required > trace[r][k].asked
        BY <1>2, <2>1, <3>1, <3>5 DEF Raised
      <4>2. channel[1].run = r
        BY <3>5 DEF Key
      <4>3. QED
        BY <1>1, <3>3, <3>5, <4>1, <4>2
    <3>6. CASE <<r, k>> \notin counted /\ Key(1) # <<r, k>>
      <4>1. <<r, k>> \notin counted'
        BY <1>1, <3>6
      <4>2. ASSUME NEW j \in DOMAIN channel', Key(j)' = <<r, k>>, \A i \in 1..(j - 1) : Key(i)' # <<r, k>>
            PROVE  channel'[j].required > trace[r][k].asked
        <5>1. /\ j + d \in DOMAIN channel /\ channel'[j] = channel[j + d] /\ Key(j + d) = <<r, k>>
          BY <1>2, <1>3, <4>2
        <5>2. ASSUME NEW i \in 1..((j + d) - 1)
              PROVE  Key(i) # <<r, k>>
          <6>1. CASE i = 1
            BY <3>6, <6>1
          <6>2. CASE i # 1
            <7>1. i \in DOMAIN channel /\ i - d \in DOMAIN channel' /\ i - d \in 1..(j - 1) /\ (i - d) + d = i
              BY <1>2, <3>2, <4>2, <5>1, <5>2, <6>2
            <7>2. \A x \in DOMAIN channel' : x + d = i => Key(x)' = Key(i)
              BY <1>3
            <7>3. QED
              BY <4>2, <7>1, <7>2
          <6>3. QED
            BY <6>1, <6>2
        <5>3. QED
          BY <2>1, <3>1, <3>6, <5>1, <5>2 DEF Raised
      <4>3. QED
        BY <4>1, <4>2
    <3>7. QED
      BY <3>4, <3>5, <3>6
  <2>6. QED
    BY <2>2, <2>3, <2>4, <2>5
<1>5. Counts'
  BY CountStep
<1>6. QED
  BY <1>1, <1>2, <1>4, <1>5 DEF RepairInv, RepairTyped, Repairs!Contexts, Repairs!ContextOf

-------------------------------------------------------------------------------

\* The Core ends: what runs is over.
LEMMA CoreEndStep ==
    ASSUME RepairInv, Repairs!Crash
    PROVE  RepairInv'
<1>1. /\ channel' = <<>> /\ UNCHANGED <<profiles, counted, task, trace>>
      /\ repair' \in [Runs -> RepairType] /\ phase' \in [Runs -> Phases]
      /\ \A r \in Runs : phase'[r] = IF phase[r] \in {"queued", "running", "recovering"} THEN "over"
                                     ELSE phase[r]
  BY DEF Repairs!Crash, Repairs!NoRepair, RepairType, RepairInv, RepairTyped, Phases
<1>2. ASSUME NEW r \in Runs
      PROVE  Attempts(r)' /\ Entries(r)' /\ Reports(r)' /\ Reported(r)' /\ Raised(r)'
  <2>1. /\ Attempts(r) /\ Entries(r) /\ Reports(r) /\ Raised(r) /\ Retries[r] \in Nat
        /\ trace[r] \in Seq(EntryType) /\ phase[r] \in Phases
    BY DEF RepairInv, RepairTyped, Repairs!Parameters
  <2>2. /\ ~Repairs!Active(r)'
        /\ phase'[r] = "finished" <=> phase[r] = "finished"
        /\ phase'[r] = "failed" <=> phase[r] = "failed"
    BY <1>1 DEF Repairs!Active
  <2>3. Attempts(r)'
    BY <1>1, <2>1, <2>2 DEF Attempts, Phases
  <2>4. Entries(r)'
    BY <1>1, <2>1, <2>2 DEF Entries
  <2>5. Reports(r)'
    BY <1>1, <2>1, <2>2 DEF Reports, Sensible
  <2>6. Reported(r)' /\ Raised(r)'
    BY <1>1, <2>1, <2>2 DEF Reported, Raised, Repairs!ContextOf
  <2>7. QED
    BY <2>3, <2>4, <2>5, <2>6
<1>3. Counts'
  <2>1. \A r \in Runs : phase'[r] = "finished" <=> phase[r] = "finished"
    BY <1>1
  <2>2. \A c : Successes(c)' = Successes(c)
    BY <1>1, <2>1 DEF Successes, Repairs!ContextOf
  <2>3. QED
    BY <1>1, <2>2 DEF Counts, RepairInv
<1>4. QED
  BY <1>1, <1>2, <1>3 DEF RepairInv, RepairTyped

\* No run has begun, and nothing is known.
LEMMA RepairInit ==
    ASSUME Repairs!Parameters, Repairs!Init
    PROVE  RepairInv
<1>1. /\ profiles = [c \in Repairs!Contexts |-> Repairs!NoProfile] /\ counted = {} /\ channel = <<>>
      /\ phase = [r \in Runs |-> "none"] /\ task = [r \in Runs |-> Repairs!NewTask]
      /\ repair = [r \in Runs |-> Repairs!NoRepair] /\ trace = [r \in Runs |-> <<>>]
  BY DEF Repairs!Init
<1>2. /\ Repairs!NoProfile \in Profile /\ Repairs!NewTask \in TaskType /\ Repairs!NoRepair \in RepairType
      /\ Repairs!NoProfile.samples = 0 /\ Repairs!NewTask.attempt = 0 /\ Repairs!NewTask.node = None
  BY DEF Repairs!NoProfile, Repairs!NewTask, Repairs!NoRepair, Profile, TaskType, RepairType, AnyNode
<1>3. RepairTyped
  BY <1>1, <1>2 DEF RepairTyped, Phases
<1>4. Counts
  <2>1. \A c : Successes(c) = {}
    BY <1>1 DEF Successes
  <2>2. QED
    BY <1>1, <1>2, <2>1, FS_EmptySet DEF Counts
<1>5. ASSUME NEW r \in Runs
      PROVE  Attempts(r) /\ Entries(r) /\ Reports(r) /\ Reported(r) /\ Raised(r)
  <2>1. /\ phase[r] = "none" /\ trace[r] = <<>> /\ task[r].attempt = 0 /\ task[r].node = None
        /\ Len(trace[r]) = 0 /\ DOMAIN trace[r] = {} /\ DOMAIN channel = {} /\ counted = {}
    BY <1>1, <1>2
  <2>2. QED
    BY <2>1 DEF Attempts, Entries, Reports, Reported, Raised, Repairs!Active
<1>6. QED
  BY <1>3, <1>4, <1>5 DEF RepairInv

\* A state in which nothing changes.
LEMMA RepairStutter ==
    ASSUME RepairInv, UNCHANGED Repairs!vars
    PROVE  RepairInv'
<1>1. UNCHANGED <<profiles, counted, channel, phase, task, repair, trace>>
  BY DEF Repairs!vars
<1>2. \A r \in Runs : Attempts(r)' /\ Entries(r)'
  BY <1>1, OtherRun DEF Same, RepairInv
<1>3. \A j : Key(j)' = Key(j)
  BY <1>1 DEF Key
<1>4. \A r \in Runs : Reports(r)' /\ Reported(r)' /\ Raised(r)'
  <2>1. ASSUME NEW r \in Runs
        PROVE  Reports(r)' /\ Reported(r)' /\ Raised(r)'
    <3>1. Reports(r) /\ Reported(r) /\ Raised(r)
      BY DEF RepairInv
    <3>2. Reports(r)'
      BY <1>1, <1>3, <3>1 DEF Reports, Sensible
    <3>3. Reported(r)' /\ Raised(r)'
      BY <1>1, <1>3, <3>1 DEF Reported, Raised, Repairs!Active, Repairs!ContextOf
    <3>4. QED
      BY <3>2, <3>3
  <2>2. QED
    BY <2>1
<1>5. Counts'
  <2>1. \A c : Successes(c)' = Successes(c)
    BY <1>1 DEF Successes, Repairs!ContextOf
  <2>2. QED
    BY <1>1, <2>1 DEF Counts, RepairInv
<1>6. QED
  BY <1>1, <1>2, <1>4, <1>5 DEF RepairInv, RepairTyped

\* Every step keeps the invariant.
LEMMA RepairNext == RepairInv /\ [Repairs!Next]_Repairs!vars => RepairInv'
<1> SUFFICES ASSUME RepairInv, [Repairs!Next]_Repairs!vars
             PROVE  RepairInv'
  OBVIOUS
<1>1. ASSUME NEW r \in Runs, Repairs!Prepare(r) \/ Repairs!Launch(r)
      PROVE  RepairInv'
  BY <1>1, BeginStep
<1>2. ASSUME NEW r \in Runs, Repairs!Recovered(r) \/ Repairs!NotRecovered(r) \/ Repairs!Exceeds(r)
      PROVE  RepairInv'
  BY <1>2, RecoveryStep
<1>3. ASSUME NEW r \in Runs, NEW n \in Needs, Repairs!Succeed(r, n)
      PROVE  RepairInv'
  BY <1>3, SucceedStep
<1>4. ASSUME NEW r \in Runs, NEW n \in Needs, Repairs!OutOfMemory(r, n)
      PROVE  RepairInv'
  BY <1>4, MemoryStep
<1>5. ASSUME NEW r \in Runs, NEW type \in Repairs!ErrorTypes, Repairs!Error(r, type)
      PROVE  RepairInv'
  BY <1>5, ErrorStep
<1>6. CASE Repairs!Observe
  BY <1>6, ObserveStep
<1>7. CASE Repairs!Crash
  BY <1>7, CoreEndStep
<1>8. CASE UNCHANGED Repairs!vars
  BY <1>8, RepairStutter
<1>9. QED
  BY <1>1, <1>2, <1>3, <1>4, <1>5, <1>6, <1>7, <1>8 DEF Repairs!Next

\* RepairInv is inductive, whatever the runs, nodes and limits.
THEOREM RepairInvariance == Spec => [](part = "repairs" => RepairInv)
<1>1. Init => (part = "repairs" => RepairInv)
  BY RepairInit, ParametersAssumption DEF Init
<1>2. (part = "repairs" => RepairInv) /\ [Next]_svars => (part = "repairs" => RepairInv)'
  BY RepairNext, PartStep
<1>3. QED
  BY <1>1, <1>2, PTL DEF Spec

\* What has been repaired stays so (MemoryRepair, Grows).
LEMMA RepairsGrow == RepairInv => Repairs!Grows
BY DEF RepairInv, Attempts, Entries, Repairs!Grows

\* A node on which a task was lost is not tried again (MemoryRepair, Moves).
LEMMA RepairsMove == RepairInv => Repairs!Moves
<1> SUFFICES ASSUME RepairInv, NEW r \in Runs
             PROVE  /\ \A i \in DOMAIN trace[r] : trace[r][i].type = "node_lost" /\ Repairs!Active(r) =>
                           trace[r][i].node \in task[r].avoid \ {task[r].node}
                    /\ Repairs!Cardinality({i \in DOMAIN trace[r] :
                                               /\ trace[r][i].type = "invocation_error"
                                               /\ trace[r][i].outcome # "failed"}) <= 1
  BY DEF Repairs!Moves
<1>1. Attempts(r) /\ Entries(r) /\ trace[r] \in Seq(EntryType)
  BY DEF RepairInv, RepairTyped
<1>2. ASSUME NEW i \in DOMAIN trace[r], trace[r][i].type = "node_lost", Repairs!Active(r)
      PROVE  trace[r][i].node \in task[r].avoid \ {task[r].node}
  BY <1>1, <1>2 DEF Attempts, Entries
<1> DEFINE corrected == {i \in DOMAIN trace[r] : /\ trace[r][i].type = "invocation_error"
                                                 /\ trace[r][i].outcome # "failed"}
<1>3. corrected \subseteq {Len(trace[r])}
  BY <1>1 DEF Entries
<1> HIDE DEF corrected
<1>4. Repairs!Cardinality(corrected) <= 1
  <2>1. IsFiniteSet({Len(trace[r])}) /\ Cardinality({Len(trace[r])}) = 1
    BY FS_Singleton
  <2>2. IsFiniteSet(corrected) /\ Cardinality(corrected) <= 1
    BY <1>3, <2>1, FS_Subset
  <2>3. QED
    BY <2>2, SameCount
<1>5. QED
  BY <1>2, <1>4 DEF corrected

\* The trace of a task tells how it ended (MemoryRepair, Traced).
LEMMA RepairsTraced == RepairInv => Repairs!Traced
<1> SUFFICES ASSUME RepairInv, NEW r \in Runs
             PROVE  LET outcomes == [i \in DOMAIN trace[r] |-> trace[r][i].outcome]
                        failed == {i \in DOMAIN outcomes : outcomes[i] = "failed"}
                    IN /\ Len(outcomes) <= Retries[r] + 1
                       /\ \A i \in DOMAIN outcomes : i < Len(outcomes) => i \in failed
                       /\ phase[r] = "failed" => Len(outcomes) \in failed
                       /\ phase[r] = "finished" /\ outcomes # <<>> => Repairs!Last(outcomes) = "succeeded"
                       /\ Repairs!Active(r) /\ outcomes # <<>> => Repairs!Last(outcomes) = "open"
  BY DEF Repairs!Traced
<1> DEFINE outcomes == [i \in DOMAIN trace[r] |-> trace[r][i].outcome]
           n == Len(trace[r])
<1>1. /\ Attempts(r) /\ Entries(r) /\ trace[r] \in Seq(EntryType) /\ n \in Nat /\ DOMAIN trace[r] = 1..n
      /\ Retries[r] \in Nat /\ phase[r] \in Phases
  BY DEF RepairInv, RepairTyped, Repairs!Parameters
<1>2. n <= Retries[r] + 1 /\ (phase[r] = "failed" => n \in 1..n)
  BY <1>1 DEF Attempts, Phases
<1>3. \A i \in 1..n : trace[r][i].outcome \in {"open", "failed", "succeeded"}
  <2>1. \A i \in 1..n : trace[r][i] \in EntryType
    BY <1>1
  <2>2. QED
    BY <2>1 DEF EntryType
<1>4. /\ outcomes \in Seq({"open", "failed", "succeeded"}) /\ Len(outcomes) = n /\ DOMAIN outcomes = 1..n
      /\ \A i \in 1..n : outcomes[i] = trace[r][i].outcome
  <2>1. outcomes \in [1..n -> {"open", "failed", "succeeded"}]
    BY <1>1, <1>3
  <2>2. QED
    BY <1>1, <2>1
<1> HIDE DEF outcomes
<1>5. /\ outcomes # <<>> => n \in 1..n
      /\ outcomes # <<>> => Repairs!Last(outcomes) = outcomes[n]
  BY <1>1, <1>4 DEF Repairs!Last
<1>6. /\ \A i \in 1..n : i < n \/ phase[r] = "failed" => outcomes[i] = "failed"
      /\ n \in 1..n /\ phase[r] = "finished" => outcomes[n] = "succeeded"
      /\ n \in 1..n /\ Repairs!Active(r) => outcomes[n] = "open"
  BY <1>1, <1>4 DEF Entries
<1>7. QED
  BY <1>1, <1>2, <1>4, <1>5, <1>6 DEF outcomes

\* What was learned stays (MemoryRepair, Learned).
LEMMA RepairsLearned == RepairInv => Repairs!Learned
<1>1. ASSUME RepairInv, NEW r \in Runs, NEW i \in DOMAIN trace[r], trace[r][i].type = "cuda_oom",
             <<r, i>> \in counted, phase[r] = "failed" => i < Len(trace[r])
      PROVE  profiles[Repairs!ContextOf(r)].bound > trace[r][i].asked
  BY <1>1 DEF RepairInv, Raised
<1>2. ASSUME RepairInv, NEW c \in Repairs!Contexts
      PROVE  profiles[c].samples
                = Repairs!Cardinality({r \in Runs : /\ Repairs!ContextOf(r) = c /\ phase[r] = "finished"
                                                    /\ <<r, task[r].attempt>> \in counted})
  BY <1>2, SameCount DEF RepairInv, Counts, Successes
<1>3. QED
  BY <1>1, <1>2 DEF Repairs!Learned

\* A retry asks for more and goes elsewhere, the trace of a task is true to it, and the
\* history keeps what a run has learned: RepairsSound, of the runs of MemoryRepair.
THEOREM RepairsStaySound == Spec => []RepairsSound
<1>1. RepairInv => Repairs!RepairsSound
  BY RepairsGrow, RepairsMove, RepairsTraced, RepairsLearned DEF Repairs!RepairsSound
<1>2. (part = "repairs" => RepairInv) => RepairsSound
  BY <1>1 DEF RepairsSound
<1>3. QED
  BY <1>2, RepairInvariance, PTL
===============================================================================
