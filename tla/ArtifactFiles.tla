--------------------------- MODULE ArtifactFiles ---------------------------
(* The artifact store of files/artifact_store.py and the files that the tasks of a
   run hand to each other through it (files/lineage.py, path/path.py).  All runs are
   private; every task works on one and the same file.  The Core does one store
   operation at a time, of several transactions; the Scheduler, another process,
   stores result summaries in the open. *)
EXTENDS Naturals, FiniteSets

CONSTANTS Runs, Blobs, NoBlob,
          Tasks, NoTask,
          RunOf, Parents,   \* of a task
          Initial,          \* content of the file in a run's workspace, if it is there
          Fresh,            \* contents a task may write
          MaxTries          \* of a task

\* The parameters that a program can have: a task reads from tasks of its own run.
Parameters ==
    /\ NoBlob \notin Blobs /\ NoTask \notin Tasks /\ Fresh \subseteq Blobs
    /\ Initial \in [Runs -> Blobs \cup {NoBlob}]
    /\ RunOf \in [Tasks -> Runs] /\ Parents \in [Tasks -> SUBSET Tasks]
    /\ \A t \in Tasks : \A p \in Parents[t] : RunOf[p] = RunOf[t]
    /\ MaxTries \in [Tasks -> Nat]

VARIABLES
    live,       \* runs with a capability
    row,        \* artifact_access: none, managed or given (managed_blob = 0)
    grants,     \* artifact_grants
    files,      \* blobs_dir
    opened,     \* blobs ever stored without a capability
    uploaded,   \* uploads that were completed, by run
    core,       \* the operation the Core is in
    dispatch,   \* prepared, sent, failed, revoked or over
    tries,      \* attempts of a task, done when it has finished
    work,       \* running attempts
    published   \* the change in the file manifest of a finished task

storeVars == <<live, row, grants, files, opened, uploaded>>
taskVars == <<tries, work, published>>
vars == <<live, row, grants, files, opened, uploaded, core, dispatch, tries, work, published>>

NoWork == [task |-> NoTask, try |-> 0, has |-> NoBlob, put |-> NoBlob]
Idle == [op |-> "idle", run |-> "", by |-> NoWork, blob |-> NoBlob]

Init ==
    /\ live = {} /\ row = [b \in Blobs |-> "none"] /\ grants = {} /\ files = {}
    /\ opened = {} /\ uploaded = {} /\ core = Idle /\ dispatch = [r \in Runs |-> "prepared"]
    /\ tries = [t \in Tasks |-> 0] /\ work = {} /\ published = [t \in Tasks |-> NoBlob]

Granted(b) == \E r \in Runs : <<r, b>> \in grants
-----------------------------------------------------------------------------
(* Transactions of the store. *)

\* Mutant of Reserved: the row is written anew by every upload.
ReservedAnew(b) == IF b \in files THEN "given" ELSE "managed"

\* _mark_private: bytes that were there before the row belong to somebody else.
Reserved(b) == IF row[b] = "managed" \/ b \notin files THEN "managed" ELSE "given"

\* put_bytes, put_file: the reservation ...
Mark(r, w, b) ==
    /\ core = Idle /\ r \in live
    /\ row' = [row EXCEPT ![b] = Reserved(b)] /\ grants' = grants \cup {<<r, b>>}
    /\ core' = [op |-> "put", run |-> r, by |-> w, blob |-> b]
    /\ UNCHANGED <<live, files, opened, uploaded>>

\* ... and _put_private_blob, which checks the grant again.
Write ==
    /\ core.op = "put" /\ <<core.run, core.blob>> \in grants
    /\ files' = files \cup {core.blob} /\ uploaded' = uploaded \cup {<<core.run, core.blob>>}
    /\ core' = Idle
    /\ UNCHANGED <<live, row, grants, opened>>

\* _put_public_or_authorized_blob for a result summary: refused for a private blob.
StoreSummary(b) ==
    /\ row[b] = "none" /\ files' = files \cup {b} /\ opened' = opened \cup {b}
    /\ UNCHANGED <<live, row, grants, uploaded, core, dispatch>> /\ UNCHANGED taskVars

\* revoke_owner_capabilities: capability and grants go, and the rows of bytes that
\* were public before.
Revoke(r) ==
    LET left == {g \in grants : g[1] # r}
        free == {b \in Blobs : <<r, b>> \in grants /\ row[b] = "given"
                               /\ \A g \in left : g[2] # b}
    IN /\ core = Idle /\ dispatch[r] = "failed"
       /\ live' = live \ {r} /\ grants' = left
       /\ row' = [b \in Blobs |-> IF b \in free THEN "none" ELSE row[b]]
       /\ core' = [Idle EXCEPT !.op = "reap", !.run = r]
       /\ UNCHANGED <<files, opened, uploaded, dispatch>> /\ UNCHANGED taskVars

Orphans == {b \in Blobs : row[b] = "managed" /\ ~Granted(b)}

\* One round of _reap_revoked_managed_blobs.
Reap(b) ==
    /\ core.op = "reap" /\ b \in Orphans
    /\ files' = files \ {b} /\ row' = [row EXCEPT ![b] = "none"]
    /\ UNCHANGED <<live, grants, opened, uploaded, core, dispatch>> /\ UNCHANGED taskVars

\* _revoke_dispatch_artifacts, _finish_workflow_dispatch_failure
ReapDone ==
    /\ core.op = "reap" /\ Orphans = {}
    /\ dispatch' = [dispatch EXCEPT ![core.run] = "revoked"] /\ core' = Idle
    /\ UNCHANGED storeVars /\ UNCHANGED taskVars
-----------------------------------------------------------------------------
(* Runs. *)

\* _prepare_initial_artifacts: a capability, then the files of the workspace.
CreateCapability(r) ==
    /\ core = Idle /\ dispatch[r] = "prepared" /\ r \notin live /\ live' = live \cup {r}
    /\ dispatch' = [dispatch EXCEPT ![r] = IF Initial[r] = NoBlob THEN "sent" ELSE @]
    /\ UNCHANGED <<row, grants, files, opened, uploaded, core>>
    /\ UNCHANGED taskVars

StoreInitial(r) ==
    /\ dispatch[r] = "prepared" /\ Mark(r, NoWork, Initial[r])
    /\ UNCHANGED dispatch /\ UNCHANGED taskVars

InitialStored ==
    /\ core.by = NoWork /\ Write
    /\ dispatch' = [dispatch EXCEPT ![core.run] = "sent"] /\ UNCHANGED taskVars

Of(r) == {w \in work : RunOf[w.task] = r}

\* The submission fails, and its tasks have been stopped.
DispatchFails(r) ==
    /\ core = Idle /\ dispatch[r] \in {"prepared", "sent"}
    /\ dispatch' = [dispatch EXCEPT ![r] = "failed"] /\ work' = work \ Of(r)
    /\ UNCHANGED storeVars /\ UNCHANGED <<core, tries, published>>

\* The write of an upload fails: the error of a preparation or of an attempt.
PutFails ==
    /\ core.op = "put" /\ core' = Idle
    /\ dispatch' = IF core.by = NoWork THEN [dispatch EXCEPT ![core.run] = "failed"]
                   ELSE dispatch
    /\ UNCHANGED storeVars /\ UNCHANGED taskVars

\* The Core ends, also between the unlink and the commit of a round of the reaper.
\* recover_incomplete_runs interrupts what was sent.
Crash ==
    /\ core' = Idle
    /\ \/ files' = files
       \/ core.op = "reap" /\ \E b \in Orphans \cap files : files' = files \ {b}
    /\ dispatch' = [r \in Runs |-> CASE dispatch[r] = "prepared" /\ r \in live -> "failed"
                                     [] dispatch[r] = "sent" -> "over"
                                     [] OTHER -> dispatch[r]]
    /\ work' = {}
    /\ UNCHANGED <<live, row, grants, opened, uploaded, tries, published>>
-----------------------------------------------------------------------------
(* Tasks. *)

Done(t) == tries[t] > MaxTries[t]
Changes(t) == {published[p] : p \in Parents[t]} \ {NoBlob}

\* can_read
Readable(r, b) == b = NoBlob \/ (b \in files /\ (row[b] = "none" \/ <<r, b>> \in grants))

\* _load_parent_files: parents that disagree fail the task.
Conflicting(t) == Cardinality(Changes(t)) > 1

\* _stage_initial_artifacts, _stage_parent_files: the files of the workspace, and
\* over them what the parents changed.
Staged(t) == IF Changes(t) = {} THEN {Initial[RunOf[t]]} ELSE Changes(t)

\* run_task_with_file_context
Stage(t) ==
    /\ dispatch[RunOf[t]] = "sent" /\ tries[t] < MaxTries[t] /\ \A p \in Parents[t] : Done(p)
    /\ ~Conflicting(t)
    /\ tries' = [tries EXCEPT ![t] = @ + 1]
    /\ work' = work \cup {[task |-> t, try |-> tries[t] + 1, has |-> b, put |-> NoBlob] : b \in Staged(t)}
    /\ UNCHANGED storeVars /\ UNCHANGED <<core, dispatch, published>>

\* The parents' manifests conflict: no attempt can start and the run fails.
Conflict(t) ==
    /\ dispatch[RunOf[t]] = "sent" /\ Conflicting(t)
    /\ dispatch' = [dispatch EXCEPT ![RunOf[t]] = "over"] /\ work' = work \ Of(RunOf[t])
    /\ UNCHANGED storeVars /\ UNCHANGED <<core, tries, published>>

\* _collect_output_manifest: a file is uploaded if it changed.
Changed(w, b) == w.put = NoBlob /\ b # w.has

\* put_artifact: an attempt that was given up may still upload.
Upload(w, b) ==
    /\ Changed(w, b) /\ Mark(RunOf[w.task], w, b)
    /\ UNCHANGED dispatch /\ UNCHANGED taskVars

\* _upload_artifact: the answer reaches the attempt, if it is still there.
Uploaded ==
    /\ core.by # NoWork /\ Write
    /\ work' = IF core.by \in work THEN (work \ {core.by}) \cup {[core.by EXCEPT !.put = core.blob]}
               ELSE work
    /\ UNCHANGED <<dispatch, tries, published>>

\* _validate_task_file_manifest: the manifest is of the attempt the Core knows.
Accepted(w) == dispatch[RunOf[w.task]] = "sent" /\ w.try = tries[w.task]

\* finish_task: _publish_task_file_manifest.
Finish(w) ==
    /\ core.by # w /\ Accepted(w)
    /\ tries' = [tries EXCEPT ![w.task] = MaxTries[w.task] + 1]
    /\ published' = [published EXCEPT ![w.task] = w.put] /\ work' = work \ {w}
    /\ UNCHANGED storeVars /\ UNCHANGED <<core, dispatch>>

\* run_code_task: an attempt ends with an error, or its worker is gone.
WorkerEnds(w) ==
    /\ work' = work \ {w}
    /\ UNCHANGED storeVars /\ UNCHANGED <<core, dispatch, tries, published>>
-----------------------------------------------------------------------------

Next ==
    \/ \E r \in Runs : CreateCapability(r) \/ StoreInitial(r) \/ DispatchFails(r) \/ Revoke(r)
    \/ \E b \in Blobs : StoreSummary(b) \/ Reap(b)
    \/ InitialStored \/ Uploaded \/ PutFails \/ ReapDone \/ Crash
    \/ \E t \in Tasks : Stage(t) \/ Conflict(t)
    \/ \E w \in work : Finish(w) \/ WorkerEnds(w) \/ \E b \in Fresh : Upload(w, b)

Spec == Init /\ [][Next]_vars
-----------------------------------------------------------------------------
(* Properties. *)

\* What a run has uploaded stays, and stays its own to read, until the run is
\* revoked, whoever else is revoked or stores the same bytes meanwhile; so does all
\* that a task will find in the manifests of its parents.
Kept ==
    /\ \A u \in uploaded : u[1] \in live => u[2] \in files /\ u \in grants
    /\ \A t \in Tasks : RunOf[t] \in live => Readable(RunOf[t], published[t])
    /\ \A w \in work : Readable(RunOf[w.task], w.has)

\* Bytes stored in the open are never deleted.
OpenKept == opened \subseteq files

\* Bytes that were only ever uploaded privately are denied to everybody without a
\* grant, also after a crash in the middle of a revocation.
Denied == \A b \in files \ opened : row[b] # "none"

\* When no revocation is under way or owed, private bytes without a reader are gone.
Reaped ==
    core.op # "reap" /\ (\A r \in Runs : dispatch[r] # "failed") => Orphans = {}

ArtifactsSafe == Kept /\ OpenKept /\ Denied /\ Reaped
=============================================================================
