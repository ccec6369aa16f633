---------------------------- MODULE MemoryRepair ----------------------------
(* What a failed attempt of a task leads to, and what later runs learn from it:
   fault_tolerance.py, resource_policy.py, resource_history.py, scheduler/error.py,
   the recovery of scheduler.py and the observations of path.py.  A run is one GPU
   task of its own memory (scope "task"); the requests of a shared model instance
   are in ModelInstances.  Memory is in MiB. *)
EXTENDS Naturals, Sequences, FiniteSets, FiniteSetsExt, SequencesExt

CONSTANTS Runs, Nodes, NoNode,
          Size,         \* of the input of a run
          Declared,     \* gpu_mem
          Limit,        \* gpu_mem_limit of a run
          Pinned,       \* target_node_id of a run, or NoNode
          Capacity,     \* of a node
          Needs,        \* what an attempt may find it needs
          RetryOn, MaxRetries   \* of a run

\* The parameters that a program can have.
Parameters ==
    /\ IsFiniteSet(Runs) /\ NoNode \notin Nodes
    /\ Declared \in Nat /\ Needs \subseteq Nat \ {0}
    /\ Limit \in [Runs -> Nat] /\ MaxRetries \in [Runs -> Nat]

VARIABLES
    profiles,   \* of the history file, by context
    counted,    \* observation_ids of the file
    channel,    \* events to the Core
    phase,      \* none, refused, queued, running, recovering, finished, failed, over
    task,       \* request, attempt, node, avoid_node_ids, corrections
    repair,     \* of a run that is recovering
    trace       \* attempts of fault_tolerance

vars == <<profiles, counted, channel, phase, task, repair, trace>>

NewTask == [request |-> 0, attempt |-> 0, node |-> NoNode, avoid |-> {}, corrections |-> 0]
NoRepair == [amount |-> 0, needed |-> 0]
NoProfile == [samples |-> 0, peak |-> 0, bound |-> 0]

Bucket(n) == CHOOSE b \in {1, 2, 4, 8, 16} : b >= n /\ (b = 1 \/ b \div 2 < n)

\* context_for_task: runs of the same code with inputs of about the same size.
ContextOf(r) == Bucket(Size[r])
Contexts == {ContextOf(r) : r \in Runs}

Init ==
    /\ profiles = [c \in Contexts |-> NoProfile] /\ counted = {} /\ channel = <<>>
    /\ phase = [r \in Runs |-> "none"] /\ task = [r \in Runs |-> NewTask]
    /\ repair = [r \in Runs |-> NoRepair] /\ trace = [r \in Runs |-> <<>>]
-----------------------------------------------------------------------------
(* The amount to ask for. *)

Margin(n) == (n * 23 + 19) \div 20      \* PEAK_MARGIN
Growth(n) == (n * 5 + 3) \div 4         \* OOM_GROWTH

\* recommend_resources of a submission.
Recommended(r) ==
    LET known == profiles[ContextOf(r)]
    IN Max({Declared, Margin(known.peak), known.bound})

\* Mutant of Adjusted: what was used, and no more.
AdjustedToUse(asked, needed) == Max({asked, needed})

\* recommend_resources after a failure.
Adjusted(asked, needed) == Max({asked, Margin(needed), Growth(asked), asked + 256})

\* _prepare_task_resources: ResourceLimitExceeded refuses the submission.
Prepare(r) ==
    /\ phase[r] = "none"
    /\ phase' = [phase EXCEPT ![r] = IF Recommended(r) > Limit[r] THEN "refused" ELSE "queued"]
    /\ task' = [task EXCEPT ![r].request = Recommended(r)]
    /\ UNCHANGED <<profiles, counted, channel, repair, trace>>
-----------------------------------------------------------------------------
(* The attempts. *)

Eligible(r) == {n \in Nodes \ task[r].avoid : Pinned[r] \in {n, NoNode}}

\* begin_attempt, on a node of select_node.
Launch(r) ==
    /\ phase[r] = "queued"
    /\ \E n \in Eligible(r) :
           /\ task[r].request <= Capacity[n]
           /\ task' = [task EXCEPT ![r].node = n, ![r].attempt = @ + 1]
    /\ phase' = [phase EXCEPT ![r] = "running"]
    /\ UNCHANGED <<profiles, counted, channel, repair, trace>>

Entry(r, type, needed, outcome) ==
    [type |-> type, node |-> task[r].node, asked |-> task[r].request, needed |-> needed,
     outcome |-> outcome]

\* _close_open_attempt: the last open entry.
Closed(entries, outcome) ==
    LET open == {i \in DOMAIN entries : entries[i].outcome = "open"}
    IN IF open = {} THEN entries ELSE [entries EXCEPT ![Max(open)].outcome = outcome]

\* An event of the attempt: its measured peak if it succeeded, and the amount its
\* task goes on with if that was adjusted.
Send(r, peak, adjusted) ==
    channel' = Append(channel, [run |-> r, attempt |-> task[r].attempt, ok |-> peak > 0,
                                peak |-> peak, required |-> adjusted])

\* record_success
Succeed(r, peak) ==
    /\ phase[r] = "running" /\ phase' = [phase EXCEPT ![r] = "finished"]
    /\ trace' = [trace EXCEPT ![r] = Closed(@, "succeeded")]
    /\ Send(r, peak, 0)
    /\ UNCHANGED <<profiles, counted, task, repair>>

\* exception_to_error_envelope: a CUDA failure tells what was needed; without the
\* details, the same error is one of resources that are short.
ErrorTypes == {"resource_insufficient", "node_lost", "invocation_error", "user_code"}
Retryable(type) == type # "user_code"
ErrorType(type) == IF type = "cuda_oom" THEN "resource_insufficient" ELSE type

\* _node_recoverability, and the one correction of an invocation.
Recoverable(r, type) ==
    /\ type = "node_lost" => Pinned[r] # task[r].node
    /\ type = "invocation_error" => task[r].corrections < 1

\* should_retry and diagnose_failure
ShouldRetry(r, type) ==
    /\ ErrorType(type) \in RetryOn[r] /\ Retryable(type)
    /\ task[r].attempt <= MaxRetries[r] /\ Recoverable(r, type)

\* record_retry_decision without a retry, and record_final_failure.
Fail(r, type, needed) ==
    /\ phase' = [phase EXCEPT ![r] = "failed"] /\ repair' = [repair EXCEPT ![r] = NoRepair]
    /\ trace' = [trace EXCEPT ![r] = Closed(Append(@, Entry(r, type, needed, "failed")), "failed")]
    /\ Send(r, 0, 0)
    /\ UNCHANGED <<profiles, counted, task>>

\* record_retry_decision with a retry.
Retry(r, type, needed, next) ==
    /\ phase' = [phase EXCEPT ![r] = "queued"]
    /\ trace' = [trace EXCEPT ![r] = Append(Closed(@, "failed"), Entry(r, type, needed, "open"))]
    /\ task' = [task EXCEPT ![r] = next]
    /\ Send(r, 0, IF type = "cuda_oom" THEN next.request ELSE 0)
    /\ UNCHANGED <<profiles, counted>>

\* _apply_node_recovery, _apply_invocation_correction; other requests stay as they are.
AfterError(r, type) ==
    [task[r] EXCEPT !.node = NoNode,
                    !.avoid = IF type = "node_lost" THEN @ \cup {task[r].node} ELSE @,
                    !.corrections = IF type = "invocation_error" THEN @ + 1 ELSE @]

\* An error of the other types: apply_repair_action.
Error(r, type) ==
    /\ phase[r] = "running"
    /\ IF ShouldRetry(r, type)
       THEN Retry(r, type, 0, AfterError(r, type)) /\ UNCHANGED repair
       ELSE Fail(r, type, 0)

\* A task out of GPU memory goes to the recovery before its retry.
OutOfMemory(r, needed) ==
    LET amount == Adjusted(task[r].request, needed)
    IN /\ phase[r] = "running"
       /\ IF ShouldRetry(r, "cuda_oom") /\ amount <= Limit[r]
          THEN /\ phase' = [phase EXCEPT ![r] = "recovering"]
               /\ repair' = [repair EXCEPT ![r] = [amount |-> amount, needed |-> needed]]
               /\ UNCHANGED <<profiles, counted, channel, task, trace>>
          ELSE Fail(r, "cuda_oom", needed)

\* _drain_resource_recoveries: the worker of the attempt is gone ...
Recovered(r) ==
    /\ phase[r] = "recovering" /\ repair' = [repair EXCEPT ![r] = NoRepair]
    /\ Retry(r, "cuda_oom", repair[r].needed,
             [task[r] EXCEPT !.request = repair[r].amount, !.node = NoNode])

\* ... or that could not be confirmed, or the recovery queue was full.
NotRecovered(r) == phase[r] = "recovering" /\ Fail(r, "resource_cleanup_failed", 0)

\* resource_capacity_exceeded: no eligible node will ever do.
Exceeds(r) ==
    /\ phase[r] = "queued" /\ Eligible(r) # {}
    /\ \A n \in Eligible(r) : task[r].request > Capacity[n]
    /\ Fail(r, "resource_capacity_exceeded", 0)
-----------------------------------------------------------------------------
(* The history. *)

\* A peak counts as measured, a failed attempt only with the amount of its repair.
Updated(profile, m) ==
    [samples |-> profile.samples + (IF m.ok THEN 1 ELSE 0),
     peak |-> Max({profile.peak, m.peak}), bound |-> Max({profile.bound, m.required})]

\* record: the file is replaced as a whole.
Learn(m) ==
    IF <<m.run, m.attempt>> \in counted THEN UNCHANGED <<profiles, counted>>
    ELSE /\ counted' = counted \cup {<<m.run, m.attempt>>}
         /\ profiles' = [profiles EXCEPT ![ContextOf(m.run)] = Updated(@, m)]

\* _resource_observation_from_message: the transaction of the event may be rolled
\* back after this, and the event is handled again.
Observe ==
    /\ channel # <<>> /\ Learn(Head(channel))
    /\ channel' \in {channel, Tail(channel)}
    /\ UNCHANGED <<phase, task, repair, trace>>

\* The Core ends, and the Scheduler with it.
Crash ==
    /\ channel' = <<>> /\ repair' = [r \in Runs |-> NoRepair]
    /\ phase' = [r \in Runs |-> IF phase[r] \in {"queued", "running", "recovering"} THEN "over"
                                ELSE phase[r]]
    /\ UNCHANGED <<profiles, counted, task, trace>>
-----------------------------------------------------------------------------

Next ==
    \/ \E r \in Runs :
           \/ Prepare(r) \/ Launch(r) \/ Recovered(r) \/ NotRecovered(r) \/ Exceeds(r)
           \/ \E n \in Needs : Succeed(r, n) \/ OutOfMemory(r, n)
           \/ \E type \in ErrorTypes : Error(r, type)
    \/ Observe \/ Crash

Spec == Init /\ [][Next]_vars
-----------------------------------------------------------------------------
(* Properties. *)

Active(r) == phase[r] \in {"queued", "running", "recovering"}

\* A retry asks for more than every attempt that ran out of memory had asked for
\* and needed, and never for more than the limit.
Grows ==
    \A r \in Runs : Active(r) =>
        /\ task[r].request <= Limit[r]
        /\ \A i \in DOMAIN trace[r] : trace[r][i].type = "cuda_oom" =>
               task[r].request > trace[r][i].asked /\ task[r].request >= trace[r][i].needed

\* No node on which the task was lost is tried again, whatever else was repaired
\* since, and an invocation is corrected once.
Moves ==
    \A r \in Runs :
        /\ \A i \in DOMAIN trace[r] : trace[r][i].type = "node_lost" /\ Active(r) =>
               trace[r][i].node \in task[r].avoid \ {task[r].node}
        /\ Cardinality({i \in DOMAIN trace[r] : /\ trace[r][i].type = "invocation_error"
                                                /\ trace[r][i].outcome # "failed"}) <= 1

\* The trace of a task that has ended tells how, and has nothing open; before that
\* one repair at most is open, the last.
Traced ==
    \A r \in Runs :
        LET outcomes == [i \in DOMAIN trace[r] |-> trace[r][i].outcome]
            failed == {i \in DOMAIN outcomes : outcomes[i] = "failed"}
        IN /\ Len(outcomes) <= MaxRetries[r] + 1
           /\ \A i \in DOMAIN outcomes : i < Len(outcomes) => i \in failed
           /\ phase[r] = "failed" => Len(outcomes) \in failed
           /\ phase[r] = "finished" /\ outcomes # <<>> => Last(outcomes) = "succeeded"
           /\ Active(r) /\ outcomes # <<>> => Last(outcomes) = "open"

\* What was learned outlives the runs it was learned from: a retry that asked for
\* more memory raises what the next run of this kind starts with, once the Core has
\* seen it, and every success counts once, however often its event was handled.
Learned ==
    /\ \A r \in Runs : \A i \in DOMAIN trace[r] :
           /\ trace[r][i].type = "cuda_oom" /\ <<r, i>> \in counted
           /\ phase[r] = "failed" => i < Len(trace[r])
           => profiles[ContextOf(r)].bound > trace[r][i].asked
    /\ \A c \in Contexts :
           profiles[c].samples = Cardinality({r \in Runs : /\ ContextOf(r) = c /\ phase[r] = "finished"
                                                           /\ <<r, task[r].attempt>> \in counted})

RepairsSound == Grows /\ Moves /\ Traced /\ Learned
=============================================================================
