--------------------------- MODULE DagSubmission ---------------------------
(* From the specification of a DAG to the tasks of its run: workflow/dag_spec.py,
   workflow/workflow.py, the workflow ids and run inputs of path/path.py, and the
   inputs the Scheduler resolves (scheduler/runtime.py).  A node has one output; the
   order of edges does not matter to what is modelled. *)
EXTENDS Naturals, FiniteSets, FiniteSetsExt

CONSTANTS Nodes, NoNode,
          Slots,       \* inputs of the nodes, [node, name]
          MaxEdges, MaxInputs

\* The parameters that a program can have.
Parameters ==
    /\ IsFiniteSet(Nodes) /\ Nodes # {} /\ NoNode \notin Nodes
    /\ \A s \in Slots : s.node \in Nodes

VARIABLES
    draft,      \* the specification the client is writing
    first,      \* the one that was accepted first
    definition, \* dag_definition of the workflow the id is bound to
    params,     \* input_params of its tasks
    answer,     \* to the last submission
    state,      \* of the run
    sent,       \* how often a task was sent to the Scheduler
    started, finished

vars == <<draft, first, definition, params, answer, state, sent, started, finished>>
runVars == <<state, sent, started, finished>>

Input(schema, node, long, has) == [schema |-> schema, node |-> node, long |-> long, has |-> has]
NoInput == Input("none", NoNode, FALSE, FALSE)

\* What a client writes: a literal, only a data_type, a reference to the output of a
\* node as node.output or node.output.name, a reference to an input of the run.
Written ==
    {Input("literal", NoNode, FALSE, FALSE), Input("typed", NoNode, FALSE, FALSE),
     Input("from_run", NoNode, FALSE, FALSE)}
        \cup {Input("from", n, FALSE, FALSE) : n \in Nodes}
        \cup {Input("from", n, TRUE, FALSE) : n \in Nodes}

Edges == [source : Nodes, target : Slots]

NoDefinition == [edges |-> {}, inputs |-> [s \in Slots |-> NoInput], contract |-> FALSE, set |-> FALSE]

Init ==
    /\ draft = NoDefinition /\ first = NoDefinition /\ definition = NoDefinition /\ params = [s \in Slots |-> NoInput]
    /\ answer = "none" /\ state = "none" /\ sent = [n \in Nodes |-> 0]
    /\ started = {} /\ finished = {}
-----------------------------------------------------------------------------
(* The client. *)

\* What was accepted is changed once at most (a bound).
Drafts ==
    /\ state = "none" /\ (definition.set => draft = first)
    /\ answer' = "none" /\ UNCHANGED <<first, definition, params>> /\ UNCHANGED runVars

AddEdge(e) ==
    /\ e \notin draft.edges /\ Cardinality(draft.edges) < MaxEdges
    /\ draft' = [draft EXCEPT !.edges = @ \cup {e}] /\ Drafts

SetInput(s, i) ==
    /\ draft.inputs[s] = NoInput
    /\ Cardinality({u \in Slots : draft.inputs[u] # NoInput}) < MaxInputs
    /\ draft' = [draft EXCEPT !.inputs[s] = i] /\ Drafts

\* The input contract of the workflow has one required runtime input, or none.
SetContract ==
    /\ ~draft.contract /\ draft' = [draft EXCEPT !.contract = TRUE] /\ Drafts
-----------------------------------------------------------------------------
(* dag_spec_from_payload and build_dag_workflow. *)

\* _normalize_inputs
NormalInput(i) ==
    CASE i.schema = "literal" -> [i EXCEPT !.schema = "from_user", !.has = TRUE]
      [] i.schema = "typed" -> [i EXCEPT !.schema = "from_user"]
      [] i.schema = "from" -> [i EXCEPT !.schema = "from_task", !.has = TRUE]
      [] OTHER -> i

\* dag_definition_from_spec
Normal(d) == [d EXCEPT !.inputs = [s \in Slots |-> NormalInput(d.inputs[s])], !.set = TRUE]

Sources(edges, s) == {e.source : e \in {f \in edges : f.target = s}}
Before(edges, n) == UNION {Sources(edges, s) : s \in {t \in Slots : t.node = n}}

\* _validate_graph
Acyclic(edges) ==
    \A some \in SUBSET Nodes \ {{}} : \E n \in some : Before(edges, n) \cap some = {}

\* _build_task_inputs: an input has one source.
Consistent(d) ==
    \A s \in Slots :
        LET from == Sources(d.edges, s)
            i == d.inputs[s]
        IN from # {} => /\ Cardinality(from) = 1
                        /\ ~(i.schema = "from_user" /\ i.has)
                        /\ i.schema = "from_task" => from = {i.node}

Params(d) ==
    [s \in Slots |-> IF Sources(d.edges, s) = {} THEN d.inputs[s]
                     ELSE Input("from_task", CHOOSE n \in Sources(d.edges, s) : TRUE, TRUE, TRUE)]

\* create_dag_workflow: an id that is bound stays bound to its DAG.
Submit ==
    LET new == Normal(draft)
    IN /\ state = "none"
       /\ IF Acyclic(new.edges) /\ (definition.set => new = definition) /\ Consistent(new)
          THEN /\ answer' = "accepted" /\ definition' = Normal(new) /\ params' = Params(new)
               /\ first' = IF definition.set THEN first ELSE draft
          ELSE answer' = "refused" /\ UNCHANGED <<first, definition, params>>
       /\ UNCHANGED draft /\ UNCHANGED runVars
-----------------------------------------------------------------------------
(* The run. *)

\* _bind_workflow_run_inputs: what is asked for, what is given and what is used agree.
Bound(given) ==
    /\ given = definition.contract
    /\ given = \E s \in Slots : params[s].schema = "from_run"

\* get_start_task
Roots == {n \in Nodes : Before(definition.edges, n) = {}}

\* _start_workflow
Start(given) ==
    /\ answer = "accepted" /\ state = "none" /\ Bound(given)
    /\ state' = "active" /\ sent' = [n \in Nodes |-> IF n \in Roots THEN 1 ELSE 0]
    /\ params' = [s \in Slots |-> IF params[s].schema = "from_run"
                                  THEN [params[s] EXCEPT !.schema = "from_user", !.has = TRUE]
                                  ELSE params[s]]
    /\ UNCHANGED <<draft, first, definition, answer, started, finished>>

\* _resolve_task_input_data, get_task_result: a reference is node.output.name, to a
\* task that has a result.
Resolves(n) ==
    \A s \in Slots : s.node = n /\ params[s].schema = "from_task"
                     => params[s].long /\ params[s].node \in finished

\* run_task: the task runs, or it fails and the run with it.
Launch(n) ==
    /\ state = "active" /\ sent[n] > 0 /\ n \notin started
    /\ started' = started \cup {n}
    /\ state' = IF Resolves(n) THEN state ELSE "failed"
    /\ UNCHANGED <<draft, first, definition, params, answer, sent, finished>>

\* Mutant of Ready: one finished predecessor is enough.
ReadyEarly(n, over) ==
    {m \in Nodes : /\ n \in Before(definition.edges, m)
                   /\ Before(definition.edges, m) \cap over # {}}

\* Workflow.finish_task
Ready(n, over) ==
    {m \in Nodes : /\ n \in Before(definition.edges, m)
                   /\ Before(definition.edges, m) \subseteq over}

Finish(n) ==
    LET over == finished \cup {n}
    IN /\ state = "active" /\ n \in started \ finished
       /\ finished' = over /\ state' = IF over = Nodes THEN "finished" ELSE state
       /\ sent' = [m \in Nodes |-> IF m \in Ready(n, over) THEN sent[m] + 1 ELSE sent[m]]
       /\ UNCHANGED <<draft, first, definition, params, answer, started>>
-----------------------------------------------------------------------------

Next ==
    \/ \E e \in Edges : AddEdge(e)
    \/ \E s \in Slots, i \in Written : SetInput(s, i)
    \/ SetContract \/ Submit \/ \E given \in BOOLEAN : Start(given)
    \/ \E n \in Nodes : Launch(n) \/ Finish(n)

Spec == Init /\ [][Next]_vars
-----------------------------------------------------------------------------
(* prepare_for_strategy: the levels that HACS weighs tasks by. *)

Ancestors ==
    LET level[n \in Nodes] == LET before == Before(definition.edges, n)
                              IN IF before = {} THEN 0 ELSE Max({level[m] : m \in before}) + 1
    IN level

After(n) == {m \in Nodes : n \in Before(definition.edges, m)}

Descendants ==
    LET level[n \in Nodes] == IF After(n) = {} THEN 0 ELSE Max({level[m] : m \in After(n)}) + 1
    IN level
-----------------------------------------------------------------------------
(* Properties. *)

\* Every reference to a task has an edge, as the interface's example has it.
Backed ==
    \A s \in Slots : definition.inputs[s].schema = "from_task"
                     => definition.inputs[s].node \in Sources(definition.edges, s)

\* A task is sent once, when all it waits for has finished, and finds its inputs; a
\* run whose references have edges neither fails on them nor stops half-way.
Executable ==
    /\ \A n \in Nodes : /\ sent[n] <= 1
                        /\ sent[n] = 1 => Before(definition.edges, n) \subseteq finished
    /\ state = "failed" => ~Backed
    /\ state = "active" => \E n \in Nodes : sent[n] = 1 /\ n \notin finished

\* The same specification can be submitted again under its workflow id, and no other.
Rebindable ==
    answer # "none" /\ definition.set => (answer = "accepted" <=> draft = first)

\* A task's level is above those of all it waits for, and a chain through it is as
\* long as one of the DAG.
Levelled ==
    state = "active" =>
        /\ \A n \in Nodes, m \in Nodes : n \in Before(definition.edges, m) =>
               Ancestors[n] < Ancestors[m] /\ Descendants[m] < Descendants[n]
        /\ \A n \in Nodes : Ancestors[n] + Descendants[n] < Cardinality(Nodes)

\* The three together.
DagSound == Executable /\ Rebindable /\ Levelled
=============================================================================
