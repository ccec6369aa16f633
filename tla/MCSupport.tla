----------------------------- MODULE MCSupport -----------------------------
(* Small instances of the components of Support. *)
EXTENDS Support, Naturals, TLC

CONSTANTS Big, Small1, Small2, Run1, Run2, Text1, Text2, Left, Right, Merge, Node1, Node2

\* A task of two slots and two of one, on a node of two slots.
OrderTasks == {Big, Small1, Small2}
NeedOf == [t \in OrderTasks |-> IF t = Big THEN 2 ELSE 1]

\* Two tasks and the one that joins them, in a run; another run has the file already.
JoinTasks == {Left, Right, Merge}
RunOfTask == [t \in JoinTasks |-> Run1]
ParentsOf == [t \in JoinTasks |-> IF t = Merge THEN {Left, Right} ELSE {}]
InitialOf == Run1 :> None @@ Run2 :> Text1
TriesOf == [t \in JoinTasks |-> IF t = Left THEN 2 ELSE 1]

\* Three nodes, an input each, and one with two.
InputsOf == {[node |-> n, name |-> "i"] : n \in JoinTasks} \cup {[node |-> Merge, name |-> "j"]}

\* Two runs of the same code with inputs of one size class; the second is pinned to
\* the smaller node.
SizeOf == Run1 :> 5 @@ Run2 :> 7
LimitOf == Run1 :> 1900 @@ Run2 :> 1400
PinnedTo == Run1 :> None @@ Run2 :> Node2
CapacityOf == Node1 :> 2000 @@ Node2 :> 1300
RetryOnOf == Run1 :> {"resource_insufficient", "node_lost", "invocation_error"}
             @@ Run2 :> {"node_lost"}
RetriesOf == Run1 :> 2 @@ Run2 :> 0
=============================================================================
