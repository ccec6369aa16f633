--------------------------- MODULE MCResourceLeases ---------------------------
(* ResourceLeases on a head and two workers that share one address; the head  *)
(* never loses its registration by death, a worker may be replaced.           *)
EXTENDS ResourceLeases, TLC

CONSTANTS head, w1, w2, hostA, hostB, l1, l2, r1, r2

MCNodes     == {head, w1, w2}
MCHostOf    == (head :> hostA) @@ (w1 :> hostB) @@ (w2 :> hostB)
MCNeeds     == {[cpu |-> 1, gpu |-> 0, mem |-> 0], [cpu |-> 1, gpu |-> 1, mem |-> 2]}
MCReports   == {[cpu |-> 2, dev |-> {0}, mem |-> [g \in Gpus |-> 4]],
                [cpu |-> 1, dev |-> {0}, mem |-> [g \in Gpus |-> 1]],
                [cpu |-> 1, dev |-> {}, mem |-> [g \in Gpus |-> 0]]}

\* The two workers share an address and the ids of leases and workflows carry
\* no meaning; every property of the run is a safety property.
MCSymmetry  == Permutations({w1, w2}) \cup Permutations({l1, l2})
                  \cup Permutations({r1, r2})
===============================================================================
