---------------------------- MODULE MCRunMonitor -----------------------------
(* Instances of RunMonitor: two roots and their common child, or a chain of   *)
(* two tasks.                                                                 *)
EXTENDS RunMonitor, TLC

CONSTANTS p, q, r

MCJoin  == [t \in Tasks |-> IF t = r THEN {p, q} ELSE {}]
MCChain == [t \in Tasks |-> IF t = r THEN {p} ELSE {}]
===============================================================================
