----------------------------- MODULE MCDynamicRun ------------------------------
(* Instances of DynamicRun: a client appends up to three tasks.               *)
EXTENDS DynamicRun, TLC

CONSTANTS p, q, r
===============================================================================
