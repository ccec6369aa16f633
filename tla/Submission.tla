------------------------------ MODULE Submission ------------------------------
(***************************************************************************)
(* What a client may rely on when it submits a run under a run_id, once or *)
(* again: the submission either starts the run, after each of its root     *)
(* tasks was sent exactly once, or it fails, and neither is taken back.    *)
(***************************************************************************)
EXTENDS Naturals

CONSTANT Roots

VARIABLES
    outcome,   \* "none", "trying", "started", "failed"
    sent       \* how often each root task was sent

vars == <<outcome, sent>>

Init == outcome = "none" /\ sent = [t \in Roots |-> 0]

Begin == outcome = "none" /\ outcome' = "trying" /\ UNCHANGED sent

Send(t) == /\ outcome = "trying" /\ sent[t] = 0
           /\ sent' = [sent EXCEPT ![t] = 1] /\ UNCHANGED outcome

Succeed == /\ outcome = "trying" /\ \A t \in Roots : sent[t] = 1
           /\ outcome' = "started" /\ UNCHANGED sent

Fail == outcome = "trying" /\ outcome' = "failed" /\ UNCHANGED sent

Next == Begin \/ Succeed \/ Fail \/ \E t \in Roots : Send(t)

Spec == Init /\ [][Next]_vars
===============================================================================
