--------------------------- MODULE MCSchedulerCore ----------------------------
(* Instances of SchedulerCore: a and b are tasks on the cpu queue, b2 is a    *)
(* second dispatch of b, and m is a task for a GPU that may need a model; m   *)
(* has a workflow of its own or shares w1 with the others.                    *)
EXTENDS SchedulerCore, TLC

CONSTANTS a, b, b2, m, w1, w2

MCTaskOf     == [o \in Objs |-> IF o \in {b, b2} THEN "b" ELSE IF o = a THEN "a" ELSE "m"]
MCWorkflowOf == [o \in Objs |-> IF o = m THEN w2 ELSE w1]
MCClassOf    == [o \in Objs |-> IF o = m THEN 1 ELSE 2]
MCSlots      == <<1, 2, 1>>
MCOneWorkflow == [o \in Objs |-> w1]
LiveSlots    == <<0, 1, 1>>
===============================================================================
