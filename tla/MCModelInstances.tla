--------------------------- MODULE MCModelInstances ---------------------------
(* Instances of ModelInstances: two models compete for one GPU, or two tasks   *)
(* share an instance.                                                          *)
EXTENDS ModelInstances, TLC

CONSTANTS a, b, t, u, llama, qwen

ModelOfId    == (a :> llama) @@ (b :> qwen)
WantsOfTasks == {(t :> llama) @@ (u :> qwen), (t :> llama) @@ (u :> llama)}
===============================================================================
