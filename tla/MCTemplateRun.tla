---------------------------- MODULE MCTemplateRun ----------------------------
(***************************************************************************)
(* Instances for TemplateRun.                                              *)
(***************************************************************************)
EXTENDS CapturedRun, MatmulTemplates

MCTemplates == [t \in {"qkv", "qkt", "atv", "down", "up"} |-> mm_templates[t]]

\* NPU_ZSZ below the size of scratch leaves the pieces of the last call there;
\* NPU_1COPY runs the third copy of the chain.
MCEnvironments == {[zsz |-> 0, one_copy |-> FALSE], [zsz |-> 4096, one_copy |-> TRUE]}

\* In the middle: after the readers and the transposers of qkv.
MCAbortAfter == {11}

Permuted == Permutations(Xs) \cup Permutations(Ws)
==============================================================================
