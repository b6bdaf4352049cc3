--------------------------- MODULE MCActivationRun ---------------------------
(***************************************************************************)
(* Instances for ActivationRun.                                            *)
(***************************************************************************)
EXTENDS ActivationRun

\* One chunk and a half: the second chunk is partial.
MCInputs == {[of |-> "a", n |-> 3], [of |-> "b", n |-> 3]}
==============================================================================
