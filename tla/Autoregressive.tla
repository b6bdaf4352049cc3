--------------------------- MODULE Autoregressive ---------------------------
(***************************************************************************)
(* What lm_forward.c promises to the programs that generate text with it:  *)
(* the logits that a step returns are those of the transformer applied to  *)
(* all the tokens given to the model since its reset.                      *)
(***************************************************************************)
EXTENDS Transformer

VARIABLES
    ctx,     \* the tokens each model was given since its reset
    kept,    \* every step since the last reset had the weights of its model
             \* and ran as a whole
    out      \* the last answer

Init == /\ ctx = [m \in Models |-> << >>]
        /\ kept = TRUE
        /\ out = NoAnswer

\* The next token: while the weights were kept, the logits of the context.
Step(m) ==
    \E t \in Tokens :
        /\ Len(ctx[m]) < MaxSeq
        /\ kept
        /\ ctx' = [ctx EXCEPT ![m] = Append(@, t)]
        /\ out' = Answer(m, Logits(m, ctx'[m]))
        /\ UNCHANGED kept

\* A step on weights that were overwritten, or part of which the device did
\* not run: nothing is said of the answers until the next reset.
BrokenStep(m) ==
    /\ \E t \in Tokens : ctx' = [ctx EXCEPT ![m] = Append(@, t)]
    /\ Len(ctx[m]) < MaxSeq
    /\ kept' = FALSE
    /\ out'.ok

\* The call is refused, or fails half-way: the context is what it was.
Fail ==
    /\ out' = NoAnswer
    /\ UNCHANGED <<ctx, kept>>

Reset(m) ==
    /\ ctx' = [ctx EXCEPT ![m] = << >>]
    /\ kept' = TRUE
    /\ out' = NoAnswer

\* npu_lm_close, or the end of the process: every context is gone.
Forget ==
    /\ ctx' = [m \in Models |-> << >>]
    /\ kept' = TRUE
    /\ out' = NoAnswer

Next ==
    \/ \E m \in Models : Step(m) \/ BrokenStep(m) \/ Reset(m)
    \/ Fail
    \/ Forget

Spec == Init /\ [][Next]_<<ctx, kept, out>>
=============================================================================
