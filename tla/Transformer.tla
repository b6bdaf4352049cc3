---------------------------- MODULE Transformer ----------------------------
(***************************************************************************)
(* The function that lm_forward.c computes one token at a time: a          *)
(* decoder-only transformer.                                               *)
(*                                                                         *)
(* The arithmetic is left open: Embed, KeyValue and Block stand for what   *)
(* the code computes from the weights, the input and the keys and values.  *)
(* Hidden(m, i, c) is the input of layer i for the last token of c, and    *)
(* is computed from the whole of c, without a cache.                       *)
(***************************************************************************)
EXTENDS Integers, Sequences

CONSTANTS
    Models,           \* the NPUModel objects of the program
    Tokens,
    MaxSeq,           \* max_seq, the positions the KV cache has
    NLayers,          \* n_layers
    Reads,            \* the roles a layer multiplies by (w_idx in a layer)
    KvRoles,          \* those its key and value come from
    Embed(_, _, _),   \* model, token, position
    KeyValue(_, _),   \* weights of KvRoles, input of the layer
    Block(_, _, _),   \* weights of Reads, input, keys and values so far
    Hidden(_, _, _)   \* model, layer, context

LayerNumbers == 0 .. NLayers - 1

Contexts == UNION {[1 .. n -> Tokens] : n \in 1 .. MaxSeq}

Prefix(c, n) == [j \in 1 .. n |-> c[j]]

\* The weights of a model, named.
LayerWeights(m, i) == [r \in Reads |-> <<m, i, r>>]
KvWeights(m, i) == [r \in KvRoles |-> <<m, i, r>>]

ASSUME ModelAssumption ==
    /\ MaxSeq \in Nat \ {0}
    /\ NLayers \in Nat \ {0}
    /\ KvRoles \subseteq Reads

\* The transformer, one token after the other.
ASSUME HiddenAssumption ==
    \A m \in Models, c \in Contexts :
        /\ Hidden(m, 0, c) = Embed(m, c[Len(c)], Len(c) - 1)
        /\ \A i \in LayerNumbers :
             Hidden(m, i + 1, c) =
               Block(LayerWeights(m, i), Hidden(m, i, c),
                     [s \in 0 .. Len(c) - 1 |->
                        KeyValue(KvWeights(m, i),
                                 Hidden(m, i, Prefix(c, s + 1)))])

Logits(m, c) == <<m, Hidden(m, NLayers, c)>>

NoAnswer == [ok |-> FALSE]
Answer(m, y) == [ok |-> TRUE, model |-> m, logits |-> y]
=============================================================================
