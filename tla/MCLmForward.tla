---------------------------- MODULE MCLmForward ----------------------------
(* Small instances of LmForward.  The layers are uninterpreted: a value is   *)
(* the term it was computed by.                                              *)
EXTENDS LmForward

MCEmbed(m, t, p) == <<m, t, p>>
MCKeyValue(w, h) == <<w, h>>
MCBlock(w, h, seen) == <<w, h, seen>>

MCContexts == UNION {[1 .. n -> Tokens] : n \in 1 .. MaxSeq}

\* The transformer applied to a whole context.
MCTransformer ==
    LET at[m \in Models, i \in 0 .. NLayers, c \in MCContexts] ==
          IF i = 0 THEN MCEmbed(m, c[Len(c)], Len(c) - 1)
          ELSE MCBlock([r \in Reads |-> <<m, i - 1, r>>], at[m, i - 1, c],
                       [s \in 0 .. Len(c) - 1 |->
                          MCKeyValue([r \in KvRoles |-> <<m, i - 1, r>>],
                                     at[m, i - 1, SubSeq(c, 1, s + 1)])])
    IN at

MCHidden(m, i, c) == MCTransformer[m, i, c]

MCReads == IF SwiGlu THEN 0 .. 6
           ELSE 0 .. 2 + (IF ProjBlocks > 0 THEN ProjBlocks ELSE 1)
MCKvRoles == IF SwiGlu THEN 0 .. 2 ELSE {0}
MCWeights == Models \X LayerNumbers \X (0 .. 10)

\* Nothing, or the product that makes keys and values (without a bias: all).
MCRefusals == {{}, {0}}

\* The first load, and the first one that finds no slot among six.
MCRaiseAt == {<<0, 0>>, <<1, 2>>}
=============================================================================
