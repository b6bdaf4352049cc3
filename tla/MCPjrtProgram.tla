--------------------------- MODULE MCPjrtProgram ---------------------------
(* Two chunks of activations x, weights w, and scalars.                    *)
EXTENDS PjrtProgram

MCChunks == [x |-> 2, w |-> 1, scalar |-> 1]
MCDotShape == [p \in {<<"x", "w">>, <<"w", "w">>} |-> p[1]]
MCTemplates == {<<"x", "w">>}
MCArgLists == {<<"x">>, <<"x", "x">>, <<"x", "w">>}
=============================================================================
