--------------------------- MODULE MCOnnxRunner ---------------------------
(* Small instances of OnnxRunner: the shapes of one transformer block.     *)
EXTENDS OnnxRunner, TLC

\* 1x100x768 is two chunks, the second not full.
MCElements ==
    ("1x64x768" :> 49152) @@ ("64x768" :> 49152) @@ ("1x100x768" :> 76800)
    @@ ("1x32x768" :> 24576) @@ ("2x32x768" :> 49152) @@ ("1x64x64" :> 4096)
    @@ ("1x768x64" :> 49152) @@ ("768x64x1" :> 49152) @@ ("768x64" :> 49152)
    @@ ("1x100x64" :> 6400) @@ ("scalar" :> 1)

MCBroadcast == <<"1x64x768", "64x768">> :> "1x64x768"
MCMatMul == (<<"1x64x768", "768x64">> :> "1x64x64")
            @@ (<<"1x64x64", "64x768">> :> "1x64x768")
            @@ (<<"1x100x768", "768x64">> :> "1x100x64")
MCConcat == (<<"axis1", "1x32x768", "1x32x768">> :> "1x64x768")
            @@ (<<"axis0", "1x32x768", "1x32x768">> :> "2x32x768")
MCTranspose == (<<"swap", "1x64x768">> :> "1x768x64")
               @@ (<<"none", "1x64x768">> :> "768x64x1")
               @@ (<<"swap", "1x768x64">> :> "1x64x768")

Captured(op, a, ins, out, submits) ==
    [op |-> op, a |-> a, dt |-> "float16", ins |-> ins, out |-> out, submits |-> submits]

Captured8(op, ins, out) == [Captured(op, "none", ins, out, 1) EXCEPT !.dt = "int8"]

Plain(op) == <<op, "float16">>

MCTemplates ==
    (Plain("Relu") :> Captured("Relu", "none", <<Act>>, Act, 1))
    @@ (Plain("Sigmoid") :> Captured("Sigmoid", "none", <<Act>>, Act, 2))
    @@ (<<"Sigmoid", "int8">> :> Captured8("Sigmoid", <<Act>>, Act))
    @@ (Plain("LeakyRelu") :> Captured("LeakyRelu", "default", <<Act>>, Act, 1))
    @@ (Plain("Clip") :> Captured("Clip", "bounds", <<Act>>, Act, 1))
    @@ (Plain("Softmax") :> Captured("Softmax", "last", <<Act>>, Act, 2))
    @@ (Plain("Softmax64") :> Captured("Softmax", "last", <<"1x64x64">>, "1x64x64", 1))
    @@ (Plain("MatMul 768x64") :>
            Captured("MatMul", "none", <<Act, "768x64">>, "1x64x64", 1))
    @@ (Plain("MatMul 64x768") :>
            Captured("MatMul", "none", <<"1x64x64", "64x768">>, Act, 1))
    @@ (Plain("Concat") :> Captured("Concat", "axis1", <<"1x32x768", "1x32x768">>, Act, 1))
    @@ (Plain("Transpose") :> Captured("Transpose", "swap", <<Act>>, "1x768x64", 1))
    @@ (Plain("LayerNorm") :> Captured("LayerNormalization", "unit", <<Act>>, Act, 1))
    @@ (Plain("LayerNorm_key") :> Captured("LayerNormalization", "trained", <<Act>>, Act, 1))
    @@ (<<"Sub", "int8">> :> Captured8("Sub", <<Act, Act>>, Act))

MCNodes ==
    ({"Sub", "Relu", "Sigmoid", "MatMul", "Clip", "Slice"} \X {"none"})
    \union ({"LeakyRelu"} \X {"default", "other"})
    \union ({"Softmax"} \X {"last", "first"})
    \union ({"Concat"} \X {"axis0", "axis1"})
    \union ({"Transpose"} \X {"none", "swap"})
    \union ({"LayerNormalization"} \X {"unit", "unit_eps", "trained", "untrained"})

MCInputLists == {<<"1x64x768", "64x768">>, <<"1x64x768", "768x64">>, <<"1x100x768", "scalar">>,
                 <<"1x64x64">>, <<"1x32x768">>}
=============================================================================
