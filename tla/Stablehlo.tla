----------------------------- MODULE Stablehlo -----------------------------
(***************************************************************************)
(* What a traced JAX function means: the part of StableHLO that the plugin *)
(* reads.  A value is an argument or the result of an operation, numbered  *)
(* in that order.  A tensor is the sequence of its chunks (KELEM elements, *)
(* what one submit of an element-wise kernel takes), and the content of a  *)
(* chunk is the term that computes it: element-wise operations are         *)
(* symbols applied chunk by chunk.                                         *)
(***************************************************************************)
EXTENDS Naturals, Sequences

CONSTANTS
    Chunks,   \* the number of chunks of a tensor of each shape
    DotShape  \* the shape of X @ W, for the pairs <<shape of X, shape of W>>

ASSUME ShapeAssumption ==
    /\ \A s \in DOMAIN Chunks : Chunks[s] \in Nat \ {0}
    /\ "scalar" \in DOMAIN Chunks
    /\ \A p \in DOMAIN DotShape : {p[1], p[2], DotShape[p]} \subseteq DOMAIN Chunks

Binary == {"add", "subtract", "multiply", "divide"}
Unary == {"tanh", "relu_call", "silu_call", "npu_cached_mm"}

\* An operation: its operands are numbers of values; val is the content of a
\* constant: a scalar or a splat ("zero", "one"), or a "table" of elements.
Operation(op, src, val, shape) ==
    [op |-> op, src |-> src, val |-> val, shape |-> shape]

ShapeOf(args, body, v) ==
    IF v <= Len(args) THEN args[v] ELSE body[v - Len(args)].shape

Argument(i, c) == <<"arg", i, c>>
Constant(val) == <<"const", val>>

\* The chunk an element-wise operation makes of the chunks of its operands.
\* A maximum with zero is a relu, whichever operand the zero is.
Elementwise(op, t) ==
    CASE op \in Binary -> <<op, t[1], t[2]>>
      [] op = "maximum" ->
            IF t[2] = Constant("zero") THEN <<"relu", t[1]>>
            ELSE IF t[1] = Constant("zero") THEN <<"relu", t[2]>>
            ELSE <<op, t[1], t[2]>>
      [] op \in {"relu", "relu_call"} -> <<"relu", t[1]>>
      [] OTHER -> <<op, t[1]>>

Dot(x, w, shape) == [c \in 1 .. Chunks[shape] |-> <<"dot", x, w, c>>]

CachedDot(x, shape) == [c \in 1 .. Chunks[shape] |-> <<"cached_dot", x, c>>]

\* The tensor of one operation, from the tensors of the values before it.
Result(o, value) ==
    [c \in 1 .. Chunks[o.shape] |->
        CASE o.op = "constant" ->
                IF o.val = "table" THEN <<"table", c>> ELSE Constant(o.val)
          [] o.op = "broadcast_in_dim" ->
                LET t == value[o.src[1]]
                IN  IF t[1][1] = "const" THEN t[1]
                    ELSE <<"broadcast", t, c>>
          [] o.op = "dot_general" ->
                Dot(value[o.src[1]], value[o.src[2]], o.shape)[c]
          [] o.op = "npu_cached_mm" -> CachedDot(value[o.src[1]], o.shape)[c]
          [] OTHER ->
                Elementwise(o.op, [j \in DOMAIN o.src |-> value[o.src[j]][c]])]

ArgumentTensor(args, i) == [c \in 1 .. Chunks[args[i]] |-> Argument(i, c)]

\* The tensors of all the values of a function.
Values(args, body) ==
    LET value[v \in 1 .. Len(args) + Len(body)] ==
            IF v <= Len(args) THEN ArgumentTensor(args, v)
            ELSE Result(body[v - Len(args)], value)
    IN  value
=============================================================================
