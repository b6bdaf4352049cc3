------------------------------ MODULE OnnxOps ------------------------------
(***************************************************************************)
(* What the nodes of an ONNX graph mean, as far as onnx_runner.py handles  *)
(* them.  A tensor is its shape and its chunks (the KELEM elements that    *)
(* one run of an element-wise kernel takes); the content of a chunk is the *)
(* term that computes it.  An attribute is a name for what the node says.  *)
(***************************************************************************)
EXTENDS Naturals, Sequences

CONSTANTS
    Elements,       \* the number of elements of each shape
    KElem,          \* KELEM, 49152: the elements of one run of a kernel
    BroadcastShape, \* the shape of an element-wise result, for pairs
    MatMulShape,    \* the shape of X @ W, for pairs of shapes
    ConcatShape,    \* for <<axis, shape, shape>>
    TransposeShape  \* for <<perm, shape>>

ASSUME OpsAssumption ==
    /\ KElem \in Nat \ {0}
    /\ \A s \in DOMAIN Elements : Elements[s] \in Nat \ {0}
    /\ "absent" \notin DOMAIN Elements
    /\ \A f \in {BroadcastShape, MatMulShape, ConcatShape, TransposeShape} :
          \A x \in DOMAIN f : f[x] \in DOMAIN Elements

Shapes == DOMAIN Elements

\* Rounded up: the last chunk may be partly filled.
Chunks(s) == (Elements[s] + KElem - 1) \div KElem

Tensor(s, data) == [shape |-> s, data |-> data]

Input(i, s) == Tensor(s, [c \in 1 .. Chunks(s) |-> <<"in", i, c>>])

\* An optional input that the node leaves out.
Absent == [shape |-> "absent", data |-> << >>]

Binary == {"Add", "Sub", "Mul", "Div"}
Activations == {"Relu", "Sigmoid", "Tanh", "LeakyRelu", "Gelu"}

ResultShape(op, a, ts) ==
    CASE op \in Binary /\ ts[1].shape # ts[2].shape ->
                BroadcastShape[<<ts[1].shape, ts[2].shape>>]
      [] op = "MatMul" -> MatMulShape[<<ts[1].shape, ts[2].shape>>]
      [] op = "Concat" -> ConcatShape[<<a, ts[1].shape, ts[2].shape>>]
      [] op = "Transpose" -> TransposeShape[<<a, ts[1].shape>>]
      [] OTHER -> ts[1].shape

\* Does chunk c of the result come from chunk c of the operands?  A captured
\* Clip has its bounds in the capture.
Chunkwise(op, ts) ==
    \/ op \in Activations
    \/ op = "Clip" /\ Len(ts) = 1
    \/ op \in Binary /\ ts[1].shape = ts[2].shape

\* The result of a node with attribute a on the tensors ts.
Apply(op, a, ts) ==
    LET s == ResultShape(op, a, ts)
    IN  Tensor(s, [c \in 1 .. Chunks(s) |->
            IF Chunkwise(op, ts)
            THEN <<op, a, [j \in DOMAIN ts |-> ts[j].data[c]]>>
            ELSE <<op, a, ts, c>>])
=============================================================================
