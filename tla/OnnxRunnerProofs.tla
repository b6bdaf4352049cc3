-------------------------- MODULE OnnxRunnerProofs --------------------------
(***************************************************************************)
(* Theorems about OnnxRunner, for any captures, shapes and graphs.         *)
(***************************************************************************)
EXTENDS OnnxRunner, SequenceTheorems, TLAPS

\* Rounded up, as in Chunks.
LEMMA Division ==
    ASSUME NEW e \in Nat \ {0}, NEW k \in Nat \ {0}
    PROVE  (e + k - 1) \div k \in Nat \ {0} /\ (e = k => (e + k - 1) \div k = 1)
<1>. DEFINE q == (e + k - 1) \div k
<1>1. q \in Int /\ k * q <= e + k - 1 /\ e + k - 1 < k * (q + 1)
  OBVIOUS
<1>. HIDE DEF q
<1>2. q > 0
  BY <1>1
<1>3. e = k => q = 1
  <2>. SUFFICES ASSUME e = k PROVE q < 2
    BY <1>1, <1>2
  <2>. QED
    BY <1>1
<1>. QED
  BY <1>1, <1>2, <1>3 DEF q

\* A sequence of whatever it holds.
Listed(s) == s \in Seq({s[i] : i \in DOMAIN s})

IsTensor(t) ==
    /\ t.shape \in Shapes
    /\ t = Tensor(t.shape, t.data)
    /\ t.data = [c \in 1 .. Chunks(t.shape) |-> t.data[c]]

\* Who is at work in each step.
Control ==
    /\ pc \in {"idle", "graph", "compile", "run", "done", "failed"}
    /\ phase \in {"none", "ready", "write", "submit", "read", "returned", "raised"}
    /\ caller \in Callers \union {"none"}
    /\ precision \in Precisions \union {"none"}
    /\ pc = "run" <=> phase # "none"
    /\ pc = "run" => caller \in {"runner", "program"}
    /\ pc \in {"graph", "compile"} => caller = "runner"
    /\ caller = "runner" => precision \in Precisions

\* The values of a graph, and the node a worker is started for.
Graph ==
    /\ Listed(vals) /\ Listed(nodes)
    /\ Len(nodes) <= Len(vals) /\ Len(nodes) <= MaxNodes
    /\ \A v \in DOMAIN vals : IsTensor(vals[v])
    /\ pc \in {"compile", "run"} /\ caller = "runner" =>
          node \in NextNodes /\ NpuOp(node) # "cpu" /\ Len(nodes) < MaxNodes

\* What is compiled.
Compilation ==
    IF phase = "none" THEN exe = NoExe /\ scratch = 0 /\ counters = << >> /\ ci = 0
    ELSE \/ /\ caller = "program"
            /\ \E op \in ProgramOps, s \in ProgramArgs : exe = Codegen(op, s)
         \/ \E d \in DOMAIN Templates :
               /\ exe = FromTemplate(d)
               /\ caller = "runner" =>
                     d = TemplateDir(NpuOp(node)) /\ ~WorkerRaises(NpuOp(node))

\* The arguments of its execute.
Arguments ==
    phase \notin {"none", "ready"} =>
        /\ Listed(operands) /\ operands # << >>
        /\ \A j \in DOMAIN operands : IsTensor(operands[j])
        /\ caller = "runner" => operands = Converted(exe, Operands(node))
        /\ Len(operands) = IF exe.kind = "codegen" THEN 2 ELSE Len(exe.ins)

\* The result of this execute, if all of its submits answer.
Result ==
    IF ByChunks(exe, operands)
    THEN [c \in 1 .. Runs(exe, operands) |-> <<exe.op, exe.a, Chunk(c)>>]
    ELSE IF Fits THEN Apply(exe.op, exe.a, Seen).data ELSE Unfilled(Chunks(exe.out))

\* The chunk that is worked on, and those before it.
Progress ==
    phase \in {"write", "submit", "read"} =>
        /\ ci \in 1 .. Runs(exe, operands) /\ sd \in 1 .. exe.submits
        /\ outFlat = [c \in 1 .. Runs(exe, operands) |-> outFlat[c]]
        /\ ByChunks(exe, operands) =>
              \A c \in 1 .. ci - 1 : outFlat[c] = Result[c]
        /\ phase # "write" => inputs = Chunk(ci)
        /\ phase = "read" =>
              outBo = IF ByChunks(exe, operands) THEN Result[ci] ELSE Result

Answers ==
    phase = "returned" =>
        \/ exe.kind = "codegen" /\ \E i \in DOMAIN counters : ~counters[i]
        \/ res = Tensor(ResultShapeOf, Result)

\* The tasks counted so far.
Counts ==
    /\ counters \in Seq(BOOLEAN) /\ ci \in Nat /\ scratch \in -1 .. exe.submits
    /\ phase = "ready" => counters = << >>
    /\ phase = "write" => Len(counters) <= ci - 1
    /\ ScratchInStep
    /\ phase = "submit" =>
          Len(counters) <= IF ByChunks(exe, operands) THEN ci - 1 ELSE sd - 1
    /\ phase = "read" =>
          Len(counters) <= IF ByChunks(exe, operands) THEN ci ELSE exe.submits
    /\ phase \in {"returned", "raised"} => Len(counters) <= ci * exe.submits

\* A node only reads values that were there before its own.
InGraphOrder ==
    \A i \in DOMAIN nodes : \A j \in DOMAIN nodes[i].src :
        nodes[i].src[j] \in 0 .. Len(vals) - Len(nodes) + i - 1
-----------------------------------------------------------------------------
(* Chunks, sequences and tensors *)

LEMMA ChunkCount ==
    ASSUME NEW s \in Shapes
    PROVE  /\ Chunks(s) \in Nat \ {0}
           /\ Elements[s] = KElem => Chunks(s) = 1
<1>1. KElem \in Nat \ {0} /\ Elements[s] \in Nat \ {0}
  BY OpsAssumption DEF Shapes
<1>. DEFINE Pieces(e, k) == (e + k - 1) \div k
<1>2. \A e, k \in Nat \ {0} : Pieces(e, k) \in Nat \ {0} /\ (e = k => Pieces(e, k) = 1)
  BY Division
<1>3. Chunks(s) = Pieces(Elements[s], KElem)
  BY DEF Chunks
<1>. HIDE DEF Pieces
<1>. QED
  BY <1>1, <1>2, <1>3

\* A sequence with one more element at its end.
LEMMA ListedAppend ==
    ASSUME NEW s, Listed(s), NEW x
    PROVE  /\ Listed(Append(s, x)) /\ Append(s, x) # << >>
           /\ Len(s) \in Nat /\ DOMAIN s = 1 .. Len(s)
           /\ Len(Append(s, x)) = Len(s) + 1
           /\ DOMAIN Append(s, x) = 1 .. Len(s) + 1
           /\ Append(s, x)[Len(s) + 1] = x
           /\ \A i \in DOMAIN s : Append(s, x)[i] = s[i]
<1>. DEFINE S == {s[i] : i \in DOMAIN s} \union {x}
            t == Append(s, x)
<1>1. s \in Seq(S) /\ x \in S
  BY DEF Listed
<1>2. /\ t \in Seq(S) /\ t # << >> /\ Len(s) \in Nat /\ DOMAIN s = 1 .. Len(s)
      /\ Len(t) = Len(s) + 1 /\ t[Len(s) + 1] = x
      /\ \A i \in 1 .. Len(s) : t[i] = s[i]
  BY <1>1
<1>. HIDE DEF S, t
<1>3. DOMAIN t = 1 .. Len(t) /\ Len(t) \in Nat
  BY <1>2
<1>4. t \in Seq({t[i] : i \in DOMAIN t})
  BY <1>2, <1>3
<1>. QED
  BY <1>2, <1>3, <1>4 DEF Listed, t

LEMMA ListedFunction ==
    ASSUME NEW n \in Nat, NEW s, DOMAIN s = 1 .. n, s = [i \in 1 .. n |-> s[i]]
    PROVE  Listed(s) /\ Len(s) = n
<1>. DEFINE S == {s[i] : i \in DOMAIN s}
<1>1. s \in [1 .. n -> S]
  OBVIOUS
<1>. HIDE DEF S
<1>2. s \in Seq(S)
  <2>1. s \in UNION {[1 .. m -> S] : m \in Nat}
    BY <1>1
  <2>2. Seq(S) = UNION {[1 .. m -> S] : m \in Nat}
    BY SeqDef
  <2>. QED
    BY <2>1, <2>2, Zenon
<1>3. Len(s) \in Nat /\ DOMAIN s = 1 .. Len(s)
  BY <1>2, LenProperties
<1>4. \A a, b \in Nat : 1 .. a = 1 .. b => a = b
  OBVIOUS
<1>. QED
  BY <1>2, <1>3, <1>4 DEF Listed, S

LEMMA ListedLength ==
    ASSUME NEW s, Listed(s)
    PROVE  /\ Len(s) \in Nat /\ DOMAIN s = 1 .. Len(s)
           /\ s = [i \in 1 .. Len(s) |-> s[i]]
           /\ s # << >> => 1 \in DOMAIN s
  BY DEF Listed

LEMMA Joined ==
    /\ \A x : <<x>> \o << >> = <<x>>
    /\ \A x, y : <<x>> \o <<y>> = <<x, y>> /\ <<x, y>> \o << >> = <<x, y>>
    /\ \A x, y, z : /\ <<x, y>> \o <<z>> = <<x, y, z>>
                    /\ <<x>> \o <<y, z>> = <<x, y, z>>
<1>1. ASSUME NEW x, NEW y, NEW z
      PROVE  /\ <<x>> \o << >> = <<x>>
             /\ <<x>> \o <<y>> = <<x, y>> /\ <<x, y>> \o << >> = <<x, y>>
             /\ <<x, y>> \o <<z>> = <<x, y, z>>
             /\ <<x>> \o <<y, z>> = <<x, y, z>>
  <2>1. /\ << >> \in Seq({x, y, z}) /\ <<x>> \in Seq({x, y, z})
        /\ <<y>> \in Seq({x, y, z}) /\ <<z>> \in Seq({x, y, z})
        /\ <<x, y>> \in Seq({x, y, z}) /\ <<y, z>> \in Seq({x, y, z})
    OBVIOUS
  <2>2. <<x>> \o << >> = <<x>> /\ <<x, y>> \o << >> = <<x, y>>
    BY <2>1, ConcatEmptySeq
  <2>3. ASSUME NEW r \in Seq({x, y, z})
        PROVE  /\ Len(r) = 2 => r = <<r[1], r[2]>>
               /\ Len(r) = 3 => r = <<r[1], r[2], r[3]>>
    OBVIOUS
  <2>4. <<x>> \o <<y>> = <<x, y>>
    <3>. DEFINE r == <<x>> \o <<y>>
    <3>1. r \in Seq({x, y, z}) /\ Len(r) = 2 /\ r[1] = x /\ r[2] = y
      BY <2>1, ConcatProperties
    <3>. HIDE DEF r
    <3>. QED
      BY <2>3, <3>1 DEF r
  <2>5. <<x, y>> \o <<z>> = <<x, y, z>>
    <3>. DEFINE r == <<x, y>> \o <<z>>
    <3>1. r \in Seq({x, y, z}) /\ Len(r) = 3 /\ r[1] = x /\ r[2] = y /\ r[3] = z
      BY <2>1, ConcatProperties
    <3>. HIDE DEF r
    <3>. QED
      BY <2>3, <3>1 DEF r
  <2>6. <<x>> \o <<y, z>> = <<x, y, z>>
    <3>. DEFINE r == <<x>> \o <<y, z>>
    <3>1. r \in Seq({x, y, z}) /\ Len(r) = 3 /\ r[1] = x /\ r[2] = y /\ r[3] = z
      BY <2>1, ConcatProperties
    <3>. HIDE DEF r
    <3>. QED
      BY <2>3, <3>1 DEF r
  <2>. QED
    BY <2>2, <2>4, <2>5, <2>6
<1>. QED
  BY <1>1

LEMMA Tensors ==
    ASSUME NEW s \in Shapes, NEW d
    PROVE  /\ Tensor(s, d).shape = s /\ Tensor(s, d).data = d
           /\ d = [c \in 1 .. Chunks(s) |-> d[c]] => IsTensor(Tensor(s, d))
  BY DEF Tensor, IsTensor

\* The same data under another shape.
LEMMA Reshape ==
    ASSUME NEW t, IsTensor(t), NEW s \in Shapes
    PROVE  /\ [t EXCEPT !.shape = s] = Tensor(s, t.data)
           /\ [t EXCEPT !.shape = s].shape = s
           /\ [t EXCEPT !.shape = s].data = t.data
           /\ s = t.shape => [t EXCEPT !.shape = s] = t
<1>1. t = [shape |-> t.shape, data |-> t.data]
  BY DEF IsTensor, Tensor
<1>2. \A a, d : [[shape |-> a, data |-> d] EXCEPT !.shape = s] = [shape |-> s, data |-> d]
  OBVIOUS
<1>. QED
  BY <1>1, <1>2 DEF Tensor

\* Conversion changes what is in a tensor, not its shape; to float16 it changes
\* nothing.
LEMMA Casts ==
    ASSUME NEW dt, NEW t, IsTensor(t)
    PROVE  /\ IsTensor(Cast(dt, t)) /\ Cast(dt, t).shape = t.shape
           /\ dt # "int8" => Cast(dt, t) = t
<1>1. CASE dt # "int8"
  BY <1>1 DEF Cast
<1>2. CASE dt = "int8"
  <2>. DEFINE d == [c \in DOMAIN t.data |-> <<"int8", t.data[c]>>]
              n == 1 .. Chunks(t.shape)
  <2>1. DOMAIN t.data = n
    <3>. HIDE DEF n
    <3>. QED
      BY DEF IsTensor, n
  <2>2. d = [c \in n |-> d[c]]
    <3>. HIDE DEF n
    <3>. QED
      BY <2>1
  <2>3. Cast(dt, t) = [t EXCEPT !.data = d]
    BY <1>2 DEF Cast
  <2>. HIDE DEF d
  <2>4. [t EXCEPT !.data = d] = Tensor(t.shape, d)
    <3>1. t = [shape |-> t.shape, data |-> t.data]
      BY DEF IsTensor, Tensor
    <3>2. \A a, b, c : [[shape |-> a, data |-> b] EXCEPT !.data = c] = [shape |-> a, data |-> c]
      OBVIOUS
    <3>. QED
      BY <3>1, <3>2 DEF Tensor
  <2>5. IsTensor(Tensor(t.shape, d)) /\ Tensor(t.shape, d).shape = t.shape
    BY <2>2, Tensors DEF IsTensor, n
  <2>. QED
    BY <1>2, <2>3, <2>4, <2>5
<1>. QED
  BY <1>1, <1>2

LEMMA Conversions ==
    ASSUME NEW e, NEW ts, Listed(ts), \A j \in DOMAIN ts : IsTensor(ts[j])
    PROVE  /\ Listed(Converted(e, ts)) /\ Len(Converted(e, ts)) = Len(ts)
           /\ DOMAIN Converted(e, ts) = DOMAIN ts
           /\ \A j \in DOMAIN ts : /\ IsTensor(Converted(e, ts)[j])
                                   /\ Converted(e, ts)[j].shape = ts[j].shape
           /\ e.dt # "int8" => Converted(e, ts) = ts
<1>. DEFINE cs == Converted(e, ts)
<1>1. cs = [j \in DOMAIN ts |-> Cast(e.dt, ts[j])]
  BY DEF Converted
<1>2. /\ Len(ts) \in Nat /\ DOMAIN ts = 1 .. Len(ts)
      /\ ts = [i \in 1 .. Len(ts) |-> ts[i]]
  BY ListedLength
<1>. HIDE DEF cs
<1>3. DOMAIN cs = 1 .. Len(ts) /\ cs = [i \in 1 .. Len(ts) |-> cs[i]]
  BY <1>1, <1>2
<1>4. Listed(cs) /\ Len(cs) = Len(ts)
  BY <1>2, <1>3, ListedFunction
<1>5. \A j \in DOMAIN ts : IsTensor(cs[j]) /\ cs[j].shape = ts[j].shape
  BY <1>1, Casts
<1>6. ASSUME e.dt # "int8"
      PROVE  cs = ts
  <2>1. \A j \in DOMAIN ts : cs[j] = ts[j]
    BY <1>1, <1>6, Casts
  <2>. QED
    BY <1>2, <1>3, <2>1
<1>. QED
  BY <1>2, <1>3, <1>4, <1>5, <1>6 DEF cs

LEMMA Inputs ==
    ASSUME NEW i, NEW s \in Shapes
    PROVE  IsTensor(Input(i, s))
<1>. DEFINE d == [c \in 1 .. Chunks(s) |-> <<"in", i, c>>]
<1>1. d = [c \in 1 .. Chunks(s) |-> d[c]]
  OBVIOUS
<1>. HIDE DEF d
<1>2. IsTensor(Tensor(s, d))
  BY <1>1, Tensors
<1>. QED
  BY <1>2 DEF Input, d
-----------------------------------------------------------------------------
(* Nodes *)

LEMMA NodeParts ==
    ASSUME NEW n \in NextNodes
    PROVE  /\ \E p \in Nodes : n.op = p[1] /\ n.a = p[2]
           /\ n.src \in Sources(n.op) /\ Typed(n)
<1>1. PICK p \in Nodes : n \in {[op |-> p[1], a |-> p[2], src |-> s] : s \in Sources(p[1])}
  BY DEF NextNodes
<1>2. PICK s \in Sources(p[1]) : n = [op |-> p[1], a |-> p[2], src |-> s]
  BY <1>1
<1>. QED
  BY <1>2 DEF NextNodes

\* Only a Clip leaves inputs out.
LEMMA NodeInputs ==
    ASSUME NEW n \in NextNodes, n.op # "Clip"
    PROVE  /\ Ins(n) = Operands(n)
           /\ n.src = IF n.op \in Binary \union {"MatMul", "Concat"}
                      THEN <<n.src[1], n.src[2]>> ELSE <<n.src[1]>>
           /\ \A j \in DOMAIN n.src : n.src[j] \in DOMAIN vals
<1>1. n.src \in Sources(n.op)
  BY NodeParts
<1>2. CASE n.op \in Binary \union {"MatMul", "Concat"}
  BY <1>1, <1>2 DEF Sources, Ins
<1>3. CASE n.op \notin Binary \union {"MatMul", "Concat"}
  BY <1>1, <1>3 DEF Sources, Ins
<1>. QED
  BY <1>2, <1>3

\* The operands of a node that is not a Clip.
LEMMA NodeOperands ==
    ASSUME Graph, NEW n \in NextNodes, n.op # "Clip"
    PROVE  /\ Listed(Operands(n)) /\ Operands(n) # << >>
           /\ Len(Operands(n)) = IF n.op \in Binary \union {"MatMul", "Concat"} THEN 2 ELSE 1
           /\ DOMAIN Operands(n) = DOMAIN n.src
           /\ \A j \in DOMAIN n.src : /\ IsTensor(Operands(n)[j])
                                    /\ Operands(n)[j] = vals[n.src[j]]
           /\ InShapes(n) = OperandShapes(n)
<1>1. /\ Ins(n) = Operands(n)
      /\ n.src = IF n.op \in Binary \union {"MatMul", "Concat"}
                 THEN <<n.src[1], n.src[2]>> ELSE <<n.src[1]>>
      /\ \A j \in DOMAIN n.src : n.src[j] \in DOMAIN vals
  BY NodeInputs
<1>2. DOMAIN vals = 1 .. Len(vals) /\ Len(vals) \in Nat
  BY ListedLength DEF Graph
<1>3. \A j \in DOMAIN n.src : n.src[j] # 0
  BY <1>1, <1>2
<1>4. /\ DOMAIN Operands(n) = DOMAIN n.src
      /\ \A j \in DOMAIN n.src : Operands(n)[j] = vals[n.src[j]]
  BY <1>3 DEF Operands, Operand
<1>5. \A j \in DOMAIN n.src : IsTensor(Operands(n)[j])
  BY <1>1, <1>4 DEF Graph
<1>. DEFINE k == IF n.op \in Binary \union {"MatMul", "Concat"} THEN 2 ELSE 1
<1>6. DOMAIN n.src = 1 .. k /\ k \in Nat
  <2>1. CASE n.op \in Binary \union {"MatMul", "Concat"}
    BY <1>1, <2>1
  <2>2. CASE n.op \notin Binary \union {"MatMul", "Concat"}
    BY <1>1, <2>2
  <2>. QED
    BY <2>1, <2>2
<1>7. Operands(n) = [j \in 1 .. k |-> Operands(n)[j]]
  BY <1>6 DEF Operands
<1>8. Listed(Operands(n)) /\ Len(Operands(n)) = k
  BY <1>4, <1>6, <1>7, ListedFunction
<1>9. Operands(n) # << >>
  BY <1>8
<1>10. InShapes(n) = OperandShapes(n)
  BY <1>1, <1>4 DEF InShapes, OperandShapes, Operands
<1>. QED
  BY <1>4, <1>5, <1>8, <1>9, <1>10

\* What _exec_node sends to a worker, and under which name.
LEMMA NpuCases ==
    ASSUME Graph, NEW n \in NextNodes, NpuOp(n) # "cpu"
    PROVE  /\ n.op # "Clip"
           /\ \/ /\ n.op \in Activations /\ NpuOp(n) = n.op
                 /\ n.a = IF n.op = "LeakyRelu" THEN "default" ELSE "none"
              \/ /\ n.op \in Binary /\ NpuOp(n) = n.op /\ n.a = "none"
                 /\ OperandShapes(n)[1] = OperandShapes(n)[2]
              \/ /\ n.op = "MatMul" /\ NpuOp(n) = n.op /\ n.a = "none"
                 /\ OperandShapes(n) \in MatMulPairs
              \/ /\ n.op = "Softmax" /\ NpuOp(n) = n.op /\ n.a = "last"
                 /\ OperandShapes(n) = <<Act>>
              \/ /\ n.op = "Softmax" /\ NpuOp(n) = "Softmax64"
                 /\ OperandShapes(n) = <<"1x64x64">>
              \/ /\ n.op = "LayerNormalization" /\ NpuOp(n) = "LayerNorm_key"
                 /\ n.a \in {"trained", "trained_eps"} /\ OperandShapes(n)[1] = Act
              \/ /\ n.op = "LayerNormalization" /\ NpuOp(n) = "LayerNorm"
                 /\ n.a \in {"unit", "unit_eps"} /\ OperandShapes(n)[1] = Act
              \/ /\ n.op = "Concat" /\ NpuOp(n) = n.op /\ n.a = "axis1"
                 /\ OperandShapes(n) = NPU_OPS.Concat
              \/ /\ n.op = "Transpose" /\ NpuOp(n) = n.op /\ n.a \in {"none", "swap"}
                 /\ OperandShapes(n) = <<Act>>
<1>1. /\ n.op \in Binary \union {"MatMul"} \union (Activations \ {"LeakyRelu"}) => n.a = "none"
      /\ n.op = "LeakyRelu" => n.a \in {"default", "other"}
  <2>1. PICK p \in Nodes : n.op = p[1] /\ n.a = p[2]
    BY NodeParts
  <2>. QED
    BY <2>1, CaptureAssumption
<1>2. n.op # "Clip"
  BY DEF NpuOp, NPU_OPS, Choice, Binary, Activations
<1>3. InShapes(n) = OperandShapes(n)
  BY <1>2, NodeOperands
<1>4. CASE n.op \in DOMAIN NPU_OPS /\ InShapes(n) = NPU_OPS[n.op]
  <2>1. NpuOp(n) = n.op /\ Gate(n)
    BY <1>4 DEF NpuOp
  <2>2. CASE n.op = "Softmax"
    BY <1>2, <1>3, <1>4, <2>1, <2>2 DEF Gate, NPU_OPS
  <2>3. CASE n.op = "Transpose"
    BY <1>2, <1>3, <1>4, <2>1, <2>3 DEF Gate, NPU_OPS
  <2>4. CASE n.op = "Concat"
    BY <1>2, <1>3, <1>4, <2>1, <2>4 DEF Gate, NPU_OPS
  <2>5. CASE n.op = "LeakyRelu"
    BY <1>2, <2>1, <2>5 DEF Gate, Activations
  <2>. QED
    BY <2>1, <2>2, <2>3, <2>4, <2>5 DEF Gate
<1>5. CASE ~(n.op \in DOMAIN NPU_OPS /\ InShapes(n) = NPU_OPS[n.op])
  <2>1. NpuOp(n) = Choice(n) /\ Choice(n) # "cpu"
    BY <1>5 DEF NpuOp
  <2>. DEFINE s == InShapes(n)
  <2>2. CASE n.op \in Binary
    <3>1. s[1] = s[2] /\ Choice(n) = n.op
      BY <2>1, <2>2 DEF Choice, Binary, Activations
    <3>. QED
      BY <1>1, <1>2, <1>3, <2>1, <2>2, <3>1
  <2>3. CASE n.op \in Activations
    <3>1. n.a # "other" /\ Choice(n) = n.op
      BY <2>1, <2>3 DEF Choice, Binary, Activations
    <3>2. n.a = IF n.op = "LeakyRelu" THEN "default" ELSE "none"
      BY <1>1, <2>3, <3>1
    <3>. QED
      BY <1>2, <2>1, <2>3, <3>1, <3>2
  <2>4. CASE n.op = "MatMul"
    <3>1. s \in MatMulPairs /\ Choice(n) = n.op
      BY <2>1, <2>4 DEF Choice, Binary, Activations
    <3>. QED
      BY <1>1, <1>2, <1>3, <2>1, <2>4, <3>1
  <2>5. CASE n.op = "Softmax"
    <3>1. s = <<"1x64x64">> /\ Choice(n) = "Softmax64"
      BY <2>1, <2>5 DEF Choice, Binary, Activations
    <3>. QED
      BY <1>2, <1>3, <2>1, <2>5, <3>1
  <2>6. CASE n.op = "LayerNormalization"
    <3>1. /\ s[1] = Act
          /\ \/ n.a \in {"trained", "trained_eps"} /\ Choice(n) = "LayerNorm_key"
             \/ n.a \in {"unit", "unit_eps"} /\ Choice(n) = "LayerNorm"
      BY <2>1, <2>6 DEF Choice, Binary, Activations
    <3>. QED
      BY <1>2, <1>3, <2>1, <2>6, <3>1
  <2>7. n.op \in Binary \union Activations \union {"MatMul", "Softmax", "LayerNormalization"}
    BY <2>1 DEF Choice
  <2>. QED
    BY <2>2, <2>3, <2>4, <2>5, <2>6, <2>7
<1>. QED
  BY <1>4, <1>5
-----------------------------------------------------------------------------
(* What a step leaves alone *)

LEMMA SameValues ==
    ASSUME vals' = vals
    PROVE  /\ NextNodes' = NextNodes
           /\ \A n : /\ Operands(n)' = Operands(n)
                     /\ OperandShapes(n)' = OperandShapes(n)
                     /\ Ins(n)' = Ins(n)
                     /\ InShapes(n)' = InShapes(n)
                     /\ NpuOp(n)' = NpuOp(n)
<1>1. \A v : Operand(v)' = Operand(v)
  BY DEF Operand
<1>2. \A n : Operands(n)' = Operands(n) /\ OperandShapes(n)' = OperandShapes(n)
  BY <1>1 DEF Operands, OperandShapes
<1>3. \A n : Ins(n)' = Ins(n)
  BY <1>2 DEF Ins
<1>4. \A n : InShapes(n)' = InShapes(n)
  BY <1>3 DEF InShapes
<1>5. \A n : Choice(n)' = Choice(n)
  BY <1>4 DEF Choice
<1>6. \A n : NpuOp(n)' = NpuOp(n)
  BY <1>4, <1>5 DEF NpuOp
<1>7. \A op : Sources(op)' = Sources(op)
  BY DEF Sources
<1>8. \A n : Typed(n)' <=> Typed(n)
  BY <1>2 DEF Typed
<1>9. NextNodes' = NextNodes
  BY <1>7, <1>8 DEF NextNodes
<1>. QED
  BY <1>2, <1>3, <1>4, <1>6, <1>9

LEMMA SameExecutable ==
    ASSUME exe' = exe, operands' = operands
    PROVE  /\ ByChunks(exe, operands)' <=> ByChunks(exe, operands)
           /\ Runs(exe, operands)' = Runs(exe, operands)
           /\ \A c : Chunk(c)' = Chunk(c)
           /\ Result' = Result
           /\ ResultShapeOf' = ResultShapeOf
<1>1. ByChunks(exe, operands)' <=> ByChunks(exe, operands)
  OBVIOUS
<1>2. Runs(exe, operands)' = Runs(exe, operands)
  OBVIOUS
<1>3. \A c : Chunk(c)' = Chunk(c)
  BY DEF Chunk
<1>4. Seen' = Seen
  BY DEF Seen
<1>5. Fits' <=> Fits
  BY DEF Fits
<1>6. Result' = Result
  BY <1>1, <1>2, <1>3, <1>4, <1>5 DEF Result
<1>7. ResultShapeOf' = ResultShapeOf
  BY DEF ResultShapeOf
<1>. QED
  BY <1>1, <1>2, <1>3, <1>6, <1>7
-----------------------------------------------------------------------------
(* What a worker compiles for a node *)

LEMMA NodeLength ==
    ASSUME Graph, NEW n \in NextNodes, n.op # "Clip"
    PROVE  IF n.op \in Binary \union {"MatMul", "Concat"}
           THEN OperandShapes(n) = <<Operands(n)[1].shape, Operands(n)[2].shape>>
           ELSE OperandShapes(n) = <<Operands(n)[1].shape>>
<1>1. /\ DOMAIN Operands(n) = DOMAIN n.src
      /\ \A j \in DOMAIN n.src : Operands(n)[j] = vals[n.src[j]]
  BY NodeOperands
<1>2. OperandShapes(n) = [j \in DOMAIN n.src |-> Operands(n)[j].shape]
  BY DEF OperandShapes, Operands
<1>3. n.src = IF n.op \in Binary \union {"MatMul", "Concat"}
              THEN <<n.src[1], n.src[2]>> ELSE <<n.src[1]>>
  BY NodeInputs
<1>4. CASE n.op \in Binary \union {"MatMul", "Concat"}
  <2>1. DOMAIN n.src = 1 .. 2
    BY <1>3, <1>4
  <2>. QED
    BY <1>2, <1>4, <2>1
<1>5. CASE n.op \notin Binary \union {"MatMul", "Concat"}
  <2>1. DOMAIN n.src = 1 .. 1
    BY <1>3, <1>5
  <2>. QED
    BY <1>2, <1>5, <2>1
<1>. QED
  BY <1>4, <1>5

\* The capture has the operation of the node, and as many operands.  Its shapes
\* and attribute are the node's, except for an activation, whose argument may
\* have any shape, and for the nodes that are known to diverge.
LEMMA RunnerCapture ==
    ASSUME Control, Graph, Compilation, caller = "runner", phase # "none"
    PROVE  /\ exe.kind = "template" /\ exe.op = node.op /\ node.op # "Clip"
           /\ Len(exe.ins) = Len(Operands(node))
           /\ ~Diverges(node) => exe.dt = "float16"
           /\ IF node.op \in Activations
              THEN exe.a = node.a /\ exe.ins = <<Act>> /\ exe.out = Act
              ELSE /\ node.op \notin Tileable
                   /\ ~Diverges(node) =>
                         exe.a = node.a /\ exe.ins = OperandShapes(node)
<1>1. PICK d \in DOMAIN Templates :
        /\ exe = FromTemplate(d) /\ d = TemplateDir(NpuOp(node))
        /\ ~WorkerRaises(NpuOp(node))
  BY DEF Compilation
<1>2. /\ exe.kind = "template" /\ exe.op = Templates[d].op /\ exe.a = Templates[d].a
      /\ exe.ins = Templates[d].ins /\ exe.out = Templates[d].out
      /\ exe.dt = Templates[d].dt
  BY <1>1 DEF FromTemplate
<1>3. node \in NextNodes /\ NpuOp(node) # "cpu" /\ pc = "run"
  BY DEF Control, Graph
<1>4. NpuOp(node) # "MatMul" => d[1] = NpuOp(node)
  BY <1>1 DEF TemplateDir
<1>5. node.op # "Clip" /\ InShapes(node) = OperandShapes(node)
  BY <1>3, NpuCases, NodeOperands
<1>6. Len(Operands(node)) = IF node.op \in Binary \union {"MatMul", "Concat"} THEN 2 ELSE 1
  BY <1>3, <1>5, NodeOperands
<1>7. IF node.op \in Binary \union {"MatMul", "Concat"}
      THEN OperandShapes(node) = <<Operands(node)[1].shape, Operands(node)[2].shape>>
      ELSE OperandShapes(node) = <<Operands(node)[1].shape>>
  BY <1>3, <1>5, NodeLength
<1>D. ASSUME ~Diverges(node)
       PROVE  exe.dt = "float16"
  <2>1. exe.dt = d[2]
    BY <1>2, CaptureAssumption
  <2>2. CASE NpuOp(node) = "MatMul"
    <3>1. OperandShapes(node) \in MatMulPairs
      BY <1>3, <2>2, NpuCases DEF Activations, Binary
    <3>2. d = CHOOSE x \in MatMulTemplates : Templates[x].ins = OperandShapes(node)
      BY <1>1, <1>5, <2>2 DEF TemplateDir
    <3>3. \E x \in MatMulTemplates : Templates[x].ins = OperandShapes(node)
      BY <3>1 DEF MatMulPairs
    <3>4. d \in MatMulTemplates
      BY <3>2, <3>3
    <3>. QED
      BY <2>1, <3>4, CaptureAssumption DEF MatMulTemplates
  <2>3. CASE NpuOp(node) # "MatMul"
    <3>1. ~Quantised(node)
      BY <1>D DEF Diverges
    <3>2. precision \in {"float16", "int8"}
      BY RunnerAssumption DEF Control
    <3>3. d = <<NpuOp(node), "float16">>
      BY <1>1, <1>3, <2>3, <3>1, <3>2 DEF TemplateDir, Quantised
    <3>. QED
      BY <2>1, <3>3
  <2>. QED
    BY <2>2, <2>3
<1>C. \A x \in DOMAIN Templates :
        /\ x[1] = "Softmax" => Captures(x, "Softmax", "last", <<Act>>)
        /\ x[1] = "Concat" => Captures(x, "Concat", "axis1", NPU_OPS.Concat)
        /\ x[1] = "Transpose" => Captures(x, "Transpose", "swap", <<Act>>)
  BY CaptureAssumption
<1>8. CASE node.op \in Activations /\ NpuOp(node) = node.op
  <2>1. node.a = IF node.op = "LeakyRelu" THEN "default" ELSE "none"
    BY <1>3, <1>8, NpuCases DEF Activations, Binary
  <2>2. Captures(d, node.op, node.a, <<Act>>)
    BY <1>4, <1>8, <2>1, CaptureAssumption DEF Activations
  <2>3. Templates[d].out = Act
    <3>1. Templates[d].out = ResultShape(Templates[d].op, Templates[d].a,
                [j \in DOMAIN Templates[d].ins |-> Tensor(Templates[d].ins[j], << >>)])
      BY CaptureAssumption
    <3>2. /\ DOMAIN Templates[d].ins = {1} /\ Templates[d].ins[1] = Act
          /\ Templates[d].op = node.op
      BY <2>2 DEF Captures
    <3>. QED
      BY <1>8, <3>1, <3>2 DEF ResultShape, Tensor, Activations, Binary
  <2>. QED
    BY <1>2, <1>D, <1>6, <1>8, <2>2, <2>3 DEF Captures, Activations, Binary
<1>9. CASE node.op \in Binary /\ NpuOp(node) = node.op /\ node.a = "none"
  <2>1. Captures(d, node.op, "none", <<Act, Act>>)
    BY <1>4, <1>9, CaptureAssumption DEF Binary
  <2>2. precision = "int8"
    BY <1>1, <1>9, RunnerAssumption DEF WorkerRaises, Control
  <2>3. ~Diverges(node) => OperandShapes(node) = <<Act, Act>>
    BY <1>9, <2>2 DEF Diverges
  <2>. QED
    BY <1>2, <1>D, <1>6, <1>9, <2>1, <2>3 DEF Captures, Activations, Binary, Tileable
<1>10. CASE /\ node.op = "MatMul" /\ NpuOp(node) = node.op /\ node.a = "none"
            /\ OperandShapes(node) \in MatMulPairs
  <2>1. d = CHOOSE x \in MatMulTemplates : Templates[x].ins = OperandShapes(node)
    BY <1>1, <1>5, <1>10 DEF TemplateDir
  <2>2. \E x \in MatMulTemplates : Templates[x].ins = OperandShapes(node)
    BY <1>10 DEF MatMulPairs
  <2>3. d \in MatMulTemplates /\ Templates[d].ins = OperandShapes(node)
    BY <2>1, <2>2
  <2>4. Captures(d, "MatMul", "none", OperandShapes(node))
    BY <2>3, CaptureAssumption DEF MatMulTemplates, Captures
  <2>. QED
    BY <1>2, <1>D, <1>6, <1>7, <1>10, <2>4 DEF Captures, Activations, Binary, Tileable
<1>11. CASE /\ node.op = "Softmax" /\ NpuOp(node) = node.op /\ node.a = "last"
            /\ OperandShapes(node) = <<Act>>
  <2>1. Captures(d, node.op, "last", <<Act>>)
    BY <1>4, <1>11, <1>C
  <2>. QED
    BY <1>2, <1>D, <1>6, <1>11, <2>1 DEF Captures, Activations, Binary, Tileable
<1>12. CASE /\ node.op = "Softmax" /\ NpuOp(node) = "Softmax64"
            /\ OperandShapes(node) = <<"1x64x64">>
  <2>1. Captures(d, "Softmax", "last", <<"1x64x64">>)
    BY <1>4, <1>12, CaptureAssumption
  <2>. QED
    BY <1>2, <1>D, <1>6, <1>12, <2>1 DEF Captures, Diverges, Activations, Binary, Tileable
<1>13. CASE /\ node.op = "LayerNormalization" /\ NpuOp(node) = "LayerNorm_key"
            /\ node.a \in {"trained", "trained_eps"} /\ OperandShapes(node)[1] = Act
  <2>1. Captures(d, node.op, "trained", <<Act>>)
    BY <1>4, <1>13, CaptureAssumption
  <2>2. OperandShapes(node) = <<Act>>
    BY <1>7, <1>13 DEF Binary
  <2>. QED
    BY <1>2, <1>D, <1>6, <1>13, <2>1, <2>2 DEF Captures, Diverges, Activations, Binary, Tileable
<1>14. CASE /\ node.op = "LayerNormalization" /\ NpuOp(node) = "LayerNorm"
            /\ node.a \in {"unit", "unit_eps"} /\ OperandShapes(node)[1] = Act
  <2>1. Captures(d, node.op, "unit", <<Act>>)
    BY <1>4, <1>14, CaptureAssumption
  <2>2. OperandShapes(node) = <<Act>>
    BY <1>7, <1>14 DEF Binary
  <2>. QED
    BY <1>2, <1>D, <1>6, <1>14, <2>1, <2>2 DEF Captures, Diverges, Activations, Binary, Tileable
<1>15. CASE /\ node.op = "Concat" /\ NpuOp(node) = node.op /\ node.a = "axis1"
            /\ OperandShapes(node) = NPU_OPS.Concat
  <2>1. Captures(d, node.op, "axis1", NPU_OPS.Concat)
    BY <1>4, <1>15, <1>C
  <2>2. Len(NPU_OPS.Concat) = 2
    BY DEF NPU_OPS
  <2>. QED
    BY <1>2, <1>D, <1>6, <1>15, <2>1, <2>2 DEF Captures, Activations, Binary, Tileable
<1>16. CASE /\ node.op = "Transpose" /\ NpuOp(node) = node.op
            /\ node.a \in {"none", "swap"} /\ OperandShapes(node) = <<Act>>
  <2>1. Captures(d, node.op, "swap", <<Act>>)
    BY <1>4, <1>16, <1>C
  <2>. QED
    BY <1>2, <1>D, <1>6, <1>16, <2>1 DEF Captures, Diverges, Activations, Binary, Tileable
<1>. QED
  BY <1>3, <1>8, <1>9, <1>10, <1>11, <1>12, <1>13, <1>14, <1>15, <1>16, NpuCases
-----------------------------------------------------------------------------
(* What a run computes *)

LEMMA Kinds ==
    ASSUME Compilation, phase # "none"
    PROVE  /\ exe.kind \in {"codegen", "template"}
           /\ exe.submits \in Nat \ {0} /\ exe.out \in Shapes
           /\ exe.kind = "codegen" => exe.op \in Binary /\ caller = "program"
           /\ exe.kind = "template" => exe.ins \in Seq(Shapes) \ {<< >>}
<1>1. CASE caller = "program" /\ \E op \in ProgramOps, s \in ProgramArgs : exe = Codegen(op, s)
  <2>1. PICK op \in ProgramOps, s \in ProgramArgs : exe = Codegen(op, s)
    BY <1>1
  <2>2. exe.kind = "codegen" /\ exe.submits = 1 /\ exe.out = s /\ exe.op = op
    BY <2>1 DEF Codegen, NoExe
  <2>. QED
    BY <1>1, <2>2, RunnerAssumption
<1>2. ASSUME NEW d \in DOMAIN Templates, exe = FromTemplate(d)
      PROVE  /\ exe.kind = "template"
             /\ exe.submits \in Nat \ {0} /\ exe.out \in Shapes
             /\ exe.ins \in Seq(Shapes) \ {<< >>}
  BY <1>2, TemplateAssumption DEF FromTemplate
<1>. QED
  BY <1>1, <1>2 DEF Compilation

LEMMA RunCount ==
    ASSUME Compilation, Arguments, phase \notin {"none", "ready"}
    PROVE  /\ Runs(exe, operands) \in Nat \ {0}
           /\ ~ByChunks(exe, operands) => Runs(exe, operands) = 1
           /\ ByChunks(exe, operands) => Runs(exe, operands) = Chunks(operands[1].shape)
           /\ Len(operands) \in Nat \ {0} /\ DOMAIN operands = 1 .. Len(operands)
           /\ IsTensor(operands[1]) /\ operands[1].shape \in Shapes
<1>1. /\ Len(operands) \in Nat \ {0} /\ DOMAIN operands = 1 .. Len(operands)
      /\ 1 \in DOMAIN operands
  <2>1. Listed(operands) /\ operands # << >>
    BY DEF Arguments
  <2>2. Len(operands) \in Nat /\ DOMAIN operands = 1 .. Len(operands) /\ 1 \in DOMAIN operands
    BY <2>1, ListedLength
  <2>. QED
    BY <2>2
<1>2. IsTensor(operands[1])
  BY <1>1 DEF Arguments
<1>3. Chunks(operands[1].shape) \in Nat \ {0}
  BY <1>2, ChunkCount DEF IsTensor
<1>. QED
  BY <1>1, <1>2, <1>3 DEF Runs, IsTensor

LEMMA ApplyData ==
    ASSUME NEW op, NEW a, NEW ts
    PROVE  /\ Apply(op, a, ts) = Tensor(ResultShape(op, a, ts), Apply(op, a, ts).data)
           /\ Apply(op, a, ts).data =
                 [c \in 1 .. Chunks(ResultShape(op, a, ts)) |-> Apply(op, a, ts).data[c]]
           /\ ResultShape(op, a, ts) \in Shapes => IsTensor(Apply(op, a, ts))
           /\ Chunkwise(op, ts) => \A c \in 1 .. Chunks(ResultShape(op, a, ts)) :
                 Apply(op, a, ts).data[c] = <<op, a, [j \in DOMAIN ts |-> ts[j].data[c]]>>
<1>. DEFINE s == ResultShape(op, a, ts)
            F(c) == IF Chunkwise(op, ts) THEN <<op, a, [j \in DOMAIN ts |-> ts[j].data[c]]>>
                    ELSE <<op, a, ts, c>>
            d == [c \in 1 .. Chunks(s) |-> F(c)]
<1>1. Apply(op, a, ts) = Tensor(s, d)
  BY DEF Apply
<1>2. Chunkwise(op, ts) => \A c \in 1 .. Chunks(s) :
        d[c] = <<op, a, [j \in DOMAIN ts |-> ts[j].data[c]]>>
  OBVIOUS
<1>. HIDE DEF F
<1>3. d = [c \in 1 .. Chunks(s) |-> d[c]]
  OBVIOUS
<1>. HIDE DEF d
<1>4. Apply(op, a, ts).data = d /\ Apply(op, a, ts).shape = s
  BY <1>1 DEF Tensor
<1>5. s \in Shapes => IsTensor(Tensor(s, d))
  BY <1>3, Tensors
<1>. QED
  BY <1>1, <1>2, <1>3, <1>4, <1>5

\* Only the shapes of the operands that an operation has matter.
LEMMA SameShapes ==
    ASSUME NEW op, NEW a, NEW ts, NEW us, ts[1].shape = us[1].shape,
           op \in Binary \union {"MatMul", "Concat"} => ts[2].shape = us[2].shape
    PROVE  ResultShape(op, a, ts) = ResultShape(op, a, us)
  BY DEF ResultShape, Binary

\* A chunk of an element-wise result comes from one chunk of each argument.
LEMMA ElementWise ==
    ASSUME NEW op, NEW a, NEW ts, Chunkwise(op, ts)
    PROVE  ResultShape(op, a, ts) = ts[1].shape
  BY DEF ResultShape, Chunkwise, Activations, Binary

LEMMA SeenShapes ==
    ASSUME Compilation, Arguments, phase \notin {"none", "ready"}
    PROVE  /\ DOMAIN Seen = DOMAIN operands
           /\ \A j \in DOMAIN operands :
                 /\ Seen[j].data = operands[j].data
                 /\ Seen[j].shape = IF ByChunks(exe, operands) THEN operands[1].shape
                                    ELSE exe.ins[j]
                 /\ Seen[j].shape = operands[j].shape => Seen[j] = operands[j]
<1>1. DOMAIN Seen = DOMAIN operands
  BY DEF Seen
<1>2. ASSUME NEW j \in DOMAIN operands
      PROVE  /\ Seen[j].data = operands[j].data
             /\ Seen[j].shape = IF ByChunks(exe, operands) THEN operands[1].shape
                                ELSE exe.ins[j]
             /\ Seen[j].shape = operands[j].shape => Seen[j] = operands[j]
  <2>. DEFINE s == IF ByChunks(exe, operands) THEN operands[1].shape ELSE exe.ins[j]
  <2>1. Seen[j] = [operands[j] EXCEPT !.shape = s]
    BY DEF Seen
  <2>2. IsTensor(operands[j])
    BY DEF Arguments
  <2>3. s \in Shapes
    <3>1. CASE ByChunks(exe, operands)
      BY <3>1, RunCount
    <3>2. CASE ~ByChunks(exe, operands)
      <4>1. exe.kind = "template"
        BY <3>2, Kinds DEF ByChunks
      <4>2. exe.ins \in Seq(Shapes) /\ Len(operands) = Len(exe.ins)
        BY <4>1, Kinds DEF Arguments
      <4>3. j \in 1 .. Len(exe.ins)
        BY <4>2, RunCount
      <4>. QED
        BY <3>2, <4>2, <4>3
    <3>. QED
      BY <3>1, <3>2
  <2>. HIDE DEF s
  <2>. QED
    BY <2>1, <2>2, <2>3, Reshape DEF s
<1>. QED
  BY <1>1, <1>2

\* Cut into chunks or not: what the submits leave in the output BOs is the
\* operation on the arguments as the kernel sees them.
LEMMA ResultIsApply ==
    ASSUME Compilation, Arguments, phase \notin {"none", "ready"},
           ByChunks(exe, operands) \/ Fits
    PROVE  Result = Apply(exe.op, exe.a, Seen).data
<1>1. CASE ~ByChunks(exe, operands)
  BY <1>1 DEF Result
<1>2. CASE ByChunks(exe, operands)
  <2>1. Chunkwise(exe.op, Seen)
    <3>1. CASE exe.kind = "codegen"
      <4>1. exe.op \in Binary /\ Len(operands) = 2
        BY <3>1, Kinds DEF Arguments
      <4>2. DOMAIN operands = 1 .. 2
        BY <4>1, RunCount
      <4>3. Seen[1].shape = Seen[2].shape
        BY <1>2, <4>2, SeenShapes
      <4>. QED
        BY <4>1, <4>3 DEF Chunkwise
    <3>2. CASE exe.kind # "codegen"
      <4>1. exe.op \in Tileable /\ Len(exe.ins) = 1
        BY <1>2, <3>2 DEF ByChunks, Tiled
      <4>2. Len(operands) = 1
        BY <3>2, <4>1 DEF Arguments
      <4>3. DOMAIN Seen = 1 .. 1
        BY <4>2, RunCount, SeenShapes
      <4>4. Seen = [j \in 1 .. 1 |-> Seen[j]]
        BY <4>3 DEF Seen
      <4>5. Len(Seen) = 1
        BY <4>3, <4>4, ListedFunction
      <4>. QED
        BY <4>1, <4>5 DEF Chunkwise, Tileable, Activations
    <3>. QED
      BY <3>1, <3>2
  <2>2. 1 \in DOMAIN operands
    BY RunCount
  <2>3. ResultShape(exe.op, exe.a, Seen) = operands[1].shape
    BY <1>2, <2>1, <2>2, ElementWise, SeenShapes
  <2>. DEFINE D == Apply(exe.op, exe.a, Seen).data
  <2>4. /\ D = [c \in 1 .. Chunks(operands[1].shape) |-> D[c]]
        /\ \A c \in 1 .. Chunks(operands[1].shape) :
              D[c] = <<exe.op, exe.a, [j \in DOMAIN Seen |-> Seen[j].data[c]]>>
    BY <2>1, <2>3, ApplyData
  <2>5. \A c : [j \in DOMAIN Seen |-> Seen[j].data[c]] = Chunk(c)
    BY <1>2, SeenShapes DEF Chunk
  <2>6. Result = [c \in 1 .. Chunks(operands[1].shape) |-> <<exe.op, exe.a, Chunk(c)>>]
    BY <1>2, RunCount DEF Result
  <2>. HIDE DEF D
  <2>7. Result = D
    BY <2>4, <2>5, <2>6
  <2>. QED
    BY <2>7 DEF D
<1>. QED
  BY <1>1, <1>2

LEMMA CaptureOut ==
    ASSUME Control, Graph, Compilation, Arguments, caller = "runner",
           phase \notin {"none", "ready"}, ~ByChunks(exe, operands)
    PROVE  ResultShape(exe.op, exe.a, Seen) = exe.out
<1>1. PICK d \in DOMAIN Templates : exe = FromTemplate(d)
  BY DEF Compilation
<1>2. /\ exe.op = Templates[d].op /\ exe.a = Templates[d].a
      /\ exe.ins = Templates[d].ins /\ exe.out = Templates[d].out
  BY <1>1 DEF FromTemplate
<1>. DEFINE ts == [j \in DOMAIN exe.ins |-> Tensor(exe.ins[j], << >>)]
<1>3. exe.out = ResultShape(exe.op, exe.a, ts)
  BY <1>2, CaptureAssumption
<1>4. /\ Len(operands) = Len(exe.ins) /\ DOMAIN exe.ins = DOMAIN operands
      /\ 1 \in DOMAIN operands
      /\ exe.op \in Binary \union {"MatMul", "Concat"} => 2 \in DOMAIN operands
  <2>1. /\ exe.kind = "template" /\ exe.op = node.op /\ node.op # "Clip"
        /\ Len(exe.ins) = Len(Operands(node)) /\ node \in NextNodes
    BY RunnerCapture DEF Graph, Control
  <2>2. Len(exe.ins) = IF exe.op \in Binary \union {"MatMul", "Concat"} THEN 2 ELSE 1
    BY <2>1, NodeOperands
  <2>3. exe.ins \in Seq(Shapes) /\ Len(operands) = Len(exe.ins)
    BY <2>1, Kinds DEF Arguments
  <2>4. DOMAIN exe.ins = 1 .. Len(exe.ins) /\ DOMAIN operands = 1 .. Len(operands)
    BY <2>3, RunCount
  <2>. QED
    BY <2>2, <2>3, <2>4
<1>5. \A j \in DOMAIN operands : ts[j].shape = exe.ins[j] /\ Seen[j].shape = exe.ins[j]
  BY <1>4, SeenShapes DEF Tensor
<1>. HIDE DEF ts
<1>. QED
  BY <1>3, <1>4, <1>5, SameShapes

\* The value that comes back from a worker.
LEMMA Delivered ==
    ASSUME Control, Graph, Compilation, Arguments, Answers, caller = "runner",
           phase = "returned"
    PROVE  /\ IsTensor(Reshaped)
           /\ ~Diverges(node) => Reshaped = Apply(node.op, node.a, Operands(node))
<1>1. /\ exe.kind = "template" /\ exe.op = node.op /\ node.op # "Clip"
      /\ Len(exe.ins) = Len(Operands(node)) /\ (~Diverges(node) => exe.dt = "float16")
      /\ IF node.op \in Activations
         THEN exe.a = node.a /\ exe.ins = <<Act>> /\ exe.out = Act
         ELSE /\ node.op \notin Tileable
              /\ ~Diverges(node) => exe.a = node.a /\ exe.ins = OperandShapes(node)
  BY RunnerCapture
<1>2. res = Tensor(ResultShapeOf, Result)
  BY <1>1 DEF Answers
<1>3. /\ operands = Converted(exe, Operands(node)) /\ node \in NextNodes
      /\ Listed(Operands(node)) /\ \A j \in DOMAIN Operands(node) : IsTensor(Operands(node)[j])
      /\ Len(operands) = Len(exe.ins) /\ DOMAIN operands = 1 .. Len(operands)
      /\ Len(operands) \in Nat \ {0} /\ operands[1].shape \in Shapes
      /\ operands = [j \in DOMAIN operands |-> operands[j]]
  <2>1. /\ operands = Converted(exe, Operands(node)) /\ Len(operands) = Len(exe.ins)
        /\ Listed(operands)
    BY <1>1 DEF Arguments
  <2>2. node \in NextNodes
    BY DEF Graph, Control
  <2>3. Listed(Operands(node)) /\ \A j \in DOMAIN Operands(node) : IsTensor(Operands(node)[j])
    BY <1>1, <2>2, NodeOperands
  <2>. QED
    BY <2>1, <2>2, <2>3, RunCount, ListedLength
<1>A3. ~Diverges(node) => operands = Operands(node)
  BY <1>1, <1>3, Conversions
<1>. DEFINE s == operands[1].shape
            A == Apply(node.op, node.a, operands)
<1>4. CASE node.op \in Activations
  <2>1. Reshaped = Tensor(s, Result)
    BY <1>1, <1>2, <1>4 DEF Reshaped, Tensor
  <2>2. DOMAIN operands = {1}
    <3>1. exe.ins = <<Act>>
      BY <1>1, <1>4
    <3>2. Len(exe.ins) = 1
      BY <3>1
    <3>3. DOMAIN operands = 1 .. 1
      BY <1>3, <3>2
    <3>. QED
      BY <3>3
  <2>3. ByChunks(exe, operands) \/ (Elements[s] = KElem /\ Fits)
    BY <1>1, <1>4, <2>2, CaptureAssumption
       DEF ByChunks, Tiled, Fits, Tileable, Activations
  <2>4. Result = Apply(exe.op, exe.a, Seen).data
    BY <2>3, ResultIsApply
  <2>5. Chunkwise(exe.op, Seen) /\ Chunkwise(node.op, operands)
    BY <1>1, <1>4 DEF Chunkwise
  <2>6. /\ ResultShape(exe.op, exe.a, Seen) = Seen[1].shape
        /\ ResultShape(node.op, node.a, operands) = s
    BY <2>5, ElementWise
  <2>7. Chunks(Seen[1].shape) = Chunks(s)
    <3>1. CASE ByChunks(exe, operands)
      BY <2>2, <3>1, SeenShapes
    <3>2. CASE ~ByChunks(exe, operands)
      <4>1. Seen[1].shape = Act
        BY <1>1, <1>4, <2>2, <3>2, SeenShapes
      <4>. QED
        BY <1>3, <2>3, <3>2, <4>1, ChunkCount, CaptureAssumption
    <3>. QED
      BY <3>1, <3>2
  <2>8. /\ Result = [c \in 1 .. Chunks(s) |-> Result[c]]
        /\ \A c \in 1 .. Chunks(s) :
              Result[c] = <<exe.op, exe.a, [j \in DOMAIN Seen |-> Seen[j].data[c]]>>
    <3>. DEFINE r == ResultShape(exe.op, exe.a, Seen)
                D == Apply(exe.op, exe.a, Seen).data
    <3>1. /\ D = [c \in 1 .. Chunks(r) |-> D[c]]
          /\ \A c \in 1 .. Chunks(r) :
                D[c] = <<exe.op, exe.a, [j \in DOMAIN Seen |-> Seen[j].data[c]]>>
      BY <2>5, ApplyData
    <3>2. Chunks(r) = Chunks(s) /\ Result = D
      BY <2>4, <2>6, <2>7
    <3>. HIDE DEF r, D
    <3>. QED
      BY <3>1, <3>2
  <2>9. /\ A.data = [c \in 1 .. Chunks(s) |-> A.data[c]]
        /\ \A c \in 1 .. Chunks(s) :
              A.data[c] = <<node.op, node.a, [j \in DOMAIN operands |-> operands[j].data[c]]>>
        /\ A = Tensor(s, A.data) /\ IsTensor(A)
    <3>. DEFINE r == ResultShape(node.op, node.a, operands)
    <3>1. /\ A.data = [c \in 1 .. Chunks(r) |-> A.data[c]]
          /\ \A c \in 1 .. Chunks(r) :
                A.data[c] = <<node.op, node.a,
                              [j \in DOMAIN operands |-> operands[j].data[c]]>>
          /\ A = Tensor(r, A.data) /\ (r \in Shapes => IsTensor(A))
      BY <2>5, ApplyData
    <3>2. r = s /\ s \in Shapes
      BY <1>3, <2>6
    <3>. HIDE DEF r, A
    <3>. QED
      BY <3>1, <3>2
  <2>10. \A c : [j \in DOMAIN Seen |-> Seen[j].data[c]]
                = [j \in DOMAIN operands |-> operands[j].data[c]]
    BY SeenShapes
  <2>. HIDE DEF A
  <2>11. \A c \in 1 .. Chunks(s) : Result[c] = A.data[c]
    <3>1. exe.op = node.op /\ exe.a = node.a
      BY <1>1, <1>4
    <3>2. ASSUME NEW c \in 1 .. Chunks(s)
          PROVE  Result[c] = A.data[c]
      <4>. DEFINE x == [j \in DOMAIN Seen |-> Seen[j].data[c]]
                  y == [j \in DOMAIN operands |-> operands[j].data[c]]
      <4>1. Result[c] = <<exe.op, exe.a, x>> /\ A.data[c] = <<node.op, node.a, y>>
        BY <2>8, <2>9
      <4>2. x = y
        BY <2>10
      <4>. HIDE DEF x, y
      <4>. QED
        BY <3>1, <4>1, <4>2
    <3>. QED
      BY <3>2
  <2>12. Result = A.data
    BY <2>8, <2>9, <2>11
  <2>. QED
    BY <1>A3, <2>1, <2>9, <2>12 DEF A
<1>5. CASE node.op \notin Activations
  <2>1. ~ByChunks(exe, operands) /\ ~Tiled(exe, operands)
    BY <1>1, <1>5 DEF ByChunks, Tiled
  <2>2. Reshaped = Tensor(exe.out, Result)
    BY <1>1, <1>2, <1>5, <2>1 DEF Reshaped, ResultShapeOf
  <2>3. ResultShape(exe.op, exe.a, Seen) = exe.out /\ exe.out \in Shapes
    BY <2>1, CaptureOut, Kinds
  <2>4. IsTensor(Tensor(exe.out, Result))
    <3>1. CASE Fits
      <4>. DEFINE r == ResultShape(exe.op, exe.a, Seen)
                  D == Apply(exe.op, exe.a, Seen).data
      <4>1. D = [c \in 1 .. Chunks(r) |-> D[c]]
        BY ApplyData
      <4>2. Result = D /\ r = exe.out /\ exe.out \in Shapes
        BY <2>1, <2>3, <3>1 DEF Result
      <4>. HIDE DEF r, D
      <4>. QED
        BY <4>1, <4>2, Tensors
    <3>2. CASE ~Fits
      <4>1. Result = [c \in 1 .. Chunks(exe.out) |-> Garbage]
        BY <2>1, <3>2 DEF Result, Unfilled
      <4>2. Result = [c \in 1 .. Chunks(exe.out) |-> Result[c]]
        BY <4>1
      <4>. QED
        BY <2>3, <4>2, Tensors
    <3>. QED
      BY <3>1, <3>2
  <2>5. ASSUME ~Diverges(node)
        PROVE  Tensor(exe.out, Result) = A
    <3>1. exe.a = node.a /\ exe.ins = OperandShapes(node)
      BY <1>1, <1>5, <2>5
    <3>2. \A j \in DOMAIN operands : exe.ins[j] = operands[j].shape
      BY <1>A3, <2>5, <3>1 DEF OperandShapes, Operands
    <3>3. Fits
      BY <3>2 DEF Fits
    <3>4. Seen = operands
      <4>1. \A j \in DOMAIN operands : Seen[j] = operands[j]
        BY <2>1, <3>2, SeenShapes
      <4>2. Seen = [j \in DOMAIN operands |-> Seen[j]]
        BY DEF Seen
      <4>. QED
        BY <1>3, <4>1, <4>2
    <3>5. Result = A.data
      BY <1>1, <2>1, <3>1, <3>3, <3>4 DEF Result
    <3>6. A = Tensor(exe.out, A.data)
      <4>1. A = Tensor(ResultShape(node.op, node.a, operands), A.data)
        BY DEF Apply, Tensor
      <4>2. ResultShape(node.op, node.a, operands) = exe.out
        BY <1>1, <2>3, <3>1, <3>4
      <4>. QED
        BY <4>1, <4>2, Zenon
    <3>. QED
      BY <3>5, <3>6
  <2>. QED
    BY <1>A3, <2>2, <2>4, <2>5
<1>. QED
  BY <1>4, <1>5
-----------------------------------------------------------------------------
(* What _cpu_op computes *)

LEMMA OperandKinds ==
    ASSUME Graph, NEW v \in {0} \union DOMAIN vals
    PROVE  \/ Operand(v) = Absent /\ Operand(v).shape = "absent"
           \/ IsTensor(Operand(v)) /\ Operand(v).shape # "absent" /\ v # 0
<1>1. DOMAIN vals = 1 .. Len(vals) /\ Len(vals) \in Nat
  BY ListedLength DEF Graph
<1>2. CASE v = 0
  BY <1>2 DEF Operand, Absent
<1>3. CASE v # 0
  <2>1. v \in DOMAIN vals /\ Operand(v) = vals[v]
    BY <1>3 DEF Operand
  <2>. QED
    BY <1>3, <2>1, OpsAssumption DEF Graph, IsTensor, Shapes
<1>. QED
  BY <1>2, <1>3

LEMMA ClipSources ==
    ASSUME NEW n \in NextNodes, n.op = "Clip"
    PROVE  /\ DOMAIN n.src = 1 .. 3 /\ n.src[1] \in DOMAIN vals
           /\ n.src[2] \in {0} \union DOMAIN vals /\ n.src[3] \in {0} \union DOMAIN vals
<1>. DEFINE all == DOMAIN vals
            optional == {0} \union all
            one == {<<v>> : v \in all}
<1>1. n.src \in CASE n.op = "Clip" -> all \X optional \X optional
                  [] n.op \in Binary \union {"MatMul", "Concat"} -> all \X all
                  [] OTHER -> one
  BY NodeParts DEF Sources
<1>. HIDE DEF all, optional, one
<1>2. n.src \in all \X optional \X optional
  BY <1>1 DEF Binary
<1>3. /\ n.src = <<n.src[1], n.src[2], n.src[3]>> /\ n.src[1] \in all
      /\ n.src[2] \in optional /\ n.src[3] \in optional
  BY <1>2
<1>. QED
  BY <1>3 DEF all, optional

\* A Clip without a minimum takes its maximum for one: it is known to diverge.
LEMMA ClipOperands ==
    ASSUME Graph, NEW n \in NextNodes, n.op = "Clip"
    PROVE  /\ IsTensor(CpuOperands(n)[1])
           /\ ~Diverges(n) => CpuOperands(n) = Operands(n)
<1>. DEFINE x(j) == Operand(n.src[j])
<1>1. /\ DOMAIN n.src = 1 .. 3 /\ n.src[1] \in DOMAIN vals
      /\ n.src[2] \in {0} \union DOMAIN vals /\ n.src[3] \in {0} \union DOMAIN vals
  BY ClipSources
<1>2. IsTensor(x(1)) /\ x(1).shape # "absent"
  <2>1. n.src[1] # 0
    BY <1>1, ListedLength DEF Graph
  <2>. QED
    BY <1>1, <2>1, OperandKinds, OpsAssumption DEF Operand, Graph, IsTensor, Shapes
<1>3. /\ x(2).shape = "absent" => x(2) = Absent
      /\ x(3).shape = "absent" => x(3) = Absent
  BY <1>1, OperandKinds
<1>4. /\ Operands(n) = [j \in 1 .. 3 |-> x(j)]
      /\ OperandShapes(n) = [j \in 1 .. 3 |-> x(j).shape]
  BY <1>1 DEF Operands, OperandShapes
<1>5. Ins(n) = <<x(1)>> \o Given(x(2)) \o Given(x(3))
  BY <1>4 DEF Ins
<1>6. CpuOperands(n) = [j \in 1 .. 3 |-> IF j <= Len(Ins(n)) THEN Ins(n)[j] ELSE Absent]
  BY DEF CpuOperands
<1>7. ~Diverges(n) => ~(x(2).shape = "absent" /\ x(3).shape # "absent")
  BY <1>4 DEF Diverges
<1>. HIDE DEF x
<1>8. CASE x(2).shape = "absent" /\ x(3).shape = "absent"
  <2>1. Ins(n) = <<x(1)>>
    BY <1>5, <1>8, Joined DEF Given
  <2>. QED
    BY <1>2, <1>3, <1>4, <1>6, <1>8, <2>1
<1>9. CASE x(2).shape = "absent" /\ x(3).shape # "absent"
  <2>1. Ins(n) = <<x(1), x(3)>>
    BY <1>5, <1>9, Joined DEF Given
  <2>. QED
    BY <1>2, <1>6, <1>7, <1>9, <2>1
<1>10. CASE x(2).shape # "absent" /\ x(3).shape = "absent"
  <2>1. Ins(n) = <<x(1), x(2)>>
    BY <1>5, <1>10, Joined DEF Given
  <2>. QED
    BY <1>2, <1>3, <1>4, <1>6, <1>10, <2>1
<1>11. CASE x(2).shape # "absent" /\ x(3).shape # "absent"
  <2>1. Ins(n) = <<x(1), x(2), x(3)>>
    <3>1. <<x(1)>> \o <<x(2)>> = <<x(1), x(2)>>
      BY Joined
    <3>2. <<x(1), x(2)>> \o <<x(3)>> = <<x(1), x(2), x(3)>>
      BY Joined
    <3>. QED
      BY <1>5, <1>11, <3>1, <3>2 DEF Given
  <2>. QED
    BY <1>2, <1>4, <1>6, <2>1
<1>. QED
  BY <1>8, <1>9, <1>10, <1>11

\* The result of a node with a type has a shape.
LEMMA TypedShape ==
    ASSUME Graph, NEW n \in NextNodes, n.op # "Clip"
    PROVE  ResultShape(n.op, n.a, Operands(n)) \in Shapes
<1>. DEFINE ts == Operands(n)
<1>1. Typed(n)
  BY NodeParts
<1>2. IF n.op \in Binary \union {"MatMul", "Concat"}
      THEN OperandShapes(n) = <<ts[1].shape, ts[2].shape>>
      ELSE OperandShapes(n) = <<ts[1].shape>>
  BY NodeLength
<1>3. ts[1].shape \in Shapes
  <2>1. /\ 1 \in DOMAIN ts /\ DOMAIN ts = DOMAIN n.src
        /\ \A j \in DOMAIN n.src : IsTensor(ts[j])
    BY NodeOperands, ListedLength
  <2>. QED
    BY <2>1 DEF IsTensor
<1>4. \A f \in {BroadcastShape, MatMulShape, ConcatShape, TransposeShape} :
         \A x \in DOMAIN f : f[x] \in Shapes
  BY OpsAssumption DEF Shapes
<1>. HIDE DEF ts
<1>5. CASE n.op \in Binary
  <2>1. ts[1].shape = ts[2].shape \/ <<ts[1].shape, ts[2].shape>> \in DOMAIN BroadcastShape
    BY <1>1, <1>2, <1>5 DEF Typed, Binary
  <2>2. ResultShape(n.op, n.a, ts) = IF ts[1].shape = ts[2].shape THEN ts[1].shape
                                     ELSE BroadcastShape[<<ts[1].shape, ts[2].shape>>]
    BY <1>5 DEF ResultShape, Binary
  <2>. QED
    BY <1>3, <1>4, <2>1, <2>2 DEF ts
<1>6. CASE n.op = "MatMul"
  <2>1. <<ts[1].shape, ts[2].shape>> \in DOMAIN MatMulShape
    BY <1>1, <1>2, <1>6 DEF Typed, Binary
  <2>2. ResultShape(n.op, n.a, ts) = MatMulShape[<<ts[1].shape, ts[2].shape>>]
    BY <1>6 DEF ResultShape, Binary
  <2>. QED
    BY <1>4, <2>1, <2>2 DEF ts
<1>7. CASE n.op = "Concat"
  <2>1. <<n.a>> \o <<ts[1].shape, ts[2].shape>> \in DOMAIN ConcatShape
    BY <1>1, <1>2, <1>7 DEF Typed, Binary
  <2>2. <<n.a>> \o <<ts[1].shape, ts[2].shape>> = <<n.a, ts[1].shape, ts[2].shape>>
    BY Joined
  <2>3. ResultShape(n.op, n.a, ts) = ConcatShape[<<n.a, ts[1].shape, ts[2].shape>>]
    BY <1>7 DEF ResultShape, Binary
  <2>. QED
    BY <1>4, <2>1, <2>2, <2>3 DEF ts
<1>8. CASE n.op = "Transpose"
  <2>1. <<n.a>> \o <<ts[1].shape>> \in DOMAIN TransposeShape
    BY <1>1, <1>2, <1>8 DEF Typed, Binary
  <2>2. <<n.a>> \o <<ts[1].shape>> = <<n.a, ts[1].shape>>
    BY Joined
  <2>3. ResultShape(n.op, n.a, ts) = TransposeShape[<<n.a, ts[1].shape>>]
    BY <1>8 DEF ResultShape, Binary
  <2>. QED
    BY <1>4, <2>1, <2>2, <2>3 DEF ts
<1>9. CASE n.op \notin Binary \union {"MatMul", "Concat", "Transpose"}
  BY <1>3, <1>9 DEF ResultShape, ts
<1>. QED
  BY <1>5, <1>6, <1>7, <1>8, <1>9

LEMMA CpuValue ==
    ASSUME Graph, NEW n \in NextNodes
    PROVE  /\ IsTensor(Apply(n.op, n.a, CpuOperands(n)))
           /\ ~Diverges(n) => CpuOperands(n) = Operands(n)
<1>1. CASE n.op = "Clip"
  <2>1. ResultShape(n.op, n.a, CpuOperands(n)) = CpuOperands(n)[1].shape
    BY <1>1 DEF ResultShape, Binary
  <2>2. CpuOperands(n)[1].shape \in Shapes
    BY <1>1, ClipOperands DEF IsTensor
  <2>. QED
    BY <1>1, <2>1, <2>2, ClipOperands, ApplyData
<1>2. CASE n.op # "Clip"
  <2>1. CpuOperands(n) = Operands(n)
    BY <1>2, NodeInputs DEF CpuOperands
  <2>. QED
    BY <1>2, <2>1, TypedShape, ApplyData
<1>. QED
  BY <1>1, <1>2
-----------------------------------------------------------------------------
(* The executable, step by step *)

ExeInv == Compilation /\ Arguments /\ Progress /\ Answers /\ Counts

LEMMA Dropped ==
    ASSUME phase' = "none", exe' = NoExe, scratch' = 0, counters' = << >>, ci' = 0
    PROVE  ExeInv'
<1>1. Compilation' /\ Arguments' /\ Progress' /\ Answers'
  BY DEF Compilation, Arguments, Progress, Answers
<1>2. Counts'
  BY DEF Counts, ScratchInStep, NoExe
<1>. QED
  BY <1>1, <1>2 DEF ExeInv

\* Nothing is compiled before or after.
LEMMA NotCompiled ==
    ASSUME ExeInv, phase = "none", exeVars' = exeVars
    PROVE  ExeInv'
  BY Dropped DEF ExeInv, Compilation, exeVars

LEMMA SameCompilation ==
    ASSUME Compilation, phase # "none", phase' # "none", exe' = exe, caller' = caller,
           node' = node, vals' = vals, precision' = precision
    PROVE  Compilation'
<1>1. NpuOp(node)' = NpuOp(node) /\ InShapes(node)' = InShapes(node)
  BY SameValues
<1>2. TemplateDir(NpuOp(node))' = TemplateDir(NpuOp(node))
  BY <1>1 DEF TemplateDir
<1>3. WorkerRaises(NpuOp(node))' <=> WorkerRaises(NpuOp(node))
  BY <1>1, <1>2 DEF WorkerRaises
<1>. QED
  BY <1>2, <1>3 DEF Compilation

LEMMA SameArguments ==
    ASSUME Arguments, phase \notin {"none", "ready"}, exe' = exe, operands' = operands,
           caller' = caller, node' = node, vals' = vals
    PROVE  Arguments'
<1>1. Operands(node)' = Operands(node)
  BY SameValues
<1>. QED
  BY <1>1 DEF Arguments

\* An executable of one or more submits was compiled.
LEMMA CompiledStep ==
    ASSUME NEW e, Compiled(e), e.submits \in Nat, Compilation'
    PROVE  ExeInv'
<1>1. Arguments' /\ Progress' /\ Answers'
  BY DEF Compiled, Arguments, Progress, Answers
<1>2. Counts'
  BY DEF Compiled, Counts, ScratchInStep
<1>. QED
  BY <1>1, <1>2 DEF ExeInv

\* Nothing happens.
LEMMA SameExe ==
    ASSUME ExeInv, exeVars' = exeVars, UNCHANGED <<caller, node, vals, precision>>
    PROVE  ExeInv'
<1>1. CASE phase = "none"
  BY <1>1, NotCompiled
<1>2. CASE phase # "none"
  <2>1. /\ exe' = exe /\ operands' = operands /\ phase' = phase /\ ci' = ci /\ sd' = sd
        /\ scratch' = scratch /\ inputs' = inputs /\ outBo' = outBo
        /\ outFlat' = outFlat /\ counters' = counters /\ res' = res
    BY DEF exeVars
  <2>2. Compilation'
    BY <1>2, <2>1, SameCompilation DEF ExeInv
  <2>3. Arguments'
    <3>1. CASE phase = "ready"
      BY <2>1, <3>1 DEF Arguments
    <3>2. CASE phase # "ready"
      BY <1>2, <2>1, <3>2, SameArguments DEF ExeInv
    <3>. QED
      BY <3>1, <3>2
  <2>4. Progress' /\ Answers' /\ Counts'
    BY <2>1, SameExecutable DEF ExeInv, Progress, Answers, Counts, ScratchInStep
  <2>. QED
    BY <2>2, <2>3, <2>4 DEF ExeInv
<1>. QED
  BY <1>1, <1>2

LEMMA RunsPositive ==
    ASSUME NEW e, NEW ts, IsTensor(ts[1])
    PROVE  Runs(e, ts) \in Nat \ {0} /\ (~ByChunks(e, ts) => Runs(e, ts) = 1)
<1>1. Chunks(ts[1].shape) \in Nat \ {0}
  BY ChunkCount DEF IsTensor
<1>. QED
  BY <1>1 DEF Runs

LEMMA ExecuteStep ==
    ASSUME ExeInv, NEW ts, Execute(ts), Listed(ts), ts # << >>,
           \A j \in DOMAIN ts : IsTensor(ts[j]),
           caller = "runner" => ts = Operands(node),
           Len(ts) = IF exe.kind = "codegen" THEN 2 ELSE Len(exe.ins),
           UNCHANGED <<caller, node, vals, precision>>
    PROVE  ExeInv'
<1>. DEFINE cs == Converted(exe, ts)
<1>1. /\ exe' = exe /\ operands' = cs /\ ci' = 1 /\ sd' = 1 /\ counters' = << >>
      /\ scratch' = scratch /\ phase' \in {"write", "raised"} /\ phase # "none"
      /\ phase' = "write" => outFlat' = Unfilled(Runs(exe, cs))
  BY DEF Execute
<1>A1. /\ Listed(cs) /\ cs # << >> /\ Len(cs) = Len(ts)
       /\ \A j \in DOMAIN cs : IsTensor(cs[j])
  BY Conversions, ListedLength
<1>. HIDE DEF cs
<1>2. Compilation'
  BY <1>1, SameCompilation DEF ExeInv
<1>3. Arguments'
  <2>1. Operands(node)' = Operands(node)
    BY SameValues
  <2>2. caller = "runner" => cs = Converted(exe, Operands(node))
    BY DEF cs
  <2>. QED
    BY <1>1, <1>A1, <2>1, <2>2 DEF Arguments
<1>4. Progress'
  <2>1. 1 \in DOMAIN cs
    BY <1>A1, ListedLength
  <2>2. Runs(exe, cs) \in Nat \ {0}
    BY <1>A1, <2>1, RunsPositive
  <2>3. exe.submits \in Nat \ {0}
    BY <1>1, Kinds DEF ExeInv
  <2>4. phase' = "write" => outFlat' = [c \in 1 .. Runs(exe, cs) |-> outFlat'[c]]
    BY <1>1 DEF Unfilled
  <2>5. Runs(exe, operands)' = Runs(exe, cs)
    BY <1>1
  <2>. QED
    BY <1>1, <2>2, <2>3, <2>4, <2>5 DEF Progress
<1>5. Answers'
  BY <1>1 DEF Answers
<1>6. Counts'
  <2>1. exe.submits \in Nat \ {0}
    BY <1>1, Kinds DEF ExeInv
  <2>2. << >> \in Seq(BOOLEAN) /\ Len(<< >>) = 0
    OBVIOUS
  <2>. QED
    BY <1>1, <2>1, <2>2 DEF ExeInv, Counts, ScratchInStep
<1>. QED
  BY <1>2, <1>3, <1>4, <1>5, <1>6 DEF ExeInv

\* The facts that each step of a run needs.
LEMMA Running ==
    ASSUME ExeInv, phase \in {"write", "submit", "read"}
    PROVE  /\ Runs(exe, operands) \in Nat \ {0}
           /\ ~ByChunks(exe, operands) => Runs(exe, operands) = 1
           /\ ci \in 1 .. Runs(exe, operands) /\ sd \in 1 .. exe.submits
           /\ exe.submits \in Nat \ {0}
           /\ counters \in Seq(BOOLEAN) /\ Len(counters) \in Nat
<1>1. phase # "none" /\ phase \notin {"none", "ready"}
  OBVIOUS
<1>2. exe.submits \in Nat \ {0}
  BY <1>1, Kinds DEF ExeInv
<1>3. /\ Runs(exe, operands) \in Nat \ {0}
      /\ ~ByChunks(exe, operands) => Runs(exe, operands) = 1
  BY <1>1, RunCount DEF ExeInv
<1>. QED
  BY <1>2, <1>3 DEF ExeInv, Progress, Counts

LEMMA WriteStep ==
    ASSUME ExeInv, WriteChunk, UNCHANGED <<caller, node, vals, precision>>
    PROVE  ExeInv'
<1>1. /\ exe' = exe /\ operands' = operands /\ ci' = ci /\ outFlat' = outFlat
      /\ counters' = counters /\ res' = res /\ inputs' = Chunk(ci) /\ scratch' = 0
      /\ phase = "write" /\ phase' = "submit" /\ sd' = 1
  BY DEF WriteChunk
<1>2. Compilation' /\ Arguments'
  BY <1>1, SameCompilation, SameArguments DEF ExeInv
<1>3. Progress'
  BY <1>1, SameExecutable, Running DEF ExeInv, Progress
<1>4. Answers'
  BY <1>1 DEF Answers
<1>5. Counts'
  BY <1>1, SameExecutable, Running DEF ExeInv, Counts, ScratchInStep
<1>. QED
  BY <1>2, <1>3, <1>4, <1>5 DEF ExeInv

LEMMA Computes ==
    ASSUME ExeInv, phase = "submit"
    PROVE  Computed = IF ByChunks(exe, operands) THEN Result[ci] ELSE Result
<1>1. inputs = Chunk(ci) /\ ci \in 1 .. Runs(exe, operands)
  BY Running DEF ExeInv, Progress
<1>2. CASE ByChunks(exe, operands)
  BY <1>1, <1>2 DEF Computed, Result
<1>3. CASE ~ByChunks(exe, operands)
  <2>1. inputs = [j \in DOMAIN operands |-> operands[j]]
    BY <1>1, <1>3 DEF Chunk
  <2>2. [j \in DOMAIN inputs |-> [inputs[j] EXCEPT !.shape = exe.ins[j]]] = Seen
    BY <1>3, <2>1 DEF Seen
  <2>. QED
    BY <1>3, <2>2 DEF Computed, Result
<1>. QED
  BY <1>2, <1>3

LEMMA Products ==
    ASSUME NEW i \in Nat \ {0}, NEW k \in Nat \ {0}
    PROVE  i <= i * k /\ k <= i * k /\ i * k \in Nat
  OBVIOUS

LEMMA TaskCounted ==
    ASSUME NEW s \in Seq(BOOLEAN), NEW b \in BOOLEAN
    PROVE  /\ Append(s, b) \in Seq(BOOLEAN) /\ Len(Append(s, b)) = Len(s) + 1
           /\ Len(s) + 1 \in DOMAIN Append(s, b) /\ Append(s, b)[Len(s) + 1] = b
<1>1. /\ Append(s, b) \in Seq(BOOLEAN) /\ Len(Append(s, b)) = Len(s) + 1
      /\ Append(s, b)[Len(s) + 1] = b
  BY AppendProperties
<1>2. DOMAIN Append(s, b) = 1 .. Len(s) + 1 /\ Len(s) \in Nat
  BY <1>1, LenProperties
<1>. QED
  BY <1>1, <1>2

LEMMA SubmitStep ==
    ASSUME ExeInv, Submit, UNCHANGED <<caller, node, vals, precision>>
    PROVE  ExeInv'
<1>1. /\ exe' = exe /\ operands' = operands /\ ci' = ci /\ outFlat' = outFlat
      /\ res' = res /\ inputs' = inputs /\ scratch' = sd
      /\ phase = "submit" /\ scratch = sd - 1
      /\ counters' = IF Counted THEN Append(counters, TRUE) ELSE counters
      /\ IF sd = exe.submits THEN outBo' = Computed /\ phase' = "read" /\ sd' = sd
         ELSE sd' = sd + 1 /\ phase' = "submit"
  BY DEF Submit
<1>2. Compilation' /\ Arguments'
  BY <1>1, SameCompilation, SameArguments DEF ExeInv
<1>3. Progress'
  BY <1>1, SameExecutable, Running, Computes DEF ExeInv, Progress
<1>4. Answers'
  BY <1>1 DEF Answers
<1>5. Counts'
  <2>1. /\ counters' \in Seq(BOOLEAN)
        /\ Len(counters') = IF Counted THEN Len(counters) + 1 ELSE Len(counters)
    <3>1. CASE Counted
      BY <1>1, <3>1, Running, TaskCounted
    <3>2. CASE ~Counted
      BY <1>1, <3>2, Running
    <3>. QED
      BY <3>1, <3>2
  <2>2. Counted <=> (ByChunks(exe, operands) => sd = exe.submits)
    BY DEF Counted
  <2>3. /\ ci \in Nat \ {0} /\ sd \in 1 .. exe.submits /\ exe.submits \in Nat \ {0}
        /\ ByChunks(exe, operands)' <=> ByChunks(exe, operands)
        /\ Len(counters) \in Nat
        /\ Len(counters) <= IF ByChunks(exe, operands) THEN ci - 1 ELSE sd - 1
    BY <1>1, SameExecutable, Running DEF ExeInv, Counts
  <2>4. scratch' \in -1 .. exe'.submits /\ ci' \in Nat /\ ScratchInStep'
    BY <1>1, <2>3 DEF ScratchInStep
  <2>5. CASE sd = exe.submits
    <3>1. phase' = "read"
      BY <1>1, <2>5
    <3>2. Len(counters') <= IF ByChunks(exe, operands) THEN ci ELSE exe.submits
      BY <2>1, <2>2, <2>3, <2>5
    <3>. QED
      BY <1>1, <2>1, <2>3, <2>4, <3>1, <3>2 DEF Counts
  <2>6. CASE sd # exe.submits
    <3>1. phase' = "submit" /\ sd' = sd + 1
      BY <1>1, <2>6
    <3>2. Len(counters') <= IF ByChunks(exe, operands) THEN ci - 1 ELSE sd' - 1
      BY <2>1, <2>2, <2>3, <2>6, <3>1
    <3>. QED
      BY <1>1, <2>1, <2>3, <2>4, <3>1, <3>2 DEF Counts
  <2>. QED
    BY <2>5, <2>6
<1>. QED
  BY <1>2, <1>3, <1>4, <1>5 DEF ExeInv

LEMMA FailStep ==
    ASSUME ExeInv, SubmitFails, UNCHANGED <<caller, node, vals, precision>>
    PROVE  ExeInv'
<1>1. /\ exe' = exe /\ operands' = operands /\ ci' = ci /\ scratch' = -1
      /\ phase = "submit" /\ phase' \in {"returned", "raised"}
      /\ IF exe.kind = "codegen"
         THEN phase' = "returned" /\ counters' = Append(counters, FALSE)
         ELSE phase' = "raised" /\ counters' = counters
  BY DEF SubmitFails
<1>2. Compilation' /\ Arguments'
  BY <1>1, SameCompilation, SameArguments DEF ExeInv
<1>3. Progress'
  BY <1>1 DEF Progress
<1>4. /\ ci \in Nat \ {0} /\ sd \in 1 .. exe.submits /\ exe.submits \in Nat \ {0}
      /\ counters \in Seq(BOOLEAN) /\ Len(counters) \in Nat
      /\ Len(counters) <= IF ByChunks(exe, operands) THEN ci - 1 ELSE sd - 1
  BY <1>1, Running DEF ExeInv, Counts
<1>5. Answers'
  <2>1. CASE exe.kind = "codegen"
    <3>1. \E i \in DOMAIN counters' : ~counters'[i]
      BY <1>1, <1>4, <2>1, TaskCounted
    <3>. QED
      BY <1>1, <2>1, <3>1 DEF Answers
  <2>2. CASE exe.kind # "codegen"
    BY <1>1, <2>2 DEF Answers
  <2>. QED
    BY <2>1, <2>2
<1>6. Counts'
  <2>1. ci <= ci * exe.submits /\ exe.submits <= ci * exe.submits
    BY <1>4, Products
  <2>2. counters' \in Seq(BOOLEAN) /\ Len(counters') <= ci * exe.submits
    <3>1. CASE exe.kind = "codegen"
      <4>1. ByChunks(exe, operands)
        BY <3>1 DEF ByChunks
      <4>2. Len(counters') = Len(counters) + 1 /\ counters' \in Seq(BOOLEAN)
        BY <1>1, <1>4, <3>1, TaskCounted
      <4>. QED
        BY <1>4, <2>1, <4>1, <4>2
    <3>2. CASE exe.kind # "codegen"
      BY <1>1, <1>4, <2>1, <3>2
    <3>. QED
      BY <3>1, <3>2
  <2>. QED
    BY <1>1, <1>4, <2>2 DEF Counts, ScratchInStep
<1>. QED
  BY <1>2, <1>3, <1>5, <1>6 DEF ExeInv

LEMMA ReadStep ==
    ASSUME ExeInv, ReadChunk, UNCHANGED <<caller, node, vals, precision>>
    PROVE  ExeInv'
<1>. DEFINE chunked == ByChunks(exe, operands)
            n == Runs(exe, operands)
<1>1. /\ exe' = exe /\ operands' = operands /\ sd' = sd /\ scratch' = scratch
      /\ outFlat' = [outFlat EXCEPT ![ci] = outBo] /\ counters' = counters
      /\ phase = "read"
      /\ IF ci = n
         THEN /\ phase' = "returned" /\ ci' = ci
              /\ res' = Tensor(ResultShapeOf, IF chunked THEN outFlat' ELSE outBo)
         ELSE phase' = "write" /\ ci' = ci + 1
  BY DEF ReadChunk
<1>2. Compilation' /\ Arguments'
  BY <1>1, SameCompilation, SameArguments DEF ExeInv
<1>3. /\ ci \in 1 .. n /\ n \in Nat \ {0} /\ (~chunked => n = 1)
      /\ sd \in 1 .. exe.submits /\ exe.submits \in Nat \ {0}
      /\ counters \in Seq(BOOLEAN) /\ Len(counters) \in Nat
      /\ Len(counters) <= IF chunked THEN ci ELSE exe.submits
      /\ scratch \in -1 .. exe.submits
  BY <1>1, Running DEF ExeInv, Counts
<1>4. /\ outFlat = [c \in 1 .. n |-> outFlat[c]]
      /\ chunked => \A c \in 1 .. ci - 1 : outFlat[c] = Result[c]
      /\ outBo = IF chunked THEN Result[ci] ELSE Result
  BY <1>1 DEF ExeInv, Progress
<1>5. /\ ByChunks(exe, operands)' <=> chunked
      /\ Runs(exe, operands)' = n /\ Result' = Result /\ ResultShapeOf' = ResultShapeOf
  BY <1>1, SameExecutable
<1>. HIDE DEF chunked, n
<1>6. /\ outFlat' = [c \in 1 .. n |-> outFlat'[c]]
      /\ chunked => \A c \in 1 .. ci : outFlat'[c] = Result[c]
  <2>1. outFlat' = [c \in 1 .. n |-> IF c = ci THEN outBo ELSE outFlat[c]]
    BY <1>1, <1>4
  <2>2. ASSUME chunked, NEW c \in 1 .. ci
        PROVE  outFlat'[c] = Result[c]
    <3>1. c \in 1 .. n
      BY <1>3
    <3>2. CASE c = ci
      BY <1>4, <2>1, <2>2, <3>1, <3>2
    <3>3. CASE c # ci
      <4>1. c \in 1 .. ci - 1
        BY <1>3, <3>3
      <4>. QED
        BY <1>4, <2>1, <2>2, <3>1, <3>3, <4>1
    <3>. QED
      BY <3>2, <3>3
  <2>3. outFlat' = [c \in 1 .. n |-> outFlat'[c]]
    BY <2>1
  <2>. QED
    BY <2>2, <2>3
<1>7. Progress'
  <2>1. CASE ci = n
    BY <1>1, <2>1 DEF Progress
  <2>2. CASE ci # n
    BY <1>1, <1>3, <1>5, <1>6, <2>2 DEF Progress
  <2>. QED
    BY <2>1, <2>2
<1>8. Answers'
  <2>1. CASE ci = n
    <3>1. Result = IF chunked THEN outFlat' ELSE outBo
      <4>1. CASE chunked
        <5>1. Result = [c \in 1 .. n |-> Result[c]]
          BY <4>1 DEF Result, chunked, n
        <5>. QED
          BY <1>3, <1>6, <2>1, <4>1, <5>1
      <4>2. CASE ~chunked
        BY <1>4, <4>2
      <4>. QED
        BY <4>1, <4>2
    <3>2. res' = Tensor(ResultShapeOf', Result')
      BY <1>1, <1>5, <2>1, <3>1
    <3>. QED
      BY <3>2 DEF Answers
  <2>2. CASE ci # n
    BY <1>1, <2>2 DEF Answers
  <2>. QED
    BY <2>1, <2>2
<1>9. Counts'
  <2>1. ci <= ci * exe.submits /\ exe.submits <= ci * exe.submits
    BY <1>3, Products
  <2>2. CASE ci = n
    BY <1>1, <1>3, <2>1, <2>2 DEF Counts, ScratchInStep
  <2>3. CASE ci # n
    BY <1>1, <1>3, <2>3 DEF Counts, ScratchInStep
  <2>. QED
    BY <2>2, <2>3
<1>. QED
  BY <1>2, <1>7, <1>8, <1>9 DEF ExeInv
-----------------------------------------------------------------------------
(* The graph, step by step *)

GraphInv == Graph /\ InGraphOrder /\ ValuesCorrect

LEMMA NewGraph ==
    ASSUME nodes' = << >>, Listed(vals'), \A v \in DOMAIN vals' : IsTensor(vals'[v]),
           pc' \in {"compile", "run"} => caller' # "runner"
    PROVE  GraphInv'
<1>1. Listed(nodes') /\ Len(nodes') = 0 /\ DOMAIN nodes' = {}
  BY DEF Listed
<1>2. Len(vals') \in Nat
  BY ListedLength
<1>3. Graph'
  BY <1>1, <1>2, RunnerAssumption DEF Graph
<1>4. InGraphOrder' /\ ValuesCorrect'
  BY <1>1 DEF InGraphOrder, ValuesCorrect
<1>. QED
  BY <1>3, <1>4 DEF GraphInv

LEMMA SameNodes ==
    ASSUME GraphInv, UNCHANGED <<vals, nodes, precision>>,
           pc' \in {"compile", "run"} /\ caller' = "runner" =>
              node' \in NextNodes /\ NpuOp(node') # "cpu" /\ Len(nodes) < MaxNodes
    PROVE  GraphInv'
<1>1. Graph'
  <2>1. NextNodes' = NextNodes /\ \A n : NpuOp(n)' = NpuOp(n)
    BY SameValues
  <2>2. pc' \in {"compile", "run"} /\ caller' = "runner" =>
          /\ node' \in NextNodes' /\ NpuOp(node)' # "cpu" /\ Len(nodes') < MaxNodes
    BY <2>1
  <2>. QED
    BY <2>2 DEF GraphInv, Graph
<1>2. InGraphOrder'
  BY DEF GraphInv, InGraphOrder
<1>3. ValuesCorrect'
  <2>1. \A n : /\ Operands(n)' = Operands(n) /\ OperandShapes(n)' = OperandShapes(n)
               /\ NpuOp(n)' = NpuOp(n)
    BY SameValues
  <2>2. \A n : Diverges(n)' <=> Diverges(n)
    BY <2>1 DEF Diverges, Quantised
  <2>. QED
    BY <2>1, <2>2 DEF GraphInv, ValuesCorrect
<1>. QED
  BY <1>1, <1>2, <1>3 DEF GraphInv

\* A node reads values that are there.
LEMMA NodeSources ==
    ASSUME Graph, NEW n \in NextNodes
    PROVE  \A j \in DOMAIN n.src : n.src[j] \in 0 .. Len(vals)
<1>1. DOMAIN vals = 1 .. Len(vals) /\ Len(vals) \in Nat
  BY ListedLength DEF Graph
<1>2. CASE n.op # "Clip"
  <2>1. \A j \in DOMAIN n.src : n.src[j] \in DOMAIN vals
    BY <1>2, NodeInputs
  <2>. QED
    BY <1>1, <2>1
<1>3. CASE n.op = "Clip"
  <2>1. /\ DOMAIN n.src = 1 .. 3 /\ n.src[1] \in DOMAIN vals
        /\ n.src[2] \in {0} \union DOMAIN vals /\ n.src[3] \in {0} \union DOMAIN vals
    BY <1>3, ClipSources
  <2>. QED
    BY <1>1, <2>1
<1>. QED
  BY <1>2, <1>3

\* A value more does not change the operands of the nodes before it.
LEMMA EarlierOperands ==
    ASSUME Graph, NEW x, vals' = Append(vals, x), precision' = precision,
           NEW n, \A j \in DOMAIN n.src : n.src[j] \in 0 .. Len(vals)
    PROVE  Operands(n)' = Operands(n) /\ (Diverges(n)' <=> Diverges(n))
<1>1. \A i \in DOMAIN vals : vals'[i] = vals[i]
  BY ListedAppend DEF Graph
<1>2. DOMAIN vals = 1 .. Len(vals) /\ Len(vals) \in Nat
  BY ListedLength DEF Graph
<1>3. \A j \in DOMAIN n.src : Operand(n.src[j])' = Operand(n.src[j])
  BY <1>1, <1>2 DEF Operand
<1>4. Operands(n)' = Operands(n) /\ OperandShapes(n)' = OperandShapes(n)
  BY <1>3 DEF Operands, OperandShapes
<1>5. Ins(n)' = Ins(n)
  BY <1>4 DEF Ins
<1>6. InShapes(n)' = InShapes(n)
  BY <1>5 DEF InShapes
<1>7. Choice(n)' = Choice(n)
  BY <1>6 DEF Choice
<1>8. NpuOp(n)' = NpuOp(n)
  BY <1>6, <1>7 DEF NpuOp
<1>. QED
  BY <1>4, <1>8 DEF Diverges, Quantised

LEMMA NodeDone ==
    ASSUME GraphInv, NEW n \in NextNodes, NEW x, IsTensor(x),
           ~Diverges(n) => x = Apply(n.op, n.a, Operands(n)),
           Len(nodes) < MaxNodes, pc' = "graph", precision' = precision,
           vals' = Append(vals, x), nodes' = Append(nodes, n)
    PROVE  GraphInv'
<1>1. /\ Listed(vals') /\ Len(vals) \in Nat /\ DOMAIN vals = 1 .. Len(vals)
      /\ Len(vals') = Len(vals) + 1 /\ DOMAIN vals' = 1 .. Len(vals) + 1
      /\ vals'[Len(vals) + 1] = x
      /\ \A i \in DOMAIN vals : vals'[i] = vals[i]
  BY ListedAppend DEF GraphInv, Graph
<1>2. /\ Listed(nodes') /\ Len(nodes) \in Nat /\ DOMAIN nodes = 1 .. Len(nodes)
      /\ Len(nodes') = Len(nodes) + 1 /\ DOMAIN nodes' = 1 .. Len(nodes) + 1
      /\ nodes'[Len(nodes) + 1] = n
      /\ \A i \in DOMAIN nodes : nodes'[i] = nodes[i]
  BY ListedAppend DEF GraphInv, Graph
<1>3. Len(nodes) <= Len(vals) /\ MaxNodes \in Nat
  BY RunnerAssumption DEF GraphInv, Graph
<1>4. Graph'
  <2>1. \A v \in DOMAIN vals' : IsTensor(vals'[v])
    BY <1>1 DEF GraphInv, Graph
  <2>. QED
    BY <1>1, <1>2, <1>3, <2>1 DEF Graph
<1>5. Len(vals') - Len(nodes') = Len(vals) - Len(nodes)
  BY <1>1, <1>2
<1>6. \A i \in DOMAIN nodes : \A j \in DOMAIN nodes[i].src :
         nodes[i].src[j] \in 0 .. Len(vals)
  BY <1>1, <1>2, <1>3 DEF GraphInv, InGraphOrder
<1>7. \A j \in DOMAIN n.src : n.src[j] \in 0 .. Len(vals)
  BY NodeSources DEF GraphInv
<1>. DEFINE place(i) == Len(vals) - Len(nodes) + i
<1>8. ASSUME NEW i \in DOMAIN nodes', NEW m, m = nodes'[i]
      PROVE  /\ \A j \in DOMAIN m.src : m.src[j] \in 0 .. place(i) - 1
             /\ Diverges(m)' \/ vals'[place(i)] = Apply(m.op, m.a, Operands(m)')
  <2>1. CASE i \in DOMAIN nodes
    <3>1. place(i) \in DOMAIN vals
      BY <1>1, <1>2, <1>3, <2>1
    <3>2. m = nodes[i] /\ vals'[place(i)] = vals[place(i)]
      BY <1>1, <1>2, <1>8, <2>1, <3>1
    <3>3. Operands(m)' = Operands(m) /\ (Diverges(m)' <=> Diverges(m))
      BY <1>6, <2>1, <3>2, EarlierOperands DEF GraphInv
    <3>4. /\ \A j \in DOMAIN m.src : m.src[j] \in 0 .. place(i) - 1
          /\ Diverges(m) \/ vals[place(i)] = Apply(m.op, m.a, Operands(m))
      BY <2>1, <3>2 DEF GraphInv, InGraphOrder, ValuesCorrect
    <3>. QED
      BY <3>2, <3>3, <3>4
  <2>2. CASE i = Len(nodes) + 1
    <3>1. m = n /\ place(i) = Len(vals) + 1
      BY <1>1, <1>2, <1>8, <2>2
    <3>2. Operands(m)' = Operands(m) /\ (Diverges(m)' <=> Diverges(m))
      BY <1>7, <3>1, EarlierOperands DEF GraphInv
    <3>3. \A j \in DOMAIN m.src : m.src[j] \in 0 .. place(i) - 1
      BY <1>1, <1>7, <3>1
    <3>. QED
      BY <1>1, <3>1, <3>2, <3>3
  <2>3. i \in DOMAIN nodes \/ i = Len(nodes) + 1
    BY <1>2
  <2>. QED
    BY <2>1, <2>2, <2>3, Zenon
<1>. DEFINE index(i) == Len(vals') - Len(nodes') + i
<1>9. \A i \in DOMAIN nodes' : index(i) = place(i)
  BY <1>5
<1>. HIDE DEF place
<1>10. InGraphOrder'
  <2>1. ASSUME NEW i \in DOMAIN nodes', NEW j \in DOMAIN nodes'[i].src
        PROVE  nodes'[i].src[j] \in 0 .. index(i) - 1
    BY <1>8, <1>9
  <2>. QED
    BY <2>1 DEF InGraphOrder
<1>11. ValuesCorrect'
  <2>1. ASSUME NEW i \in DOMAIN nodes'
        PROVE  \/ Diverges(nodes[i])'
               \/ vals'[index(i)] = Apply(nodes'[i].op, nodes'[i].a, Operands(nodes[i])')
    <3>1. \/ Diverges(nodes[i])'
          \/ vals'[place(i)] = Apply(nodes'[i].op, nodes'[i].a, Operands(nodes[i])')
      BY <1>8
    <3>. QED
      BY <1>9, <3>1
  <2>. QED
    BY <2>1 DEF ValuesCorrect
<1>. QED
  BY <1>4, <1>10, <1>11 DEF GraphInv
-----------------------------------------------------------------------------
(* Theorems *)

IInv == Control /\ GraphInv /\ ExeInv

LEMMA ControlNext ==
    ASSUME Control, [Next]_vars
    PROVE  Control'
<1>1. CASE RunBegin
  BY <1>1 DEF RunBegin, Control, Drop
<1>2. CASE CpuNode
  BY <1>2 DEF CpuNode, MayExecNode, Control, exeVars
<1>3. CASE NpuNode
  BY <1>3 DEF NpuNode, MayExecNode, Control, exeVars
<1>4. CASE RunEnd
  BY <1>4 DEF RunEnd, Control, exeVars, runVars
<1>5. CASE WorkerCompile
  BY <1>5 DEF WorkerCompile, Control, Compiled, exeVars
<1>6. CASE WorkerExecute
  BY <1>6 DEF WorkerExecute, Control, Execute, runVars
<1>7. CASE Deliver
  BY <1>7 DEF Deliver, Control, Drop
<1>8. CASE WorkerDies
  BY <1>8 DEF WorkerDies, Control, Drop
<1>9. CASE ProgramCompile
  BY <1>9 DEF ProgramCompile, Control, Compiled, Free
<1>10. CASE ProgramExecute
  BY <1>10 DEF ProgramExecute, Control, Execute, runVars
<1>11. CASE ProgramEnd
  BY <1>11, RunnerAssumption DEF ProgramEnd, Control, Drop, runVars
<1>12. CASE Run
  <2>1. phase' \in {"write", "submit", "read", "returned", "raised"} /\ phase # "none"
    BY <1>12 DEF Run, ExeStep, WriteChunk, Submit, SubmitFails, ReadChunk
  <2>. QED
    BY <1>12, <2>1 DEF Run, Control, runVars
<1>13. CASE UNCHANGED vars
  BY <1>13 DEF vars, runVars, exeVars, Control
<1>. QED
  BY <1>1, <1>2, <1>3, <1>4, <1>5, <1>6, <1>7, <1>8, <1>9, <1>10, <1>11, <1>12, <1>13
     DEF Next

LEMMA GraphNext ==
    ASSUME IInv, [Next]_vars
    PROVE  GraphInv'
<1>1. CASE RunBegin
  <2>1. PICK l \in InputLists : vals' = [i \in DOMAIN l |-> Input(i, l[i])]
    BY <1>1 DEF RunBegin
  <2>2. l \in Seq(Shapes)
    BY RunnerAssumption
  <2>3. DOMAIN l = 1 .. Len(l) /\ Len(l) \in Nat /\ \A i \in DOMAIN l : l[i] \in Shapes
    BY <2>2
  <2>4. vals' = [i \in 1 .. Len(l) |-> vals'[i]] /\ DOMAIN vals' = 1 .. Len(l)
    BY <2>1, <2>3
  <2>5. Listed(vals')
    BY <2>3, <2>4, ListedFunction
  <2>6. ASSUME NEW i \in DOMAIN vals'
        PROVE  IsTensor(vals'[i])
    <3>1. vals'[i] = Input(i, l[i]) /\ l[i] \in Shapes
      BY <2>1, <2>3
    <3>. QED
      BY <3>1, Inputs
  <2>. QED
    BY <1>1, <2>5, <2>6, NewGraph DEF RunBegin
<1>2. CASE CpuNode
  <2>1. PICK n \in NextNodes :
          \/ /\ vals' = Append(vals, Apply(n.op, n.a, CpuOperands(n)))
             /\ nodes' = Append(nodes, n) /\ pc' = pc
          \/ pc' = "failed" /\ UNCHANGED <<vals, nodes>>
    BY <1>2 DEF CpuNode
  <2>2. /\ pc = "graph" /\ Len(nodes) < MaxNodes
        /\ caller' = caller /\ precision' = precision /\ node' = node
    BY <1>2 DEF CpuNode, MayExecNode
  <2>3. CASE pc' = "failed" /\ UNCHANGED <<vals, nodes>>
    BY <2>2, <2>3, SameNodes DEF IInv
  <2>4. CASE /\ vals' = Append(vals, Apply(n.op, n.a, CpuOperands(n)))
             /\ nodes' = Append(nodes, n) /\ pc' = pc
    <3>1. /\ IsTensor(Apply(n.op, n.a, CpuOperands(n)))
          /\ ~Diverges(n) => CpuOperands(n) = Operands(n)
      BY CpuValue DEF IInv, GraphInv
    <3>. DEFINE x == Apply(n.op, n.a, CpuOperands(n))
    <3>2. IsTensor(x) /\ (~Diverges(n) => x = Apply(n.op, n.a, Operands(n)))
      BY <3>1
    <3>3. vals' = Append(vals, x) /\ nodes' = Append(nodes, n) /\ pc' = "graph"
      BY <2>2, <2>4
    <3>. HIDE DEF x
    <3>. QED
      BY <2>2, <3>2, <3>3, NodeDone DEF IInv
  <2>. QED
    BY <2>1, <2>3, <2>4
<1>3. CASE NpuNode
  BY <1>3, SameNodes DEF IInv, NpuNode, MayExecNode
<1>4. CASE RunEnd
  BY <1>4, SameNodes DEF IInv, RunEnd, runVars
<1>5. CASE WorkerCompile
  <2>1. /\ UNCHANGED <<vals, nodes, precision, node, caller>> /\ pc = "compile"
    BY <1>5 DEF WorkerCompile
  <2>. QED
    BY <2>1, SameNodes DEF IInv, GraphInv, Graph
<1>6. CASE WorkerExecute
  <2>1. UNCHANGED <<vals, nodes, precision, node, caller, pc>>
    BY <1>6 DEF WorkerExecute, runVars
  <2>. QED
    BY <2>1, SameNodes DEF IInv, GraphInv, Graph
<1>7. CASE Deliver
  <2>1. /\ caller = "runner" /\ phase = "returned" /\ pc = "run" /\ pc' = "graph"
        /\ vals' = Append(vals, Reshaped) /\ nodes' = Append(nodes, node)
        /\ precision' = precision
    BY <1>7 DEF Deliver
  <2>2. node \in NextNodes /\ Len(nodes) < MaxNodes
    BY <2>1 DEF IInv, GraphInv, Graph
  <2>3. /\ IsTensor(Reshaped)
        /\ ~Diverges(node) => Reshaped = Apply(node.op, node.a, Operands(node))
    BY <2>1, Delivered DEF IInv, GraphInv, ExeInv
  <2>. QED
    BY <2>1, <2>2, <2>3, NodeDone DEF IInv
<1>8. CASE WorkerDies
  BY <1>8, SameNodes DEF IInv, WorkerDies
<1>9. CASE ProgramCompile
  <2>1. nodes' = << >> /\ vals' = << >> /\ caller' = "program"
    BY <1>9 DEF ProgramCompile
  <2>2. Listed(vals') /\ \A v \in DOMAIN vals' : IsTensor(vals'[v])
    BY <2>1 DEF Listed
  <2>. QED
    BY <2>1, <2>2, NewGraph
<1>10. CASE ProgramExecute
  BY <1>10, SameNodes DEF IInv, ProgramExecute, runVars
<1>11. CASE ProgramEnd
  BY <1>11, SameNodes DEF IInv, ProgramEnd, runVars
<1>12. CASE Run
  <2>1. UNCHANGED <<vals, nodes, precision, node, caller, pc>>
    BY <1>12 DEF Run, runVars
  <2>. QED
    BY <2>1, SameNodes DEF IInv, GraphInv, Graph
<1>13. CASE UNCHANGED vars
  <2>1. UNCHANGED <<vals, nodes, precision, node, caller, pc>>
    BY <1>13 DEF vars, runVars
  <2>. QED
    BY <2>1, SameNodes DEF IInv, GraphInv, Graph
<1>. QED
  BY <1>1, <1>2, <1>3, <1>4, <1>5, <1>6, <1>7, <1>8, <1>9, <1>10, <1>11, <1>12, <1>13
     DEF Next

LEMMA ExeNext ==
    ASSUME IInv, [Next]_vars
    PROVE  ExeInv'
<1>1. CASE RunBegin
  BY <1>1, Dropped DEF RunBegin, Drop
<1>2. CASE CpuNode \/ NpuNode \/ RunEnd
  <2>1. pc = "graph" /\ exeVars' = exeVars
    BY <1>2 DEF CpuNode, NpuNode, RunEnd, MayExecNode
  <2>. QED
    BY <2>1, NotCompiled DEF IInv, Control
<1>3. CASE WorkerCompile
  <2>1. pc = "compile" /\ caller = "runner" /\ phase = "none"
    BY <1>3 DEF WorkerCompile, IInv, Control
  <2>2. CASE WorkerRaises(NpuOp(node))
    BY <1>3, <2>1, <2>2, NotCompiled DEF WorkerCompile, IInv
  <2>3. CASE ~WorkerRaises(NpuOp(node))
    <3>. DEFINE d == TemplateDir(NpuOp(node))
    <3>1. /\ Compiled(FromTemplate(d)) /\ d \in DOMAIN Templates
          /\ UNCHANGED <<caller, precision, vals, node>>
      BY <1>3, <2>3 DEF WorkerCompile, WorkerRaises
    <3>2. FromTemplate(d).submits \in Nat
      BY <3>1, TemplateAssumption DEF FromTemplate
    <3>3. NpuOp(node)' = NpuOp(node) /\ InShapes(node)' = InShapes(node)
      BY <3>1, SameValues
    <3>4. TemplateDir(NpuOp(node))' = d
      BY <3>1, <3>3 DEF TemplateDir
    <3>5. ~WorkerRaises(NpuOp(node))'
      BY <2>3, <3>1, <3>3, <3>4 DEF WorkerRaises
    <3>6. exe' = FromTemplate(d) /\ phase' = "ready"
      BY <3>1 DEF Compiled
    <3>. HIDE DEF d
    <3>7. Compilation'
      BY <3>1, <3>4, <3>5, <3>6 DEF Compilation
    <3>. QED
      BY <3>1, <3>2, <3>7, CompiledStep
  <2>. QED
    BY <2>2, <2>3
<1>4. CASE WorkerExecute
  <2>. DEFINE ts == IF node.op = "LayerNormalization" THEN <<Ins(node)[1]>> ELSE Ins(node)
  <2>1. /\ pc = "run" /\ caller = "runner" /\ phase = "ready" /\ Execute(ts)
        /\ UNCHANGED <<caller, node, vals, precision>>
    BY <1>4 DEF WorkerExecute, runVars
  <2>2. node \in NextNodes
    BY <2>1 DEF IInv, GraphInv, Graph
  <2>3. /\ exe.kind = "template" /\ node.op # "Clip"
        /\ Len(exe.ins) = Len(Operands(node))
    BY <2>1, RunnerCapture DEF IInv, GraphInv, ExeInv
  <2>4. ts = Operands(node)
    <3>1. /\ Ins(node) = Operands(node)
          /\ node.op = "LayerNormalization" => node.src = <<node.src[1]>>
      BY <2>2, <2>3, NodeInputs DEF Binary
    <3>2. CASE node.op = "LayerNormalization"
      <4>1. DOMAIN node.src = 1 .. 1
        BY <3>1, <3>2
      <4>2. Operands(node) = [j \in 1 .. 1 |-> Operand(node.src[j])]
        BY <4>1 DEF Operands
      <4>3. Operands(node) = <<Operands(node)[1]>>
        BY <4>2
      <4>. QED
        BY <3>1, <3>2, <4>3
    <3>. QED
      BY <3>1, <3>2
  <2>5. /\ Listed(ts) /\ ts # << >>
        /\ \A j \in DOMAIN ts : IsTensor(ts[j])
    BY <2>2, <2>3, <2>4, NodeOperands DEF IInv, GraphInv
  <2>. HIDE DEF ts
  <2>. QED
    BY <2>1, <2>3, <2>4, <2>5, ExecuteStep DEF IInv
<1>5. CASE Deliver \/ WorkerDies \/ ProgramEnd
  BY <1>5, Dropped DEF Deliver, WorkerDies, ProgramEnd, Drop
<1>6. CASE ProgramCompile
  <2>1. caller' = "program"
    BY <1>6 DEF ProgramCompile
  <2>2. ASSUME NEW op \in ProgramOps, NEW s \in ProgramArgs, Compiled(Codegen(op, s))
        PROVE  ExeInv'
    <3>1. exe' = Codegen(op, s) /\ phase' = "ready"
      BY <2>2 DEF Compiled
    <3>2. Codegen(op, s).submits \in Nat
      BY DEF Codegen, NoExe
    <3>3. Compilation'
      BY <2>1, <3>1 DEF Compilation
    <3>. QED
      BY <2>2, <3>2, <3>3, CompiledStep
  <2>3. ASSUME NEW d \in DOMAIN Templates, Compiled(FromTemplate(d))
        PROVE  ExeInv'
    <3>1. exe' = FromTemplate(d) /\ phase' = "ready"
      BY <2>3 DEF Compiled
    <3>2. FromTemplate(d).submits \in Nat
      BY TemplateAssumption DEF FromTemplate
    <3>3. Compilation'
      BY <2>1, <3>1 DEF Compilation
    <3>. QED
      BY <2>3, <3>2, <3>3, CompiledStep
  <2>. QED
    BY <1>6, <2>2, <2>3 DEF ProgramCompile
<1>7. CASE ProgramExecute
  <2>. DEFINE k == IF exe.kind = "codegen" THEN 2 ELSE Len(exe.ins)
  <2>1. PICK s \in [1 .. k -> ProgramArgs], first \in {1, 3} :
          Execute([j \in DOMAIN s |-> Input(first + j, s[j])])
    BY <1>7 DEF ProgramExecute
  <2>. DEFINE ts == [j \in DOMAIN s |-> Input(first + j, s[j])]
  <2>2. Execute(ts)
    BY <2>1
  <2>3. caller = "program" /\ UNCHANGED <<caller, node, vals, precision>> /\ phase # "none"
    BY <1>7 DEF ProgramExecute, runVars, IInv, Control
  <2>4. k \in Nat \ {0}
    <3>1. /\ exe.kind \in {"codegen", "template"}
          /\ exe.kind = "template" => exe.ins \in Seq(Shapes) \ {<< >>}
      BY <2>3, Kinds DEF IInv, ExeInv
    <3>2. exe.kind = "template" => Len(exe.ins) \in Nat \ {0}
      BY <3>1
    <3>. QED
      BY <3>1, <3>2
  <2>. HIDE DEF k
  <2>5. ASSUME NEW j \in DOMAIN ts
        PROVE  IsTensor(ts[j])
    <3>1. s[j] \in Shapes /\ ts[j] = Input(first + j, s[j])
      BY RunnerAssumption
    <3>. QED
      BY <3>1, Inputs
  <2>6. ts = [j \in 1 .. k |-> ts[j]] /\ DOMAIN ts = 1 .. k
    OBVIOUS
  <2>. HIDE DEF ts
  <2>7. Listed(ts) /\ Len(ts) = k
    BY <2>4, <2>6, ListedFunction
  <2>8. ts # << >>
    BY <2>4, <2>7
  <2>. QED
    BY <2>2, <2>3, <2>5, <2>7, <2>8, ExecuteStep DEF IInv, k
<1>8. CASE Run
  <2>1. UNCHANGED <<caller, node, vals, precision>>
    BY <1>8 DEF Run, runVars
  <2>. QED
    BY <1>8, <2>1, WriteStep, SubmitStep, FailStep, ReadStep DEF IInv, Run, ExeStep
<1>9. CASE UNCHANGED vars
  <2>1. UNCHANGED <<caller, node, vals, precision>> /\ exeVars' = exeVars
    BY <1>9 DEF vars, runVars
  <2>. QED
    BY <2>1, SameExe DEF IInv
<1>. QED
  BY <1>1, <1>2, <1>3, <1>4, <1>5, <1>6, <1>7, <1>8, <1>9 DEF Next

LEMMA InitInv ==
    ASSUME Init
    PROVE  IInv
<1>1. /\ pc = "idle" /\ caller = "none" /\ precision = "none" /\ phase = "none"
      /\ exe = NoExe /\ scratch = 0 /\ counters = << >> /\ ci = 0
      /\ nodes = << >> /\ vals = << >>
  BY DEF Init, ExeInit
<1>2. Control
  BY <1>1 DEF Control
<1>3. GraphInv
  <2>1. Graph
    BY <1>1, RunnerAssumption DEF Graph, Listed
  <2>. QED
    BY <1>1, <2>1 DEF GraphInv, InGraphOrder, ValuesCorrect
<1>4. ExeInv
  BY <1>1 DEF ExeInv, Compilation, Arguments, Progress, Answers, Counts, ScratchInStep, NoExe
<1>. QED
  BY <1>2, <1>3, <1>4 DEF IInv

LEMMA Invariance == Spec => []IInv
<1>1. Init => IInv
  BY InitInv
<1>2. IInv /\ [Next]_vars => IInv'
  BY ControlNext, GraphNext, ExeNext DEF IInv
<1>. QED
  BY <1>1, <1>2, PTL DEF Spec

\* Every variable has its type, for any captures, shapes and graphs; a run is at a
\* chunk of its arguments and at one of its submits (ONNXRunner.run,
\* PJRTExecutable.execute).
THEOREM RunnerTyped == Spec => []TypeOK
<1>1. ASSUME IInv
      PROVE  TypeOK
  <2>1. /\ pc \in {"idle", "graph", "compile", "run", "done", "failed"}
        /\ caller \in Callers \union {"none"}
        /\ precision \in Precisions \union {"none"}
        /\ Len(nodes) <= MaxNodes
        /\ phase \in {"none", "ready", "write", "submit", "read", "returned", "raised"}
        /\ scratch \in -1 .. exe.submits
    BY <1>1 DEF IInv, Control, GraphInv, Graph, ExeInv, Counts
  <2>2. ASSUME NEW v \in DOMAIN vals
        PROVE  vals[v].shape \in Shapes /\ Len(vals[v].data) = Chunks(vals[v].shape)
    <3>. DEFINE d == vals[v].data
                n == Chunks(vals[v].shape)
    <3>1. vals[v].shape \in Shapes /\ d = [c \in 1 .. n |-> d[c]]
      BY <1>1 DEF IInv, GraphInv, Graph, IsTensor
    <3>2. n \in Nat
      BY <3>1, ChunkCount
    <3>. HIDE DEF d, n
    <3>3. DOMAIN d = 1 .. n
      BY <3>1
    <3>4. Len(d) = n
      BY <3>1, <3>2, <3>3, ListedFunction
    <3>. QED
      BY <3>1, <3>4 DEF d, n
  <2>3. phase \in {"write", "submit", "read"} =>
          ci \in 1 .. Runs(exe, operands) /\ sd \in 1 .. exe.submits
    BY <1>1 DEF IInv, ExeInv, Progress
  <2>4. Len(counters) <= ci * exe.submits
    <3>1. CASE phase = "none"
      BY <1>1, <3>1 DEF IInv, ExeInv, Compilation, NoExe
    <3>2. CASE phase = "ready"
      <4>1. exe.submits \in Nat /\ ci \in Nat /\ counters = << >>
        BY <1>1, <3>2, Kinds DEF IInv, ExeInv, Counts
      <4>2. ci * exe.submits \in Nat
        BY <4>1
      <4>. QED
        BY <4>1, <4>2
    <3>3. CASE phase \in {"write", "submit", "read"}
      <4>1. /\ ci \in Nat \ {0} /\ sd \in 1 .. exe.submits /\ exe.submits \in Nat \ {0}
            /\ Len(counters) \in Nat
        BY <1>1, <3>3, Running DEF IInv
      <4>2. ci <= ci * exe.submits /\ exe.submits <= ci * exe.submits /\ ci * exe.submits \in Nat
        BY <4>1, Products
      <4>3. Len(counters) <= ci \/ Len(counters) <= exe.submits
        BY <1>1, <3>3, <4>1 DEF IInv, ExeInv, Counts
      <4>. QED
        BY <4>1, <4>2, <4>3
    <3>4. CASE phase \in {"returned", "raised"}
      BY <1>1, <3>4 DEF IInv, ExeInv, Counts
    <3>. QED
      BY <2>1, <3>1, <3>2, <3>3, <3>4
  <2>. QED
    BY <2>1, <2>2, <2>3, <2>4 DEF TypeOK
<1>. QED
  BY <1>1, Invariance, PTL

\* Every value of a graph is what ONNX says of its node and of the values before
\* it, for any captures of those operations, shapes of tensors and graphs, and
\* whatever submits fail.  The nodes of Diverges are excepted, among them every
\* node that goes to a capture of int8 (_exec_node, npu_worker.run).
THEOREM ValuesAreOnnx == Spec => []ValuesCorrect
<1>1. IInv => ValuesCorrect
  BY DEF IInv, GraphInv
<1>. QED
  BY <1>1, Invariance, PTL

\* "ok" for each task means that the whole result was computed, for tensors of
\* any size, any number of submits and any sequence of executes
\* (_execute_codegen, _execute_template).
THEOREM OkMeansWhole == Spec => []OkIsWhole
<1>1. ASSUME IInv
      PROVE  OkIsWhole
  <2>1. SUFFICES ASSUME phase = "returned", \A i \in DOMAIN counters : counters[i],
                        ByChunks(exe, operands) \/ Fits
                 PROVE  res.data = Apply(exe.op, exe.a, Seen).data
    BY DEF OkIsWhole
  <2>2. res = Tensor(ResultShapeOf, Result)
    BY <1>1, <2>1 DEF IInv, ExeInv, Answers
  <2>3. Result = Apply(exe.op, exe.a, Seen).data
    BY <1>1, <2>1, ResultIsApply DEF IInv, ExeInv
  <2>. QED
    BY <2>2, <2>3 DEF Tensor
<1>. QED
  BY <1>1, Invariance, PTL

\* No submit finds the scratch BO of another chunk, execute or failed submit
\* (_execute_template).
THEOREM ScratchAlwaysInStep == Spec => []ScratchInStep
<1>1. IInv => ScratchInStep
  BY DEF IInv, ExeInv, Counts
<1>. QED
  BY <1>1, Invariance, PTL
=============================================================================
