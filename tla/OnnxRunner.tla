---------------------------- MODULE OnnxRunner ----------------------------
(***************************************************************************)
(* onnx_runner.py and the worker process it starts for each NPU operation  *)
(* (npu_worker.py), and beside them a program that uses pjrt.py itself.    *)
(*                                                                         *)
(*   CpuNode, NpuNode    ONNXRunner._exec_node                             *)
(*   WorkerCompile ..    npu_worker.run in its process                     *)
(*   Deliver, WorkerDies the end of _npu_dispatch                          *)
(*   Program..           PJRTClient.compile_codegen, compile_template      *)
(*                                                                         *)
(* _exec_node sees a node and the values before it, so a graph is made up  *)
(* node by node while it is executed.                                      *)
(***************************************************************************)
EXTENDS PyExecutable

CONSTANTS
    InputLists,  \* the shapes of the inputs of a graph
    Nodes,       \* the pairs of operation and attribute a node may have
    MaxNodes,    \* bound: nodes of a graph
    Precisions,  \* of a runner: "float16", "int8"
    Callers,     \* who uses pjrt.py: "runner", "program"
    ProgramOps,  \* what a program compiles for codegen
    ProgramArgs  \* the shapes of the arguments it executes with

ASSUME RunnerAssumption ==
    /\ InputLists \subseteq Seq(Shapes)
    /\ MaxNodes \in Nat
    /\ Precisions \subseteq {"float16", "int8"}
    /\ Callers \subseteq {"runner", "program"}
    /\ ProgramOps \subseteq Binary
    /\ ProgramArgs \subseteq Shapes

VARIABLES
    pc,         \* "idle", "graph", "compile", "run", "done" or "failed"
    caller,     \* who uses the executable
    precision,  \* of this runner
    nodes,      \* the nodes executed
    vals,       \* the inputs, and then a value for each node
    node        \* the node the worker works on

runVars == <<precision, nodes, vals, node>>
vars == <<pc, caller, runVars, exeVars>>

NoNode == [op |-> "none", a |-> "none", src |-> << >>]

Init ==
    /\ pc = "idle" /\ caller = "none" /\ precision = "none"
    /\ nodes = << >> /\ vals = << >> /\ node = NoNode
    /\ ExeInit

Free == pc \in {"idle", "done", "failed"}
-----------------------------------------------------------------------------
(* Graphs *)

\* 0 stands for an optional input that is left out.
Operand(v) == IF v = 0 THEN Absent ELSE vals[v]

Operands(n) == [j \in DOMAIN n.src |-> Operand(n.src[j])]

OperandShapes(n) == [j \in DOMAIN n.src |-> Operand(n.src[j]).shape]

Sources(op) ==
    LET all == DOMAIN vals
    IN  CASE op = "Clip" -> all \X ({0} \union all) \X ({0} \union all)
          [] op \in Binary \union {"MatMul", "Concat"} -> all \X all
          [] OTHER -> {<<v>> : v \in all}

\* Does the node have a type?  A Clip has at least one bound.
Typed(n) ==
    LET s == OperandShapes(n)
    IN  CASE n.op \in Binary -> s[1] = s[2] \/ s \in DOMAIN BroadcastShape
          [] n.op = "MatMul" -> s \in DOMAIN MatMulShape
          [] n.op = "Concat" -> <<n.a>> \o s \in DOMAIN ConcatShape
          [] n.op = "Transpose" -> <<n.a>> \o s \in DOMAIN TransposeShape
          [] n.op = "Clip" -> {s[2], s[3]} \in SUBSET {"absent", "scalar"} \ {{"absent"}}
          [] OTHER -> TRUE

NextNodes ==
    {n \in UNION {{[op |-> p[1], a |-> p[2], src |-> s] : s \in Sources(p[1])} : p \in Nodes} :
        Typed(n)}
-----------------------------------------------------------------------------
(* ONNXRunner *)

RunBegin ==
    /\ Free /\ "runner" \in Callers
    /\ pc' = "graph" /\ caller' = "runner"
    /\ precision' \in Precisions
    /\ \E l \in InputLists : vals' = [i \in DOMAIN l |-> Input(i, l[i])]
    /\ nodes' = << >> /\ node' = NoNode
    /\ Drop

Given(t) == IF t.shape = "absent" THEN << >> ELSE <<t>>

\* "vals[n] for n in node.input if n": inputs that are left out do not count.
\* Only a Clip has such inputs.
Ins(n) ==
    LET all == Operands(n)
    IN  IF n.op = "Clip" THEN <<all[1]>> \o Given(all[2]) \o Given(all[3]) ELSE all

InShapes(n) == [j \in DOMAIN Ins(n) |-> Ins(n)[j].shape]

Act == "1x64x768"

\* The captured shapes of NPU_OPS whose nodes have attributes.
NPU_OPS == [Softmax   |-> <<Act>>,
            LeakyRelu |-> <<Act>>,
            Concat    |-> <<"1x32x768", "1x32x768">>,
            Transpose |-> <<Act>>]

\* Does directory d hold the capture of such a node?
Captures(d, op, a, ins) ==
    Templates[d].op = op /\ Templates[d].a = a /\ Templates[d].ins = ins

\* The directories hold what their names say, "captured at fixed
\* transformer-embedding shapes" (onnx_runner.py 10-13), and a graph gives
\* attributes to the operations that have some.
ASSUME CaptureAssumption ==
    /\ Act \in Shapes /\ Elements[Act] = KElem
    /\ \A d \in DOMAIN Templates :
          /\ d[1] \in Binary => Captures(d, d[1], "none", <<Act, Act>>)
          /\ d[1] \in Activations \ {"LeakyRelu"} => Captures(d, d[1], "none", <<Act>>)
          /\ d[1] = "LeakyRelu" => Captures(d, "LeakyRelu", "default", <<Act>>)
          /\ d[1] = "Softmax" => Captures(d, "Softmax", "last", <<Act>>)
          /\ d[1] = "Softmax64" => Captures(d, "Softmax", "last", <<"1x64x64">>)
          /\ d[1] = "Concat" => Captures(d, "Concat", "axis1", NPU_OPS.Concat)
          /\ d[1] = "Transpose" => Captures(d, "Transpose", "swap", <<Act>>)
          /\ d[1] = "LayerNorm" => Captures(d, "LayerNormalization", "unit", <<Act>>)
          /\ d[1] = "LayerNorm_key" => Captures(d, "LayerNormalization", "trained", <<Act>>)
          /\ Templates[d].dt = d[2]
          /\ Templates[d].op = "MatMul" =>
                /\ d[2] = "float16" /\ Templates[d].a = "none"
                /\ Len(Templates[d].ins) = 2
                /\ Templates[d].ins \in DOMAIN MatMulShape
          /\ Templates[d].out =
                ResultShape(Templates[d].op, Templates[d].a,
                            [j \in DOMAIN Templates[d].ins |->
                                Tensor(Templates[d].ins[j], << >>)])
    /\ \A p \in Nodes :
          /\ p[1] \in Binary \union {"MatMul"} \union (Activations \ {"LeakyRelu"}) =>
                p[2] = "none"
          /\ p[1] = "LeakyRelu" => p[2] \in {"default", "other"}

\* MATMUL_BY_SHAPE: the captured pairs of shapes.
MatMulTemplates == {d \in DOMAIN Templates : Templates[d].op = "MatMul"}
MatMulPairs == {Templates[d].ins : d \in MatMulTemplates}

\* Mutant: the axis of a Softmax is not looked at.
GateAnyAxis(n) ==
    \/ n.op = "Softmax"
    \/ n.op = "Transpose" /\ n.a \in {"none", "swap"}
    \/ n.op = "Concat" /\ n.a = "axis1"
    \/ n.op = "LeakyRelu" /\ n.a = "default"

\* The attribute gates: what the captured operation can do.
Gate(n) ==
    \/ n.op = "Softmax" /\ n.a = "last"
    \/ n.op = "Transpose" /\ n.a \in {"none", "swap"}
    \/ n.op = "Concat" /\ n.a = "axis1"
    \/ n.op = "LeakyRelu" /\ n.a = "default"

\* The choice by operation and shape, before the captured shapes.
Choice(n) ==
    LET s == InShapes(n)
    IN  CASE n.op \in Binary /\ s[1] = s[2] -> n.op
          [] n.op = "MatMul" /\ s \in MatMulPairs -> "MatMul"
          [] n.op = "Softmax" /\ s = <<"1x64x64">> -> "Softmax64"
          [] n.op = "LayerNormalization" /\ s[1] = Act
             /\ n.a \in {"trained", "trained_eps"} -> "LayerNorm_key"
          [] n.op = "LayerNormalization" /\ s[1] = Act
             /\ n.a \in {"unit", "unit_eps"} -> "LayerNorm"
          [] n.op \in Activations /\ n.a # "other" -> n.op
          [] OTHER -> "cpu"

NpuOp(n) ==
    IF n.op \in DOMAIN NPU_OPS /\ InShapes(n) = NPU_OPS[n.op]
    THEN IF Gate(n) THEN n.op ELSE "cpu"
    ELSE Choice(n)

\* _cpu_op: Slice has no implementation.
CpuOps == Binary \union Activations
          \union {"Softmax", "MatMul", "Concat", "Transpose", "Clip", "LayerNormalization"}

\* The bounds of a Clip are taken by their position.
CpuOperands(n) ==
    IF n.op = "Clip" THEN [j \in 1 .. 3 |-> IF j <= Len(Ins(n)) THEN Ins(n)[j] ELSE Absent]
    ELSE Ins(n)

MayExecNode == pc = "graph" /\ Len(nodes) < MaxNodes

CpuNode ==
    /\ MayExecNode
    /\ \E n \in NextNodes :
          /\ NpuOp(n) = "cpu"
          /\ IF n.op \in CpuOps
               THEN /\ vals' = Append(vals, Apply(n.op, n.a, CpuOperands(n)))
                    /\ nodes' = Append(nodes, n)
                    /\ UNCHANGED pc
               ELSE /\ pc' = "failed"
                    /\ UNCHANGED <<vals, nodes>>
    /\ UNCHANGED <<caller, precision, node, exeVars>>

NpuNode ==
    /\ MayExecNode
    /\ \E n \in NextNodes : NpuOp(n) # "cpu" /\ node' = n
    /\ pc' = "compile"
    /\ UNCHANGED <<caller, precision, nodes, vals, exeVars>>

RunEnd ==
    /\ pc = "graph" /\ nodes # << >>
    /\ pc' = "done"
    /\ UNCHANGED <<caller, runVars, exeVars>>
-----------------------------------------------------------------------------
(* npu_worker.py *)

\* _template_dir: the capture of the precision, or else the plain one.
TemplateDir(op) ==
    CASE op = "MatMul" -> CHOOSE d \in MatMulTemplates : Templates[d].ins = InShapes(node)
      [] op # "MatMul" /\ <<op, precision>> \in DOMAIN Templates -> <<op, precision>>
      [] OTHER -> <<op, "float16">>

\* Does a node go to a capture of int8?
Quantised(n) == /\ precision = "int8" /\ NpuOp(n) \notin {"cpu", "MatMul"}
                /\ <<NpuOp(n), "int8">> \in DOMAIN Templates

\* compile_codegen has no parameter dumps_dir, so the call raises TypeError;
\* without meta.json open raises.
WorkerRaises(op) ==
    \/ op \in Binary /\ precision = "float16"
    \/ TemplateDir(op) \notin DOMAIN Templates

WorkerCompile ==
    /\ pc = "compile"
    /\ IF WorkerRaises(NpuOp(node))
         THEN pc' = "failed" /\ UNCHANGED exeVars
         ELSE pc' = "run" /\ Compiled(FromTemplate(TemplateDir(NpuOp(node))))
    /\ UNCHANGED <<caller, precision, nodes, vals, node>>

\* Only X of a LayerNormalization is sent.
WorkerExecute ==
    /\ pc = "run" /\ caller = "runner" /\ phase = "ready"
    /\ Execute(IF node.op = "LayerNormalization" THEN <<Ins(node)[1]>> ELSE Ins(node))
    /\ UNCHANGED <<pc, caller, runVars>>

\* An activation gets the shape of its input, the others that of the capture.
Reshaped ==
    IF exe.op \in Activations THEN [res EXCEPT !.shape = operands[1].shape] ELSE res

Deliver ==
    /\ pc = "run" /\ caller = "runner" /\ phase = "returned"
    /\ vals' = Append(vals, Reshaped)
    /\ nodes' = Append(nodes, node)
    /\ pc' = "graph" /\ node' = NoNode
    /\ Drop
    /\ UNCHANGED <<caller, precision>>

\* The worker exits with an error and _npu_dispatch raises.
WorkerDies ==
    /\ pc = "run" /\ caller = "runner" /\ phase = "raised"
    /\ pc' = "failed"
    /\ Drop
    /\ UNCHANGED <<caller, precision, nodes, vals, node>>
-----------------------------------------------------------------------------
(* A program that calls pjrt.py *)

ProgramCompile ==
    /\ Free /\ "program" \in Callers
    /\ \/ \E op \in ProgramOps, s \in ProgramArgs : Compiled(Codegen(op, s))
       \/ \E d \in DOMAIN Templates : Compiled(FromTemplate(d))
    /\ pc' = "run" /\ caller' = "program"
    /\ precision' = "none" /\ nodes' = << >> /\ vals' = << >>
    /\ node' = NoNode

\* Other arguments than the last time.
ProgramExecute ==
    /\ pc = "run" /\ caller = "program"
    /\ \E s \in [1 .. IF exe.kind = "codegen" THEN 2 ELSE Len(exe.ins) -> ProgramArgs] :
          \E first \in {1, 3} :
              Execute([j \in DOMAIN s |-> Input(first + j, s[j])])
    /\ UNCHANGED <<pc, caller, runVars>>

ProgramEnd ==
    /\ pc = "run" /\ caller = "program" /\ phase \in {"ready", "returned", "raised"}
    /\ pc' = "idle" /\ caller' = "none"
    /\ Drop
    /\ UNCHANGED runVars

Run == pc = "run" /\ ExeStep /\ UNCHANGED <<pc, caller, runVars>>

Next ==
    \/ RunBegin \/ CpuNode \/ NpuNode \/ RunEnd
    \/ WorkerCompile \/ WorkerExecute \/ Deliver \/ WorkerDies
    \/ ProgramCompile \/ ProgramExecute \/ ProgramEnd
    \/ Run

Spec == Init /\ [][Next]_vars
-----------------------------------------------------------------------------
(* Properties *)

\* Every variable has its type, and an executable is at a chunk of its
\* arguments and at one of its submits.
TypeOK ==
    /\ pc \in {"idle", "graph", "compile", "run", "done", "failed"}
    /\ caller \in Callers \union {"none"}
    /\ precision \in Precisions \union {"none"}
    /\ Len(nodes) <= MaxNodes
    /\ \A v \in DOMAIN vals : /\ vals[v].shape \in Shapes
                              /\ Len(vals[v].data) = Chunks(vals[v].shape)
    /\ phase \in {"none", "ready", "write", "submit", "read", "returned", "raised"}
    /\ phase \in {"write", "submit", "read"} =>
          ci \in 1 .. Runs(exe, operands) /\ sd \in 1 .. exe.submits
    /\ scratch \in -1 .. exe.submits
    /\ Len(counters) <= ci * exe.submits

\* The nodes whose result is known not to be what ONNX says: an operation on
\* a captured shape that gets another one, an axis or epsilon that nobody looks
\* at, a Transpose that does not name its permutation, a Clip with a maximum
\* only, and whatever goes to a capture of int8.
Diverges(n) ==
    LET s == OperandShapes(n)
    IN  \/ Quantised(n)
        \/ n.op \in Binary /\ precision = "int8" /\ s # <<Act, Act>>
        \/ n.op = "Softmax" /\ n.a # "last" /\ s = <<"1x64x64">>
        \/ n.op = "LayerNormalization" /\ n.a \in {"unit_eps", "trained_eps"} /\ s[1] = Act
        \/ n.op = "Transpose" /\ n.a = "none" /\ s = <<Act>>
        \/ n.op = "Clip" /\ s[2] = "absent" /\ s[3] # "absent"

\* Every value is what ONNX says of its node and the values before it,
\* whichever of them went to a worker, whatever tensors were cut into chunks,
\* and whatever submits failed in the same run (_exec_node and npu_worker.run).
\* The nodes of Diverges are excepted.
ValuesCorrect ==
    \A i \in DOMAIN nodes :
        LET v == Len(vals) - Len(nodes) + i
        IN  Diverges(nodes[i])
            \/ vals[v] = Apply(nodes[i].op, nodes[i].a, Operands(nodes[i]))

\* "int8 (w8a8): Same as float16 (except Div)" of the operations "verified on
\* hardware" (README.md 137-141): on the captured shapes a capture of int8 gives
\* what ONNX says.  The code does not keep it: astype(int8) has no scale.
Int8Values ==
    \A i \in DOMAIN nodes :
        LET v == Len(vals) - Len(nodes) + i
        IN  Quantised(nodes[i]) /\ OperandShapes(nodes[i]) \in {<<Act>>, <<Act, Act>>}
            => vals[v] = Apply(nodes[i].op, nodes[i].a, Operands(nodes[i]))

\* The arguments as the kernel sees them: of one shape when they are cut into
\* chunks, of the captured shapes when they are not.
Seen == [j \in DOMAIN operands |->
            [operands[j] EXCEPT !.shape = IF ByChunks(exe, operands) THEN operands[1].shape
                                          ELSE exe.ins[j]]]

\* When execute returns and info() reports "ok" for each of its tasks, the
\* result is the operation on every element of the converted arguments, if
\* they are as long as those it was compiled for: no chunk is missing, and none
\* is that of another execute (_execute_codegen, _execute_template).
OkIsWhole ==
    /\ phase = "returned"
    /\ \A i \in DOMAIN counters : counters[i]
    /\ ByChunks(exe, operands) \/ Fits
    => res.data = Apply(exe.op, exe.a, Seen).data

\* Each submit finds the scratch BO as the submits of its own chunk left it,
\* also after another chunk, another execute or a submit that failed: "stale
\* scratch from the previous chunk hangs the NPU" (_execute_template, pjrt.py
\* 517-521).
ScratchInStep == phase = "submit" => scratch = sd - 1
=============================================================================
