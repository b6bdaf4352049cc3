---------------------------- MODULE PjrtProgram ----------------------------
(***************************************************************************)
(* PJRT_Client_Compile and PJRT_LoadedExecutable_Execute for programs of   *)
(* element-wise operations, activations and matmuls (pjrt_npu_impl.c).     *)
(*                                                                         *)
(*   Trace      JAX adds an operation to the function it lowers            *)
(*   Compile    npu_parse_graph, then the search for a single operation    *)
(*   Execute    starts one of the executors                                *)
(*   DeviceOp   one submit of the graph executor: chunk by chunk, and in a *)
(*              chunk operation by operation, with one mid[] per operation *)
(*   HostOp     one submit of npu_exec_graph_host: operation by operation, *)
(*              each over all its chunks                                   *)
(*   SingleOp   one submit of the path of a single operation               *)
(*                                                                         *)
(* Left out: the varints and offsets of the bytecode, operations with      *)
(* regions, the template bytes and their patching, the BOs of the kernels, *)
(* and the elements inside a chunk.                                        *)
(***************************************************************************)
EXTENDS Stablehlo, FiniteSets

CONSTANTS
    ArgLists,   \* the shapes of the arguments a function may have
    TracedOps,  \* the operations a function may use
    Templates,  \* the pairs of shapes that mm_templates has
    MaxOps,     \* bound: operations of a function
    BodyCap,    \* 30: most operations npu_parse_graph takes
    GraphCap    \* 16: length of g_ops

ASSUME ProgramAssumption ==
    /\ \A a \in ArgLists : a \in Seq(DOMAIN Chunks) /\ Len(a) \in 1 .. 8
    /\ Templates \subseteq DOMAIN DotShape
    /\ {MaxOps, BodyCap, GraphCap} \subseteq Nat \ {0}

VARIABLES
    pc,    \* "trace", "ready", "refused", "run", "done" or "failed"
    args,  \* the shapes of the arguments
    body,  \* the operations
    ret,   \* the value returned
    ex,    \* the NpuExecutable
    k,     \* the operation of the graph that runs
    ci,    \* the chunk that runs
    lost,  \* this run reads argument buffers that an earlier one freed
    mid,   \* the result of each operation of the graph
    out    \* the output buffer

vars == <<pc, args, body, ret, ex, k, ci, lost, mid, out>>

NoExecutable == [graph |-> FALSE, op |-> "none", ops |-> << >>, out |-> 0]

Init ==
    /\ pc = "trace"
    /\ args \in ArgLists
    /\ body = << >>
    /\ ret = 0
    /\ ex = NoExecutable
    /\ k = 0 /\ ci = 0 /\ lost = FALSE
    /\ mid = << >> /\ out = << >>

----------------------------------------------------------------------------
(* Tracing.                                                                *)

Defined == 1 .. Len(args) + Len(body)
Shape(v) == ShapeOf(args, body, v)
Tensors == {v \in Defined : Shape(v) # "scalar"}

Legal ==
    {Operation(op, <<x, y>>, "none", s) :
        op \in Binary \cup {"maximum"}, x \in Tensors, y \in Tensors, s \in DOMAIN Chunks}
    \cup
    {Operation(op, <<x>>, "none", s) :
        op \in Unary, x \in Tensors, s \in DOMAIN Chunks}

\* The operations that StableHLO's types allow next.
Typed ==
    {o \in Legal : \A j \in DOMAIN o.src : Shape(o.src[j]) = o.shape}
    \cup
    {Operation("dot_general", p, "none", DotShape[<<Shape(p[1]), Shape(p[2])>>]) :
        p \in {q \in Defined \X Defined : <<Shape(q[1]), Shape(q[2])>> \in DOMAIN DotShape}}
    \cup
    {Operation("constant", << >>, val, s) :
        val \in {"zero", "one", "table"}, s \in DOMAIN Chunks}
    \cup
    {Operation("broadcast_in_dim", <<x>>, "none", s) :
        x \in Defined, s \in DOMAIN Chunks \ {"scalar"}}

Trace ==
    /\ pc = "trace" /\ Len(body) < MaxOps
    /\ \E o \in Typed :
          /\ o.op \in TracedOps
          /\ body' = Append(body, o)
    /\ UNCHANGED <<pc, args, ret, ex, k, ci, lost, mid, out>>

----------------------------------------------------------------------------
(* Client_Compile.                                                         *)

\* An operand of an operation of the graph: g_opnd_isarg, g_opnd_isconst,
\* g_opnd_idx and g_const_val.
FromArg(v) == [from |-> "arg", ix |-> v]
FromOp(g) == [from |-> "op", ix |-> g]
FromConst(val) == [from |-> "const", ix |-> val]

\* The tables of npu_parse_graph: cval is is_const_v, has_cval and const_val,
\* gop is gop_of, and hasConst is has_const_opnd.
NothingLowered ==
    [ok |-> TRUE, ops |-> << >>, hasConst |-> FALSE,
     gop |-> [v \in Defined |-> 0], cval |-> [v \in Defined |-> "none"]]

Refuse(g) == [g EXCEPT !.ok = FALSE]

\* An operand that must be an argument or the result of an operation.
Readable(g, v) == v <= Len(args) \/ g.gop[v] # 0
Source(g, v) == IF v <= Len(args) THEN FromArg(v) ELSE FromOp(g.gop[v])

\* Mutant: the number of the operation in the function, not in the graph.
EmitBodyIndex(g, rv, t, src) ==
    IF Len(g.ops) >= GraphCap THEN Refuse(g)
    ELSE [g EXCEPT !.ops = Append(@, [t |-> t, src |-> src]),
                   !.gop[rv] = rv - Len(args)]

\* Adds operation t for the value rv.
Emit(g, rv, t, src) ==
    IF Len(g.ops) >= GraphCap THEN Refuse(g)
    ELSE [g EXCEPT !.ops = Append(@, [t |-> t, src |-> src]),
                   !.gop[rv] = Len(g.ops) + 1]

LowerConstant(g, rv, o) == [g EXCEPT !.cval[rv] = o.val]

\* Mutant: the value of the constant is not passed on.
LowerBroadcastDrops(g, rv, o) == g

LowerBroadcast(g, rv, o) == [g EXCEPT !.cval[rv] = g.cval[o.src[1]]]

LowerMaximum(g, rv, o) ==
    LET baked == {j \in 1 .. 2 : g.cval[o.src[j]] # "none"}
        other == CHOOSE j \in 1 .. 2 : j \notin baked
    IN  IF /\ Cardinality(baked) = 1
           /\ \A j \in baked : g.cval[o.src[j]] = "zero"
           /\ Readable(g, o.src[other])
        THEN Emit(g, rv, "relu", <<Source(g, o.src[other])>>)
        ELSE Refuse(g)

LowerTanh(g, rv, o) ==
    IF Readable(g, o.src[1]) THEN Emit(g, rv, "tanh", <<Source(g, o.src[1])>>)
    ELSE Refuse(g)

LowerDot(g, rv, o) ==
    IF \A j \in 1 .. 2 : Readable(g, o.src[j])
    THEN Emit(g, rv, "dot_general", [j \in 1 .. 2 |-> Source(g, o.src[j])])
    ELSE Refuse(g)

LowerBinary(g, rv, o) ==
    LET isConst(j) == g.cval[o.src[j]] # "none"
        operand(j) == IF isConst(j) THEN FromConst(g.cval[o.src[j]])
                      ELSE Source(g, o.src[j])
    IN  IF \A j \in 1 .. 2 : IF isConst(j) THEN g.cval[o.src[j]] # "table"
                             ELSE Readable(g, o.src[j])
        THEN [Emit(g, rv, o.op, [j \in 1 .. 2 |-> operand(j)])
                EXCEPT !.hasConst = @ \/ isConst(1) \/ isConst(2)]
        ELSE Refuse(g)

LowerOp(g, i) ==
    LET o == body[i]
        rv == Len(args) + i
    IN  IF ~ g.ok THEN g
        ELSE CASE o.op = "constant" -> LowerConstant(g, rv, o)
               [] o.op = "broadcast_in_dim" -> LowerBroadcast(g, rv, o)
               [] o.op = "maximum" -> LowerMaximum(g, rv, o)
               [] o.op = "tanh" -> LowerTanh(g, rv, o)
               [] o.op = "dot_general" -> LowerDot(g, rv, o)
               [] o.op \in Binary -> LowerBinary(g, rv, o)
               [] OTHER -> Refuse(g)

\* npu_parse_graph: the tables after the last operation.
Lowered ==
    LET g[i \in 0 .. Len(body)] ==
            IF i = 0 THEN NothingLowered ELSE LowerOp(g[i - 1], i)
    IN  g[Len(body)]

IsGraph(g, r) ==
    /\ g.ok /\ Len(body) \in 1 .. BodyCap
    /\ g.gop[r] # 0
    /\ Len(g.ops) >= 2 \/ g.hasConst

\* The names that HAS finds: those of the called functions too.
CalledNames(op) ==
    CASE op = "relu_call" -> {"constant", "broadcast_in_dim", "maximum"}
      [] op = "silu_call" -> {"logistic", "multiply"}
      [] OTHER -> {}

ModuleNames == UNION {{body[i].op} \cup CalledNames(body[i].op) : i \in DOMAIN body}

SearchOrder == <<"subtract", "multiply", "divide", "maximum", "tanh", "add", "dot_general">>

FirstFound ==
    SearchOrder[CHOOSE i \in DOMAIN SearchOrder :
                    /\ SearchOrder[i] \in ModuleNames
                    /\ \A j \in 1 .. i - 1 : SearchOrder[j] \notin ModuleNames]

Single(op) == [NoExecutable EXCEPT !.op = op]

\* The executable of the function that returns r, if there is one.
Executable(r) ==
    LET g == Lowered
        types == {g.ops[i].t : i \in DOMAIN g.ops}
        graph == [graph |-> TRUE, op |-> "none", ops |-> g.ops, out |-> g.gop[r]]
    IN  CASE IsGraph(g, r) ->
                IF {"relu", "tanh"} \subseteq types THEN {} ELSE {graph}
          [] ~ IsGraph(g, r) /\ "npu_cached_mm" \in ModuleNames ->
                {Single("npu_cached_mm")}
          [] OTHER ->
                IF Len(body) <= 1 /\ \E i \in DOMAIN SearchOrder : SearchOrder[i] \in ModuleNames
                THEN {Single(FirstFound)} ELSE {}

\* JAX drops the arguments and operations whose values nobody uses.
AllUsed(r) ==
    \A v \in Defined \ {r} : \E i \in DOMAIN body : \E j \in DOMAIN body[i].src : body[i].src[j] = v

\* Bound: beside a matmul, no operation has two constants for operands (the
\* host executor would look up the shape of operand -1).
NoConstantPairBesideDot ==
    LET constant == {i \in DOMAIN body : body[i].op \in {"constant", "broadcast_in_dim"}}
    IN  \/ \A i \in DOMAIN body : body[i].op # "dot_general"
        \/ \A i \in DOMAIN body :
              body[i].op \in Binary =>
                  \E j \in 1 .. 2 : body[i].src[j] - Len(args) \notin constant

Compile ==
    /\ pc = "trace" /\ NoConstantPairBesideDot
    /\ \E r \in Defined :
          /\ AllUsed(r)
          /\ ret' = r
          /\ \/ Executable(r) = {} /\ pc' = "refused" /\ UNCHANGED ex
             \/ pc' = "ready" /\ ex' \in Executable(r)
    /\ UNCHANGED <<args, body, k, ci, lost, mid, out>>

----------------------------------------------------------------------------
(* LoadedExecutable_Execute.                                               *)

HasMatmul == \E i \in DOMAIN ex.ops : ex.ops[i].t = "dot_general"

\* out_dims of npu_exec_graph_host: of the operands of an element-wise
\* operation, the first that is not a constant.
GraphShape ==
    LET shape[i \in DOMAIN ex.ops] ==
            LET o == ex.ops[i]
                of(s) == IF s.from = "arg" THEN args[s.ix] ELSE shape[s.ix]
                data == CHOOSE j \in DOMAIN o.src :
                            /\ o.src[j].from # "const"
                            /\ \A h \in 1 .. j - 1 : o.src[h].from = "const"
            IN  IF o.t = "dot_general" THEN DotShape[<<of(o.src[1]), of(o.src[2])>>]
                ELSE of(o.src[data])
    IN  shape

\* The shapes a matmul of the graph or the single matmul needs a template for.
DotPairs ==
    LET of(s) == IF s.from = "arg" THEN args[s.ix] ELSE GraphShape[s.ix]
    IN  IF ex.op = "dot_general" THEN {<<args[1], args[2]>>}
        ELSE {<<of(ex.ops[i].src[1]), of(ex.ops[i].src[2])>> :
                i \in {h \in DOMAIN ex.ops : ex.ops[h].t = "dot_general"}}

\* npu_exec_graph_host frees the buffers of its arguments, whatever becomes of
\* the run: if JAX passes the same arrays again, it reads the memory that malloc
\* returned.  (Single matmuls get new arrays here: their buffers are in
\* MatmulCache.)
Execute ==
    /\ pc \in {"ready", "done", "failed"}
    /\ \E again \in BOOLEAN :
          /\ again => pc # "ready" /\ ex.op # "dot_general"
          /\ lost' = (again /\ ex.graph /\ HasMatmul)
    /\ pc' = IF DotPairs \subseteq Templates THEN "run" ELSE "failed"
    /\ k' = 1 /\ ci' = 1
    /\ mid' = [i \in DOMAIN ex.ops |-> << >>]
    /\ out' = << >>
    /\ UNCHANGED <<args, body, ret, ex>>

\* What is in the buffer of argument i.
Input(i) == IF lost THEN [c \in 1 .. Chunks[args[i]] |-> <<"undefined">>]
            ELSE ArgumentTensor(args, i)

\* Mutant: an argument is read without the offset of the chunk.
ChunkAtStart(s, before) ==
    CASE s.from = "arg" -> Input(s.ix)[1]
      [] s.from = "const" -> Constant(s.ix)
      [] OTHER -> before

\* The chunk a kernel reads for an operand: from the argument's buffer, from
\* the constant that fills the region, or from mid[].
Chunk(s, before) ==
    CASE s.from = "arg" -> Input(s.ix)[ci]
      [] s.from = "const" -> Constant(s.ix)
      [] OTHER -> before

\* mid[k] holds the chunk that ran last.
DeviceOp ==
    /\ pc = "run" /\ ex.graph /\ ~ HasMatmul
    /\ LET o == ex.ops[k]
           t == [j \in DOMAIN o.src |-> Chunk(o.src[j], mid[o.src[j].ix])]
           last == k = Len(ex.ops)
       IN  /\ mid' = [mid EXCEPT ![k] = Elementwise(o.t, t)]
           /\ k' = IF last THEN 1 ELSE k + 1
           /\ ci' = IF last THEN ci + 1 ELSE ci
           /\ out' = IF last THEN Append(out, mid'[ex.out]) ELSE out
           /\ pc' = IF last /\ ci = Chunks[args[1]] THEN "done" ELSE pc
    /\ UNCHANGED <<args, body, ret, ex, lost>>

\* mid[k] holds the whole result.
HostOp ==
    /\ pc = "run" /\ ex.graph /\ HasMatmul
    /\ LET o == ex.ops[k]
           n == Chunks[GraphShape[k]]
           whole(s) == IF s.from = "arg" THEN Input(s.ix) ELSE mid[s.ix]
           t == [j \in DOMAIN o.src |-> Chunk(o.src[j], mid[o.src[j].ix][ci])]
           last == o.t = "dot_general" \/ ci = n
       IN  /\ mid' = [mid EXCEPT ![k] =
                         IF o.t = "dot_general"
                         THEN Dot(whole(o.src[1]), whole(o.src[2]), GraphShape[k])
                         ELSE Append(@, Elementwise(o.t, t))]
           /\ k' = IF last THEN k + 1 ELSE k
           /\ ci' = IF last THEN 1 ELSE ci + 1
           /\ IF last /\ k = Len(ex.ops)
              THEN pc' = "done" /\ out' = mid'[ex.out]
              ELSE UNCHANGED <<pc, out>>
    /\ UNCHANGED <<args, body, ret, ex, lost>>

\* Mutant: both inputs are the first argument.
InFirst(i) == Input(1)

\* in0 and in1 are the first two entries of the argument list.  A function of
\* one argument has no second entry: what is read there is undefined.
In(i) == IF i <= Len(args) THEN Input(i)
         ELSE [c \in 1 .. Chunks[args[1]] |-> <<"undefined">>]

SingleOp ==
    /\ pc = "run" /\ ~ ex.graph
    /\ IF ex.op \in {"dot_general", "npu_cached_mm"}
       THEN /\ pc' = "done"
            /\ out' = IF ex.op = "npu_cached_mm" THEN CachedDot(In(1), args[1])
                      ELSE Dot(In(1), In(2), DotShape[<<args[1], args[2]>>])
       ELSE /\ out' = Append(out,
                  Elementwise(IF ex.op = "maximum" THEN "relu" ELSE ex.op,
                              <<In(1)[ci], In(2)[ci]>>))
            /\ pc' = IF ci = Chunks[args[1]] THEN "done" ELSE pc
    /\ ci' = ci + 1
    /\ UNCHANGED <<args, body, ret, ex, k, lost, mid>>

SubmitFails ==
    /\ pc = "run" /\ pc' = "failed"
    /\ UNCHANGED <<args, body, ret, ex, k, ci, lost, mid, out>>

\* JAX drops the executable and lowers another function.
Drop ==
    /\ pc # "run"
    /\ pc' = "trace" /\ args' \in ArgLists /\ body' = << >> /\ ret' = 0
    /\ ex' = NoExecutable /\ k' = 0 /\ ci' = 0 /\ lost' = FALSE /\ mid' = << >> /\ out' = << >>

Next == Trace \/ Compile \/ Execute \/ DeviceOp \/ HostOp \/ SingleOp \/ SubmitFails \/ Drop
Spec == Init /\ [][Next]_vars

----------------------------------------------------------------------------
(* Properties.                                                             *)

Before(i, s) ==
    CASE s.from = "arg" -> s.ix \in DOMAIN args
      [] s.from = "op" -> s.ix \in 1 .. i - 1
      [] OTHER -> s.from = "const" /\ s.ix \in {"zero", "one"}

\* Every variable has its type: an executable's operations read arguments
\* that exist and operations that ran before.
TypeOK ==
    /\ pc \in {"trace", "ready", "refused", "run", "done", "failed"}
    /\ args \in ArgLists
    /\ Len(body) <= MaxOps
    /\ ret \in 0 .. Len(args) + Len(body)
    /\ \A i \in DOMAIN ex.ops :
          /\ ex.ops[i].t \in Binary \cup {"relu", "tanh", "dot_general"}
          /\ \A j \in DOMAIN ex.ops[i].src : Before(i, ex.ops[i].src[j])
    /\ ex.out \in 0 .. Len(ex.ops) /\ (ex.graph => ex.out # 0)
    /\ Len(ex.ops) <= GraphCap
    /\ k \in Nat /\ ci \in Nat /\ lost \in BOOLEAN
    /\ pc \in {"run", "done", "failed"} => DOMAIN mid = DOMAIN ex.ops

Meaning == Values(args, body)[ret]

\* An executable that was lowered to a graph returns what the function means,
\* each time it runs to its end on buffers that still hold its arguments: the
\* constants that are baked and the renumbering of the operations lose nothing,
\* and no chunk gets an intermediate result of another (npu_parse_graph and the
\* two graph executors).
FusedCorrect == pc = "done" /\ ex.graph /\ ~ lost => out = Meaning

\* One operation of the documented table on the arguments in their order: the
\* paths of a single operation never look at its operands, so they compute
\* a - b for a function of a and b that returns b - a.
InOrder ==
    /\ Len(body) = 1
    /\ body[1].op \in Binary \cup {"tanh", "dot_general", "relu_call", "npu_cached_mm"}
    /\ body[1].src = [i \in DOMAIN args |-> i]

\* An executable of such a function returns what the function means (the
\* search for names and the paths of a single operation).
SingleCorrect == pc = "done" /\ InOrder => out = Meaning

\* "Unsupported programs fail with a clear error message" (JAX_NPU_PLUGIN.md
\* 178-179): what compiles to a single operation returns what the function means,
\* whatever its operands are and whatever it calls.  The code does not keep it.
SingleNotWrong == pc = "done" /\ ~ ex.graph => out = Meaning

\* What the graph executors can take, said of the values: the value returned
\* is computed, each operation is one they have, a relu is a maximum with zero,
\* only binary operations read constants, and those are splats.
Fusable ==
    LET value == Values(args, body)
        kind(v) == value[v][1][1]
        baked(v) == kind(v) \in {"const", "table"}
        computed == {i \in DOMAIN body : ~ baked(Len(args) + i)}
        first(i) == body[i].src[1]
        second(i) == body[i].src[2]
        relus == {i \in computed : body[i].op = "maximum"}
        tanhs == {i \in computed : body[i].op = "tanh"}
        takes(i) ==
            CASE body[i].op \in Binary -> "table" \notin {kind(first(i)), kind(second(i))}
              [] body[i].op = "maximum" ->
                    /\ kind(Len(args) + i) = "relu"
                    /\ ~ (baked(first(i)) /\ baked(second(i)))
              [] body[i].op \in {"tanh", "dot_general"} ->
                    \A j \in DOMAIN body[i].src : ~ baked(body[i].src[j])
              [] OTHER -> FALSE
    IN  /\ ret - Len(args) \in computed
        /\ \A i \in computed : takes(i)
        /\ relus = {} \/ tanhs = {}
        /\ Len(body) <= BodyCap /\ Cardinality(computed) <= GraphCap

\* The function has one operation beside its constants, a maximum.
LoneMaximum ==
    \E i \in DOMAIN body :
        /\ body[i].op = "maximum"
        /\ \A j \in DOMAIN body \ {i} : body[j].op \in {"constant", "broadcast_in_dim"}

\* Compile refuses no function that the graph executors can take, be it as a
\* graph ("Supports linear chains and DAGs", docs/ARCHITECTURE.md) or on the
\* path of a single operation.  The exception, a maximum with zero and nothing
\* else, is LoneReluAccepted.
FusableAccepted == pc = "refused" /\ Fusable => LoneMaximum

\* "jnp.maximum(x, 0) | stablehlo.max | OP_MAX | Template (relu)", of the
\* supported operations (docs/JAX_NPU_PLUGIN.md 167): it compiles.  The code does
\* not keep it.
LoneReluAccepted == pc = "refused" => ~ (Fusable /\ LoneMaximum)
=============================================================================
