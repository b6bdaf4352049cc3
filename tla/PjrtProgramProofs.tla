-------------------------- MODULE PjrtProgramProofs --------------------------
(***************************************************************************)
(* Theorems about PjrtProgram, for functions of any length over any        *)
(* shapes: what npu_parse_graph makes of a function, and what the          *)
(* executors make of that, is what the function means.                     *)
(***************************************************************************)
EXTENDS PjrtProgram, Integers, FiniteSetTheorems, WellFoundedInduction, TLAPS

(***************************************************************************)
(* Induction along a function, for the set of the positions that are right.*)
(***************************************************************************)

LEMMA Least ==
    ASSUME NEW T, T \in SUBSET Nat, T # {}
    PROVE  \E x \in T : \A y \in T : x <= y
<1> DEFINE R == OpToRel(<, Nat)
<1>1. IsWellFoundedOn(R, Nat)
  BY NatLessThanWellFounded
<1>2. R = {ss \in Nat \X Nat : ss[1] < ss[2]}
  BY DEF OpToRel
<1> HIDE DEF R
<1>3. PICK x \in T : \A y \in T : ~ (<<y, x>> \in R)
  BY <1>1, WFMin
<1>4. ASSUME NEW y \in T PROVE x <= y
  <2>1. x \in Nat /\ y \in Nat
    OBVIOUS
  <2>2. ~(y < x)
    BY <1>2, <1>3, <2>1
  <2>3. QED
    BY <2>1, <2>2
<1>5. QED
  BY <1>4

LEMMA Induct ==
    ASSUME NEW n \in Nat, NEW S, 0 \in S, \A i \in 0 .. n - 1 : i \in S => i + 1 \in S
    PROVE  0 .. n \subseteq S
<1> DEFINE T == {i \in 0 .. n : i \notin S}
<1>1. T \in SUBSET Nat
  OBVIOUS
<1>2. ASSUME T # {} PROVE FALSE
  <2>1. PICK x \in T : \A y \in T : x <= y
    BY <1>1, <1>2, Least
  <2>2. x # 0 /\ x \in 0 .. n /\ x \notin S
    OBVIOUS
  <2>3. x - 1 \in S
    BY <2>1, <2>2
  <2>4. QED
    BY <2>2, <2>3, <2>1
<1>3. QED
  BY <1>2

(***************************************************************************)
(* The functions JAX lowers.                                               *)
(***************************************************************************)
Last == Len(args) + Len(body)
Op == [op : TracedOps, src : Seq(Nat), val : {"none", "zero", "one", "table"}, shape : DOMAIN Chunks]

\* The operands of o: m values before rv.
Earlier(o, rv, m) == DOMAIN o.src = 1 .. m /\ \A j \in 1 .. m : o.src[j] \in 1 .. rv - 1

\* An operation for the value rv that StableHLO's types allow.
LegalOp(o, rv) ==
    \/ /\ o.op \in Binary \cup {"maximum"} /\ Earlier(o, rv, 2)
       /\ \A j \in 1 .. 2 : Shape(o.src[j]) = o.shape
    \/ o.op \in Unary /\ Earlier(o, rv, 1) /\ Shape(o.src[1]) = o.shape
    \/ /\ o.op = "dot_general" /\ Earlier(o, rv, 2)
       /\ <<Shape(o.src[1]), Shape(o.src[2])>> \in DOMAIN DotShape
       /\ o.shape = DotShape[<<Shape(o.src[1]), Shape(o.src[2])>>]
    \/ o.op = "constant" /\ Earlier(o, rv, 0) /\ o.val \in {"zero", "one", "table"}
    \/ o.op = "broadcast_in_dim" /\ Earlier(o, rv, 1)

Function ==
    /\ args \in Seq(DOMAIN Chunks) /\ Len(args) \in 1 .. 8
    /\ body \in Seq(Op)
    /\ \A i \in 1 .. Len(body) : LegalOp(body[i], Len(args) + i)

LEMMA FunctionInit == Init => Function
  BY ProgramAssumption DEF Init, Function

\* What Typed allows next is legal.
LEMMA TypedIsLegal ==
    ASSUME Function, NEW o \in Typed, o.op \in TracedOps
    PROVE  o \in Op /\ LegalOp(o, Len(args) + Len(body) + 1)
<1>1. /\ Len(args) \in Nat /\ Len(body) \in Nat /\ DOMAIN args = 1 .. Len(args)
      /\ \A v \in 1 .. Len(args) : args[v] \in DOMAIN Chunks
      /\ \A i \in 1 .. Len(body) : body[i] \in Op
  BY DEF Function
<1>2. \A v \in Defined : Shape(v) \in DOMAIN Chunks
  BY <1>1 DEF Defined, Shape, ShapeOf, Op
<1>3. CASE \E op \in Binary \cup {"maximum"} : \E x \in Tensors : \E y \in Tensors :
                 \E s \in DOMAIN Chunks :
              /\ o = Operation(op, <<x, y>>, "none", s)
              /\ \A j \in DOMAIN o.src : Shape(o.src[j]) = o.shape
  BY <1>1, <1>3 DEF Op, Operation, Tensors, Defined, LegalOp, Earlier
<1>4. CASE \E op \in Unary : \E x \in Tensors : \E s \in DOMAIN Chunks :
              /\ o = Operation(op, <<x>>, "none", s)
              /\ \A j \in DOMAIN o.src : Shape(o.src[j]) = o.shape
  BY <1>1, <1>4 DEF Op, Operation, Tensors, Defined, LegalOp, Earlier
<1>5. CASE \E p \in Defined \X Defined :
              /\ <<Shape(p[1]), Shape(p[2])>> \in DOMAIN DotShape
              /\ o = Operation("dot_general", p, "none", DotShape[<<Shape(p[1]), Shape(p[2])>>])
  <2>1. PICK x \in Defined, y \in Defined :
              /\ <<Shape(x), Shape(y)>> \in DOMAIN DotShape
              /\ o = Operation("dot_general", <<x, y>>, "none", DotShape[<<Shape(x), Shape(y)>>])
    BY <1>5
  <2>2. DotShape[<<Shape(x), Shape(y)>>] \in DOMAIN Chunks
    BY <2>1, ShapeAssumption DEF ShapeAssumption
  <2>3. QED
    BY <1>1, <2>1, <2>2 DEF Op, Operation, Defined, LegalOp, Earlier
<1>6. CASE \E val \in {"zero", "one", "table"} : \E s \in DOMAIN Chunks :
              o = Operation("constant", <<>>, val, s)
  BY <1>1, <1>6 DEF Op, Operation, LegalOp, Earlier
<1>7. CASE \E x \in Defined : \E s \in DOMAIN Chunks :
              o = Operation("broadcast_in_dim", <<x>>, "none", s)
  BY <1>1, <1>7 DEF Op, Operation, Defined, LegalOp, Earlier
<1>8. QED
  BY <1>3, <1>4, <1>5, <1>6, <1>7, SMTT(40) DEF Typed, Legal

LEMMA FunctionStep == Function /\ [Next]_vars => Function'
<1> SUFFICES ASSUME Function, [Next]_vars PROVE Function'
  OBVIOUS
<1>1. CASE UNCHANGED <<args, body>>
  BY <1>1 DEF Function, LegalOp, Earlier, Shape
<1>2. CASE Trace
  <2>1. PICK o \in Typed : o.op \in TracedOps /\ body' = Append(body, o)
    BY <1>2 DEF Trace
  <2>2. args' = args
    BY <1>2 DEF Trace
  <2>3. o \in Op /\ LegalOp(o, Len(args) + Len(body) + 1)
    BY <2>1, TypedIsLegal
  <2>4. /\ body \in Seq(Op) /\ Len(body) \in Nat /\ Len(args) \in Nat
    BY DEF Function
  <2>5. /\ body' \in Seq(Op) /\ Len(body') = Len(body) + 1
        /\ \A i \in 1 .. Len(body) : body'[i] = body[i]
        /\ body'[Len(body) + 1] = o
    BY <2>1, <2>3, <2>4
  <2>6. \A v \in 1 .. Len(args) + Len(body) : Shape(v)' = Shape(v)
    BY <2>2, <2>4, <2>5 DEF Shape, ShapeOf
  <2>7. ASSUME NEW q, NEW rv \in 1 .. Len(args) + Len(body) + 1, LegalOp(q, rv)
        PROVE  LegalOp(q, rv)'
    <3>1. \A j \in DOMAIN q.src : q.src[j] \in 1 .. rv - 1 => Shape(q.src[j])' = Shape(q.src[j])
      BY <2>4, <2>6
    <3>2. QED
      BY <2>7, <3>1 DEF LegalOp, Earlier
  <2>8. ASSUME NEW i \in 1 .. Len(body')
        PROVE  LegalOp(body[i], Len(args) + i)'
    <3>1. CASE i <= Len(body)
      <4>1. LegalOp(body[i], Len(args) + i) /\ Len(args) + i \in 1 .. Len(args) + Len(body) + 1
        BY <2>4, <3>1 DEF Function
      <4>2. body'[i] = body[i] /\ Len(args') + i = Len(args) + i
        BY <2>2, <2>5, <3>1
      <4>3. QED
        BY <2>7, <4>1, <4>2
    <3>2. CASE i = Len(body) + 1
      <4>1. body'[i] = o /\ Len(args') + i = Len(args) + Len(body) + 1
        BY <2>2, <2>4, <2>5, <3>2
      <4>2. Len(args) + Len(body) + 1 \in 1 .. Len(args) + Len(body) + 1
        BY <2>4
      <4>3. QED
        BY <2>3, <2>7, <4>1, <4>2
    <3>3. QED
      BY <2>4, <2>5, <3>1, <3>2
  <2>9. QED
    BY <2>2, <2>5, <2>8 DEF Function
<1>3. CASE Drop
  BY <1>3, ProgramAssumption DEF Drop, Function
<1>4. QED
  BY <1>1, <1>2, <1>3, Zenon DEF Next, Compile, Execute, DeviceOp, HostOp, SingleOp, SubmitFails, vars

(***************************************************************************)
(* What a function means: the recursive Values satisfies its equation.     *)
(***************************************************************************)
V == Values(args, body)

\* The tensor of the value v, from those in f.
TensorOf(f, v) ==
    IF v <= Len(args) THEN ArgumentTensor(args, v) ELSE Result(body[v - Len(args)], f)
TensorsTo(f, m) == [v \in 1 .. m |-> TensorOf(f, v)]

\* It depends on earlier values only.
LEMMA ResultLocal ==
    ASSUME Function, NEW v \in 1 .. Last, NEW f, NEW g, \A u \in 1 .. v - 1 : f[u] = g[u]
    PROVE  TensorOf(f, v) = TensorOf(g, v)
<1>1. Len(args) \in Nat /\ Len(body) \in Nat
  BY DEF Function
<1>2. CASE v > Len(args)
  <2> DEFINE o == body[v - Len(args)]
  <2>1. LegalOp(o, v)
    <3>1. v - Len(args) \in 1 .. Len(body) /\ Len(args) + (v - Len(args)) = v
      BY <1>1, <1>2 DEF Last
    <3>2. QED
      BY <3>1 DEF Function
  <2>2. Result(o, f) = Result(o, g)
    <3>1. \A j \in DOMAIN o.src : f[o.src[j]] = g[o.src[j]]
      BY <2>1 DEF LegalOp, Earlier
    <3>2. o.op \in {"broadcast_in_dim", "npu_cached_mm"} => 1 \in DOMAIN o.src
      BY <2>1 DEF LegalOp, Earlier, Binary, Unary
    <3>3. o.op = "dot_general" => 1 \in DOMAIN o.src /\ 2 \in DOMAIN o.src
      BY <2>1 DEF LegalOp, Earlier, Binary, Unary
    <3> HIDE DEF o
    <3>4. \A c : [j \in DOMAIN o.src |-> f[o.src[j]][c]] = [j \in DOMAIN o.src |-> g[o.src[j]][c]]
      BY <3>1
    <3>5. QED
      BY <3>1, <3>2, <3>3, <3>4 DEF Result
  <2>3. QED
    BY <1>1, <1>2, <2>2 DEF TensorOf
<1>3. CASE v <= Len(args)
  BY <1>3 DEF TensorOf
<1>4. QED
  BY <1>1, <1>2, <1>3 DEF Last

LEMMA TensorsExist ==
    ASSUME Function
    PROVE  \E f : f = TensorsTo(f, Last)
<1> DEFINE S == {m \in 0 .. Last : \E f : f = TensorsTo(f, m)}
<1>1. Last \in Nat
  BY DEF Function, Last
<1>2. 0 \in S
  <2>1. <<>> = TensorsTo(<<>>, 0)
    BY DEF TensorsTo
  <2>2. QED
    BY <1>1, <2>1
<1>3. ASSUME NEW m \in 0 .. Last - 1, m \in S PROVE m + 1 \in S
  <2>1. PICK f : f = TensorsTo(f, m)
    BY <1>3
  <2> DEFINE g == [v \in 1 .. m + 1 |-> TensorOf(f, v)]
  <2>2. g = [v \in 1 .. m + 1 |-> TensorOf(f, v)]
    OBVIOUS
  <2> HIDE DEF g
  <2>3. \A u \in 1 .. m : f[u] = g[u]
    BY <2>1, <2>2 DEF TensorsTo
  <2>4. ASSUME NEW v \in 1 .. m + 1 PROVE TensorOf(f, v) = TensorOf(g, v)
    <3>1. v \in 1 .. Last /\ \A u \in 1 .. v - 1 : f[u] = g[u]
      BY <1>1, <2>3
    <3>2. QED
      BY <3>1, ResultLocal
  <2>5. g = TensorsTo(g, m + 1)
    BY <2>2, <2>4 DEF TensorsTo
  <2>6. QED
    BY <1>1, <2>5
<1>4. 0 .. Last \subseteq S
  <2> HIDE DEF S
  <2>1. QED
    BY <1>1, <1>2, <1>3, Induct
<1>5. QED
  BY <1>1, <1>4

LEMMA ValuesAre ==
    ASSUME Function
    PROVE  /\ DOMAIN V = 1 .. Last
           /\ \A v \in 1 .. Last : V[v] = TensorOf(V, v)
<1> DEFINE F(g) == TensorsTo(g, Last)
<1>1. V = CHOOSE g : g = F(g)
  BY DEF V, Values, TensorsTo, TensorOf, Last
<1>2. PICK f : f = F(f)
  BY TensorsExist
<1> HIDE DEF F
<1>3. (CHOOSE g : g = F(g)) = F(CHOOSE g : g = F(g))
  BY <1>2
<1>4. V = F(V)
  BY <1>1, <1>3
<1>5. QED
  BY <1>4 DEF F, TensorsTo

(***************************************************************************)
(* npu_parse_graph, operation by operation.                                *)
(***************************************************************************)
Kinds == Binary \cup {"relu", "tanh", "dot_general"}
GraphSrc == [from : {"arg", "op", "const"}, ix : Nat \cup {"zero", "one"}]
GraphOp == [t : Kinds, src : Seq(GraphSrc)]
Tables == [ok : BOOLEAN, ops : Seq(GraphOp), hasConst : BOOLEAN,
           gop : [Defined -> Nat], cval : [Defined -> {"none", "zero", "one", "table"}]]

\* The tables after each operation.
Lowering == CHOOSE g : g = [i \in 0 .. Len(body) |->
                                IF i = 0 THEN NothingLowered ELSE LowerOp(g[i - 1], i)]

\* The operation of the graph that computes v.
Emitted(g, v, t, src) ==
    g.gop[v] # 0 /\ g.cval[v] = "none" /\ g.ops[g.gop[v]] = [t |-> t, src |-> src]
Data(g, v) == g.cval[v] = "none" /\ Readable(g, v)
Operand(g, v) == IF g.cval[v] # "none" THEN FromConst(g.cval[v]) ELSE Source(g, v)
Baked(g, v) == g.cval[v] \in {"zero", "one"}

\* The operand of a maximum that is not the zero.
Relu(g, o, j) == g.cval[o.src[3 - j]] = "zero" /\ Data(g, o.src[j])

\* An operation that is not a constant, as one of the graph.
AsGraphOp(g, o, t, src) ==
    \/ o.op = "maximum" /\ \E j \in 1 .. 2 :
            Relu(g, o, j) /\ t = "relu" /\ src = <<Source(g, o.src[j])>>
    \/ o.op = "tanh" /\ Data(g, o.src[1]) /\ t = "tanh" /\ src = <<Source(g, o.src[1])>>
    \/ /\ o.op = "dot_general" /\ \A j \in 1 .. 2 : Data(g, o.src[j])
       /\ t = "dot_general" /\ src = [j \in 1 .. 2 |-> Source(g, o.src[j])]
    \/ /\ o.op \in Binary /\ \A j \in 1 .. 2 : Baked(g, o.src[j]) \/ Data(g, o.src[j])
       /\ t = o.op /\ src = [j \in 1 .. 2 |-> Operand(g, o.src[j])]

\* What the tables hold of the operation o of the value v.
Translates(g, v, o) ==
    \/ o.op = "constant" /\ g.gop[v] = 0 /\ g.cval[v] = o.val
    \/ o.op = "broadcast_in_dim" /\ g.gop[v] = 0 /\ g.cval[v] = g.cval[o.src[1]]
    \/ \E t, src : AsGraphOp(g, o, t, src) /\ Emitted(g, v, t, src)

ReadsConst(g, o) == o.op \in Binary /\ \E j \in 1 .. 2 : Baked(g, o.src[j])

\* The operations of the graph are numbered in the order of the values.
Numbered(g) ==
    /\ \A v \in Defined : g.gop[v] <= Len(g.ops) /\ (g.gop[v] # 0 => g.cval[v] = "none")
    /\ \A k2 \in 1 .. Len(g.ops) : \E v \in Defined : g.gop[v] = k2
    /\ \A u, v \in Defined : u < v /\ g.gop[u] # 0 /\ g.gop[v] # 0 => g.gop[u] < g.gop[v]

\* What holds of the tables after i operations.
LoweredTo(g, i) ==
    /\ Len(g.ops) <= GraphCap
    /\ \A v \in Defined : v \notin Len(args) + 1 .. Len(args) + i =>
                              g.gop[v] = 0 /\ g.cval[v] = "none"
    /\ Numbered(g)
    /\ \A j \in 1 .. i : Translates(g, Len(args) + j, body[j])
    /\ g.hasConst <=> \E j \in 1 .. i : ReadsConst(g, body[j])

LEMMA LoweringIs ==
    ASSUME Function
    PROVE  /\ Lowering[0] = NothingLowered
           /\ \A i \in 1 .. Len(body) : Lowering[i] = LowerOp(Lowering[i - 1], i)
           /\ Lowered = Lowering[Len(body)]
<1> DEFINE F(g, m) == [i \in 0 .. m |-> IF i = 0 THEN NothingLowered ELSE LowerOp(g[i - 1], i)]
           S == {m \in 0 .. Len(body) : \E g : g = F(g, m)}
<1>1. Len(body) \in Nat
  BY DEF Function
<1>2. 0 \in S
  <2> DEFINE h == [i \in 0 .. 0 |-> NothingLowered]
  <2>1. h = [i \in 0 .. 0 |-> NothingLowered]
    OBVIOUS
  <2> HIDE DEF h
  <2>2. \A i \in 0 .. 0 : h[i] = IF i = 0 THEN NothingLowered ELSE LowerOp(h[i - 1], i)
    BY <2>1
  <2>3. h = F(h, 0)
    BY <2>1, <2>2
  <2>4. QED
    BY <1>1, <2>3
<1>3. ASSUME NEW m \in 0 .. Len(body) - 1, m \in S PROVE m + 1 \in S
  <2>1. PICK g : g = F(g, m)
    BY <1>3
  <2> DEFINE h == [i \in 0 .. m + 1 |-> IF i = 0 THEN NothingLowered ELSE LowerOp(g[i - 1], i)]
  <2>2. h = [i \in 0 .. m + 1 |-> IF i = 0 THEN NothingLowered ELSE LowerOp(g[i - 1], i)]
    OBVIOUS
  <2> HIDE DEF h
  <2>3. \A i \in 0 .. m : g[i] = h[i]
    BY <2>1, <2>2
  <2>4. \A i \in 1 .. m + 1 : g[i - 1] = h[i - 1]
    BY <2>3
  <2>5. \A i \in 0 .. m + 1 : (IF i = 0 THEN NothingLowered ELSE LowerOp(g[i - 1], i))
                               = (IF i = 0 THEN NothingLowered ELSE LowerOp(h[i - 1], i))
    BY <2>4
  <2>6. h = F(h, m + 1)
    BY <2>2, <2>5
  <2>7. QED
    BY <1>1, <2>6
<1>4. 0 .. Len(body) \subseteq S
  <2> HIDE DEF S
  <2>1. QED
    BY <1>1, <1>2, <1>3, Induct
<1>5. PICK f : f = F(f, Len(body))
  BY <1>1, <1>4
<1>6. Lowering = CHOOSE g : g = F(g, Len(body))
  BY DEF Lowering
<1>7. Lowered = Lowering[Len(body)]
  BY DEF Lowered, Lowering
<1> HIDE DEF F
<1>8. (CHOOSE g : g = F(g, Len(body))) = F(CHOOSE g : g = F(g, Len(body)), Len(body))
  BY <1>5
<1>9. Lowering = F(Lowering, Len(body))
  BY <1>6, <1>8
<1>10. QED
  BY <1>1, <1>7, <1>9 DEF F

(***************************************************************************)
(* One operation.                                                          *)
(***************************************************************************)
LEMMA FunctionIs ==
    ASSUME Function
    PROVE  /\ Len(args) \in Nat /\ Len(args) >= 1 /\ Len(body) \in Nat /\ Last \in Nat
           /\ Defined = 1 .. Last /\ Last = Len(args) + Len(body)
           /\ \A i \in 1 .. Len(body) : body[i] \in Op /\ LegalOp(body[i], Len(args) + i)
           /\ \A v \in Defined : Shape(v) \in DOMAIN Chunks
           /\ GraphCap \in Nat
<1>1. /\ args \in Seq(DOMAIN Chunks) /\ body \in Seq(Op) /\ Len(args) \in 1 .. 8
      /\ \A i \in 1 .. Len(body) : LegalOp(body[i], Len(args) + i)
  BY DEF Function
<1>2. /\ \A i \in 1 .. Len(body) : body[i] \in Op
      /\ \A i \in 1 .. Len(args) : args[i] \in DOMAIN Chunks
  BY <1>1
<1>3. \A i \in 1 .. Len(body) : body[i].shape \in DOMAIN Chunks
  BY <1>2 DEF Op
<1>4. /\ Len(args) \in Nat /\ Len(args) >= 1 /\ Len(body) \in Nat /\ Last \in Nat
      /\ Defined = 1 .. Last /\ Last = Len(args) + Len(body)
  <2>1. Len(args) \in Nat /\ Len(args) >= 1
    <3>1. PICK n \in 1 .. 8 : Len(args) = n
      BY <1>1
    <3>2. n \in Nat /\ n >= 1
      OBVIOUS
    <3>3. QED
      BY <3>1, <3>2
  <2>4. Len(body) \in Nat
    <3>1. body \in Seq(Op)
      BY <1>1
    <3>2. QED
      BY <3>1
  <2>2. Last = Len(args) + Len(body) /\ Defined = 1 .. Last
    BY DEF Last, Defined
  <2>3. QED
    BY <2>1, <2>2, <2>4
<1>5. \A v \in Defined : Shape(v) \in DOMAIN Chunks
  BY <1>2, <1>3, <1>4 DEF Shape, ShapeOf
<1>6. GraphCap \in Nat
  BY ProgramAssumption
<1>7. QED
  BY <1>1, <1>2, <1>4, <1>5, <1>6

AddsOp(g, h, rv, t, src) ==
    /\ h \in Tables /\ h.ok /\ Len(g.ops) < GraphCap
    /\ h.ops = Append(g.ops, [t |-> t, src |-> src])
    /\ h.gop = [g.gop EXCEPT ![rv] = Len(g.ops) + 1]
    /\ h.cval = g.cval
AddsConst(g, h, rv, c) ==
    /\ h \in Tables /\ h.ok
    /\ h.ops = g.ops /\ h.gop = g.gop /\ h.cval = [g.cval EXCEPT ![rv] = c]
    /\ h.hasConst = g.hasConst

LEMMA EmitIs ==
    ASSUME NEW g \in Tables, g.ok, NEW rv \in Defined, NEW t \in Kinds, NEW src \in Seq(GraphSrc),
           NEW h, h = Emit(g, rv, t, src), GraphCap \in Nat
    PROVE  /\ h \in Tables
           /\ h.ok <=> Len(g.ops) < GraphCap
           /\ h.ok => AddsOp(g, h, rv, t, src) /\ h.hasConst = g.hasConst
<1>1. /\ g.ops \in Seq(GraphOp) /\ Len(g.ops) \in Nat /\ g.gop \in [Defined -> Nat]
      /\ g.cval \in [Defined -> {"none", "zero", "one", "table"}] /\ g.hasConst \in BOOLEAN
  BY DEF Tables
<1>2. [t |-> t, src |-> src] \in GraphOp
  BY DEF GraphOp
<1>3. CASE Len(g.ops) >= GraphCap
  <2>1. h = [g EXCEPT !.ok = FALSE]
    BY <1>3 DEF Emit, Refuse
  <2>2. h = [ok |-> FALSE, ops |-> g.ops, hasConst |-> g.hasConst, gop |-> g.gop, cval |-> g.cval]
    BY <2>1 DEF Tables
  <2>3. h \in Tables /\ h.ok = FALSE
    BY <1>1, <2>2 DEF Tables
  <2>4. QED
    BY <1>1, <1>3, <2>3
<1>4. CASE Len(g.ops) < GraphCap
  <2>1. h = [g EXCEPT !.ops = Append(@, [t |-> t, src |-> src]), !.gop[rv] = Len(g.ops) + 1]
    BY <1>1, <1>4 DEF Emit
  <2>2. /\ h.ops = Append(g.ops, [t |-> t, src |-> src])
        /\ h.gop = [g.gop EXCEPT ![rv] = Len(g.ops) + 1]
        /\ h.cval = g.cval /\ h.ok = TRUE /\ h.hasConst = g.hasConst
    BY <2>1 DEF Tables
  <2>3. h.ops \in Seq(GraphOp) /\ h.gop \in [Defined -> Nat]
    BY <1>1, <1>2, <2>2
  <2>4. h \in Tables
    <3>1. h = [ok |-> h.ok, ops |-> h.ops, hasConst |-> h.hasConst, gop |-> h.gop, cval |-> h.cval]
      BY <2>1 DEF Tables
    <3>2. QED
      BY <1>1, <2>2, <2>3, <3>1 DEF Tables
  <2>5. QED
    BY <1>4, <2>2, <2>4 DEF AddsOp
<1>5. QED
  BY <1>1, <1>3, <1>4

LEMMA RefuseIs ==
    ASSUME NEW g \in Tables
    PROVE  Refuse(g) \in Tables /\ Refuse(g).ok = FALSE
<1>1. Refuse(g) = [ok |-> FALSE, ops |-> g.ops, hasConst |-> g.hasConst, gop |-> g.gop, cval |-> g.cval]
  <2>1. Refuse(g) = [g EXCEPT !.ok = FALSE]
    BY DEF Refuse
  <2>2. QED
    BY <2>1 DEF Tables
<1>2. QED
  BY <1>1 DEF Tables

LEMMA SourceIs ==
    ASSUME NEW g \in Tables, NEW v \in Defined, Function
    PROVE  Source(g, v) \in GraphSrc
  BY FunctionIs DEF Tables, Source, FromArg, FromOp, GraphSrc

LEMMA MaximumIs ==
    ASSUME NEW g, NEW rv, NEW o,
           \A j \in 1 .. 2 : Readable(g, o.src[j]) => g.cval[o.src[j]] = "none"
    PROVE  /\ \A j \in 1 .. 2 : Relu(g, o, j) =>
                  LowerMaximum(g, rv, o) = Emit(g, rv, "relu", <<Source(g, o.src[j])>>)
           /\ (\A j \in 1 .. 2 : ~ Relu(g, o, j)) => LowerMaximum(g, rv, o) = Refuse(g)
<1> DEFINE baked == {j \in 1 .. 2 : g.cval[o.src[j]] # "none"}
           other == CHOOSE j \in 1 .. 2 : j \notin baked
           ok == /\ Cardinality(baked) = 1
                 /\ \A j \in baked : g.cval[o.src[j]] = "zero"
                 /\ Readable(g, o.src[other])
<1>1. LowerMaximum(g, rv, o) = IF ok THEN Emit(g, rv, "relu", <<Source(g, o.src[other])>>)
                               ELSE Refuse(g)
  BY DEF LowerMaximum
<1>2. ASSUME NEW j \in 1 .. 2, Relu(g, o, j) PROVE ok /\ other = j
  <2>1. baked = {3 - j}
    BY <1>2 DEF Relu, Data
  <2>2. Cardinality(baked) = 1
    BY <2>1, FS_Singleton
  <2>3. other = j
    <3> HIDE DEF baked
    <3>1. QED
      BY <2>1
  <2>4. Readable(g, o.src[j]) /\ \A q \in baked : g.cval[o.src[q]] = "zero"
    BY <1>2, <2>1, Zenon DEF Relu, Data
  <2>5. QED
    BY <2>2, <2>3, <2>4
<1>3. ASSUME ok PROVE Relu(g, o, other) /\ other \in 1 .. 2
  <2>1. PICK x : baked = {x}
    <3>1. IsFiniteSet(baked)
      <4>1. IsFiniteSet(1 .. 2)
        <5>1. 1 \in Int /\ 2 \in Int
          OBVIOUS
        <5>2. QED
          BY <5>1, FS_Interval, Zenon
      <4>3. baked \subseteq 1 .. 2
        OBVIOUS
      <4> HIDE DEF baked
      <4>2. QED
        BY <4>1, <4>3, FS_Subset
    <3>2. Cardinality(baked) = 1
      BY <1>3
    <3> HIDE DEF baked
    <3>3. QED
      BY <3>1, <3>2, FS_Singleton
  <2>2. x \in 1 .. 2
    BY <2>1
  <2>3. other = 3 - x
    <3>1. x \in baked /\ 3 - x \in 1 .. 2 /\ 3 - x \notin baked
      BY <2>1, <2>2
    <3> HIDE DEF baked
    <3>2. QED
      BY <2>1, <2>2, <3>1
  <2>4. g.cval[o.src[x]] = "zero" /\ x = 3 - other /\ other \in 1 .. 2
    BY <1>3, <2>1, <2>2, <2>3
  <2>5. QED
    BY <1>3, <2>4 DEF Relu, Data
<1>4. QED
  <2> HIDE DEF ok, other
  <2>1. QED
    BY <1>1, <1>2, <1>3

\* The tables before the operation of rv, and an operation that may come next.
Ready(g, rv, o) ==
    /\ g \in Tables /\ g.ok /\ rv \in Defined /\ o \in Op /\ LegalOp(o, rv)
    /\ \A v \in Defined : Readable(g, v) => g.cval[v] = "none"

LEMMA ReadyIs ==
    ASSUME Function, NEW g, NEW rv, NEW o, Ready(g, rv, o)
    PROVE  /\ \A j \in DOMAIN o.src : o.src[j] \in 1 .. rv - 1 /\ o.src[j] \in Defined
           /\ \A v \in Defined : g.cval[v] \in {"none", "zero", "one", "table"}
           /\ \A v \in Defined : g.gop[v] \in Nat
           /\ o.op \in Binary \cup {"maximum", "dot_general"} => DOMAIN o.src = 1 .. 2
           /\ o.op \in Unary \cup {"broadcast_in_dim"} => DOMAIN o.src = 1 .. 1
<1>1. g \in Tables /\ LegalOp(o, rv) /\ rv \in Defined
  BY DEF Ready
<1>2. Defined = 1 .. Last /\ Last \in Nat
  BY FunctionIs
<1>3. /\ o.op \in Binary \cup {"maximum", "dot_general"} => DOMAIN o.src = 1 .. 2
      /\ o.op \in Unary \cup {"broadcast_in_dim"} => DOMAIN o.src = 1 .. 1
      /\ \A j \in DOMAIN o.src : o.src[j] \in 1 .. rv - 1
  BY <1>1 DEF LegalOp, Earlier, Binary, Unary
<1>4. /\ \A v \in Defined : g.cval[v] \in {"none", "zero", "one", "table"}
      /\ \A v \in Defined : g.gop[v] \in Nat
  BY <1>1 DEF Tables
<1>5. \A j \in DOMAIN o.src : o.src[j] \in Defined
  BY <1>1, <1>2, <1>3
<1>6. QED
  BY <1>3, <1>4, <1>5

LEMMA MaximumLowers ==
    ASSUME Function, NEW g, NEW rv, NEW o, Ready(g, rv, o), o.op = "maximum",
           NEW h, h = LowerMaximum(g, rv, o)
    PROVE  /\ h \in Tables
           /\ h.ok <=> Len(g.ops) < GraphCap /\ \E j \in 1 .. 2 : Relu(g, o, j)
           /\ h.ok => \E j \in 1 .. 2 :
                 /\ Relu(g, o, j) /\ h.hasConst = g.hasConst
                 /\ AddsOp(g, h, rv, "relu", <<Source(g, o.src[j])>>)
<1>1. /\ g \in Tables /\ g.ok /\ rv \in Defined /\ GraphCap \in Nat /\ "relu" \in Kinds
      /\ \A j \in 1 .. 2 : o.src[j] \in Defined
  BY ReadyIs, FunctionIs DEF Ready, Kinds
<1>2. \A j \in 1 .. 2 : Readable(g, o.src[j]) => g.cval[o.src[j]] = "none"
  BY <1>1 DEF Ready
<1>3. /\ \A j \in 1 .. 2 : Relu(g, o, j) => h = Emit(g, rv, "relu", <<Source(g, o.src[j])>>)
      /\ (\A j \in 1 .. 2 : ~ Relu(g, o, j)) => h = Refuse(g)
  BY <1>2, MaximumIs
<1>4. CASE \A j \in 1 .. 2 : ~ Relu(g, o, j)
  <2>1. h \in Tables /\ h.ok = FALSE
    BY <1>1, <1>3, <1>4, RefuseIs
  <2>2. QED
    BY <1>4, <2>1
<1>5. ASSUME NEW j \in 1 .. 2, Relu(g, o, j)
      PROVE  /\ h \in Tables
             /\ h.ok <=> Len(g.ops) < GraphCap
             /\ h.ok => AddsOp(g, h, rv, "relu", <<Source(g, o.src[j])>>) /\ h.hasConst = g.hasConst
  <2> DEFINE src == <<Source(g, o.src[j])>>
  <2>1. src \in Seq(GraphSrc)
    BY <1>1, SourceIs
  <2>2. h = Emit(g, rv, "relu", src)
    BY <1>3, <1>5
  <2> HIDE DEF src
  <2>3. /\ h \in Tables
        /\ h.ok <=> Len(g.ops) < GraphCap
        /\ h.ok => AddsOp(g, h, rv, "relu", src) /\ h.hasConst = g.hasConst
    BY <1>1, <2>1, <2>2, EmitIs
  <2>4. QED
    BY <2>3 DEF src
<1>6. QED
  BY <1>4, <1>5

LEMMA TanhLowers ==
    ASSUME Function, NEW g, NEW rv, NEW o, Ready(g, rv, o), o.op = "tanh",
           NEW h, h = LowerTanh(g, rv, o)
    PROVE  /\ h \in Tables
           /\ h.ok <=> Len(g.ops) < GraphCap /\ Data(g, o.src[1])
           /\ h.ok => /\ AddsOp(g, h, rv, "tanh", <<Source(g, o.src[1])>>)
                      /\ h.hasConst = g.hasConst
<1>1. /\ g \in Tables /\ g.ok /\ rv \in Defined /\ GraphCap \in Nat /\ "tanh" \in Kinds
      /\ o.src[1] \in Defined
  BY ReadyIs, FunctionIs DEF Ready, Kinds, Unary
<1>2. Readable(g, o.src[1]) <=> Data(g, o.src[1])
  BY <1>1 DEF Ready, Data
<1>3. CASE ~ Readable(g, o.src[1])
  <2>1. h \in Tables /\ h.ok = FALSE
    BY <1>1, <1>3, RefuseIs DEF LowerTanh
  <2>2. QED
    BY <1>2, <1>3, <2>1
<1>4. CASE Readable(g, o.src[1])
  <2> DEFINE src == <<Source(g, o.src[1])>>
  <2>1. src \in Seq(GraphSrc)
    BY <1>1, SourceIs
  <2>2. h = Emit(g, rv, "tanh", src)
    BY <1>4 DEF LowerTanh
  <2> HIDE DEF src
  <2>3. /\ h \in Tables
        /\ h.ok <=> Len(g.ops) < GraphCap
        /\ h.ok => AddsOp(g, h, rv, "tanh", src) /\ h.hasConst = g.hasConst
    BY <1>1, <2>1, <2>2, EmitIs
  <2>4. QED
    BY <1>2, <1>4, <2>3 DEF src
<1>5. QED
  BY <1>3, <1>4

LEMMA DotLowers ==
    ASSUME Function, NEW g, NEW rv, NEW o, Ready(g, rv, o), o.op = "dot_general",
           NEW h, h = LowerDot(g, rv, o)
    PROVE  /\ h \in Tables
           /\ h.ok <=> Len(g.ops) < GraphCap /\ \A j \in 1 .. 2 : Data(g, o.src[j])
           /\ h.ok => /\ AddsOp(g, h, rv, "dot_general", [j \in 1 .. 2 |-> Source(g, o.src[j])])
                      /\ h.hasConst = g.hasConst
<1>1. /\ g \in Tables /\ g.ok /\ rv \in Defined /\ GraphCap \in Nat /\ "dot_general" \in Kinds
      /\ \A j \in 1 .. 2 : o.src[j] \in Defined
  BY ReadyIs, FunctionIs DEF Ready, Kinds
<1>2. \A j \in 1 .. 2 : Readable(g, o.src[j]) <=> Data(g, o.src[j])
  BY <1>1 DEF Ready, Data
<1>3. CASE ~ \A j \in 1 .. 2 : Readable(g, o.src[j])
  <2>1. h \in Tables /\ h.ok = FALSE
    BY <1>1, <1>3, RefuseIs DEF LowerDot
  <2>2. QED
    BY <1>2, <1>3, <2>1
<1>4. CASE \A j \in 1 .. 2 : Readable(g, o.src[j])
  <2> DEFINE src == [j \in 1 .. 2 |-> Source(g, o.src[j])]
  <2>1. src \in Seq(GraphSrc)
    <3>1. \A j \in 1 .. 2 : Source(g, o.src[j]) \in GraphSrc
      BY <1>1, SourceIs
    <3>2. QED
      BY <3>1
  <2>2. h = Emit(g, rv, "dot_general", src)
    BY <1>4 DEF LowerDot
  <2> HIDE DEF src
  <2>3. /\ h \in Tables
        /\ h.ok <=> Len(g.ops) < GraphCap
        /\ h.ok => AddsOp(g, h, rv, "dot_general", src) /\ h.hasConst = g.hasConst
    BY <1>1, <2>1, <2>2, EmitIs
  <2>4. QED
    BY <1>2, <1>4, <2>3 DEF src
<1>5. QED
  BY <1>3, <1>4

LEMMA BinaryLowers ==
    ASSUME Function, NEW g, NEW rv, NEW o, Ready(g, rv, o), o.op \in Binary,
           NEW h, h = LowerBinary(g, rv, o)
    PROVE  /\ h \in Tables
           /\ h.ok <=> /\ Len(g.ops) < GraphCap
                       /\ \A j \in 1 .. 2 : Baked(g, o.src[j]) \/ Data(g, o.src[j])
           /\ h.ok => /\ AddsOp(g, h, rv, o.op, [j \in 1 .. 2 |-> Operand(g, o.src[j])])
                      /\ h.hasConst <=> g.hasConst \/ ReadsConst(g, o)
<1> DEFINE src == [j \in 1 .. 2 |-> Operand(g, o.src[j])]
           fits == \A j \in 1 .. 2 : IF g.cval[o.src[j]] # "none" THEN g.cval[o.src[j]] # "table"
                                     ELSE Readable(g, o.src[j])
           const == g.cval[o.src[1]] # "none" \/ g.cval[o.src[2]] # "none"
<1>1. /\ g \in Tables /\ g.ok /\ rv \in Defined /\ GraphCap \in Nat /\ o.op \in Kinds
      /\ \A j \in 1 .. 2 : o.src[j] \in Defined /\ g.cval[o.src[j]] \in {"none", "zero", "one", "table"}
  BY ReadyIs, FunctionIs DEF Ready, Kinds
<1>2. \A j \in 1 .. 2 : Readable(g, o.src[j]) => g.cval[o.src[j]] = "none"
  BY <1>1 DEF Ready
<1>3. fits <=> \A j \in 1 .. 2 : Baked(g, o.src[j]) \/ Data(g, o.src[j])
  BY <1>1, <1>2 DEF Baked, Data
<1>4. fits => (const <=> ReadsConst(g, o))
  BY <1>1 DEF Baked, ReadsConst
<1>5. h = IF fits THEN [Emit(g, rv, o.op, src) EXCEPT !.hasConst = @ \/ const] ELSE Refuse(g)
  <2>1. LowerBinary(g, rv, o)
          = IF fits THEN [Emit(g, rv, o.op, src) EXCEPT !.hasConst = @ \/ g.cval[o.src[1]] # "none"
                                                                       \/ g.cval[o.src[2]] # "none"]
            ELSE Refuse(g)
    BY DEF LowerBinary, Operand
  <2> HIDE DEF src, fits
  <2>2. QED
    BY <2>1
<1>6. CASE ~ fits
  <2>1. h \in Tables /\ h.ok = FALSE
    <3> HIDE DEF fits, src, const
    <3>1. QED
      BY <1>1, <1>5, <1>6, RefuseIs
  <2> HIDE DEF fits
  <2>2. QED
    BY <1>3, <1>6, <2>1
<1>7. CASE fits
  <2> DEFINE e == Emit(g, rv, o.op, src)
  <2>1. src \in Seq(GraphSrc)
    <3>1. \A j \in 1 .. 2 : Source(g, o.src[j]) \in GraphSrc
      BY <1>1, SourceIs
    <3>2. \A j \in 1 .. 2 : Operand(g, o.src[j]) \in GraphSrc
      BY <1>1, <1>7, <3>1 DEF Operand, FromConst, GraphSrc
    <3>3. QED
      BY <3>2
  <2>2. h = [e EXCEPT !.hasConst = @ \/ const]
    <3> HIDE DEF src, fits, const
    <3>1. QED
      BY <1>5, <1>7
  <2>3. e = Emit(g, rv, o.op, src)
    OBVIOUS
  <2> HIDE DEF src, fits, const, e
  <2>4. /\ e \in Tables
        /\ e.ok <=> Len(g.ops) < GraphCap
        /\ e.ok => AddsOp(g, e, rv, o.op, src) /\ e.hasConst = g.hasConst
    BY <1>1, <2>1, <2>3, EmitIs
  <2>5. const \in BOOLEAN
    BY DEF const
  <2>6. h = [ok |-> e.ok, ops |-> e.ops, hasConst |-> e.hasConst \/ const, gop |-> e.gop, cval |-> e.cval]
    BY <2>2, <2>4 DEF Tables
  <2>7. h \in Tables
    BY <2>4, <2>5, <2>6 DEF Tables
  <2>8. /\ h.ok = e.ok /\ h.ops = e.ops /\ h.gop = e.gop /\ h.cval = e.cval
        /\ h.hasConst = (e.hasConst \/ const)
    BY <2>6
  <2>9. AddsOp(g, e, rv, o.op, src) => AddsOp(g, h, rv, o.op, src)
    BY <2>7, <2>8 DEF AddsOp
  <2>10. h.ok => h.hasConst <=> g.hasConst \/ ReadsConst(g, o)
    BY <1>4, <1>7, <2>4, <2>8
  <2>11. /\ h.ok <=> Len(g.ops) < GraphCap
         /\ h.ok => AddsOp(g, h, rv, o.op, src)
    BY <2>4, <2>8, <2>9
  <2>12. QED
    BY <1>3, <1>7, <2>7, <2>10, <2>11 DEF src
<1>8. QED
  BY <1>6, <1>7

LEMMA ConstLowers ==
    ASSUME Function, NEW g, NEW rv, NEW o, Ready(g, rv, o),
           NEW c \in {"none", "zero", "one", "table"}, NEW h, h = [g EXCEPT !.cval[rv] = c]
    PROVE  AddsConst(g, h, rv, c)
<1>1. /\ g \in Tables /\ g.ok = TRUE /\ rv \in Defined
      /\ g.cval \in [Defined -> {"none", "zero", "one", "table"}]
  BY DEF Ready, Tables
<1>2. h = [ok |-> g.ok, ops |-> g.ops, hasConst |-> g.hasConst, gop |-> g.gop,
           cval |-> [g.cval EXCEPT ![rv] = c]]
  BY <1>1 DEF Tables
<1>3. [g.cval EXCEPT ![rv] = c] \in [Defined -> {"none", "zero", "one", "table"}]
  BY <1>1
<1>4. h \in Tables
  <2>1. /\ g.ok \in BOOLEAN /\ g.ops \in Seq(GraphOp) /\ g.hasConst \in BOOLEAN
        /\ g.gop \in [Defined -> Nat]
    BY <1>1 DEF Tables
  <2>2. QED
    BY <1>2, <1>3, <2>1 DEF Tables
<1>5. QED
  BY <1>1, <1>2, <1>4 DEF AddsConst

\* What npu_parse_graph accepts of an operation.
Accepts(g, o) ==
    \/ o.op \in {"constant", "broadcast_in_dim"}
    \/ /\ Len(g.ops) < GraphCap
       /\ \/ o.op = "maximum" /\ \E j \in 1 .. 2 : Relu(g, o, j)
          \/ o.op = "tanh" /\ Data(g, o.src[1])
          \/ o.op = "dot_general" /\ \A j \in 1 .. 2 : Data(g, o.src[j])
          \/ o.op \in Binary /\ \A j \in 1 .. 2 : Baked(g, o.src[j]) \/ Data(g, o.src[j])

\* What it does to the tables.
Adds(g, h, rv, o) ==
    /\ h.hasConst <=> g.hasConst \/ ReadsConst(g, o)
    /\ \/ o.op = "constant" /\ AddsConst(g, h, rv, o.val)
       \/ o.op = "broadcast_in_dim" /\ AddsConst(g, h, rv, g.cval[o.src[1]])
       \/ \E t, src : AsGraphOp(g, o, t, src) /\ AddsOp(g, h, rv, t, src)

LEMMA OpLowers ==
    ASSUME Function, NEW g, NEW i \in 1 .. Len(body), Ready(g, Len(args) + i, body[i]),
           NEW h, h = LowerOp(g, i)
    PROVE  /\ h \in Tables
           /\ h.ok <=> Accepts(g, body[i])
           /\ h.ok => Adds(g, h, Len(args) + i, body[i])
<1> DEFINE o == body[i]
           rv == Len(args) + i
<1>1. Ready(g, rv, o) /\ g.ok = TRUE /\ g \in Tables /\ LegalOp(o, rv) /\ g.hasConst \in BOOLEAN
  BY DEF Ready, Tables
<1>2. h = CASE o.op = "constant" -> LowerConstant(g, rv, o)
            [] o.op = "broadcast_in_dim" -> LowerBroadcast(g, rv, o)
            [] o.op = "maximum" -> LowerMaximum(g, rv, o)
            [] o.op = "tanh" -> LowerTanh(g, rv, o)
            [] o.op = "dot_general" -> LowerDot(g, rv, o)
            [] o.op \in Binary -> LowerBinary(g, rv, o)
            [] OTHER -> Refuse(g)
  BY <1>1 DEF LowerOp
<1> HIDE DEF o, rv
<1>3. CASE o.op = "constant"
  <2>1. h = [g EXCEPT !.cval[rv] = o.val]
    <3>1. h = LowerConstant(g, rv, o)
      BY <1>1, <1>2, <1>3 DEF Binary
    <3>2. QED
      BY <3>1 DEF LowerConstant
  <2>2. o.val \in {"none", "zero", "one", "table"}
    BY <1>1 DEF Ready, Op
  <2>3. AddsConst(g, h, rv, o.val)
    BY <1>1, <2>1, <2>2, ConstLowers
  <2>4. QED
    BY <1>1, <1>3, <2>3 DEF AddsConst, Adds, Accepts, ReadsConst, Binary, o, rv
<1>4. CASE o.op = "broadcast_in_dim"
  <2>1. h = [g EXCEPT !.cval[rv] = g.cval[o.src[1]]]
    <3>1. h = LowerBroadcast(g, rv, o)
      BY <1>1, <1>2, <1>4 DEF Binary
    <3>2. QED
      BY <3>1 DEF LowerBroadcast
  <2>2. g.cval[o.src[1]] \in {"none", "zero", "one", "table"}
    <3>1. 1 \in DOMAIN o.src
      BY <1>1, <1>4, ReadyIs
    <3>2. QED
      BY <1>1, <3>1, ReadyIs
  <2>3. AddsConst(g, h, rv, g.cval[o.src[1]])
    BY <1>1, <2>1, <2>2, ConstLowers
  <2>4. QED
    BY <1>1, <1>4, <2>3 DEF AddsConst, Adds, Accepts, ReadsConst, Binary, o, rv
<1>5. CASE o.op = "maximum"
  <2>1. h = LowerMaximum(g, rv, o)
    BY <1>1, <1>2, <1>5 DEF Binary
  <2>2. /\ h \in Tables
        /\ h.ok <=> Len(g.ops) < GraphCap /\ \E j \in 1 .. 2 : Relu(g, o, j)
        /\ h.ok => \E j \in 1 .. 2 :
              /\ Relu(g, o, j) /\ h.hasConst = g.hasConst
              /\ AddsOp(g, h, rv, "relu", <<Source(g, o.src[j])>>)
    BY <1>1, <1>5, <2>1, MaximumLowers
  <2>3. h.ok <=> Accepts(g, o)
    BY <1>5, <2>2 DEF Accepts, Binary
  <2>4. h.ok => Adds(g, h, rv, o)
    BY <1>1, <1>5, <2>2 DEF Adds, AsGraphOp, ReadsConst, Binary
  <2>5. QED
    BY <2>2, <2>3, <2>4 DEF o, rv
<1>6. CASE o.op = "tanh"
  <2>1. h = LowerTanh(g, rv, o)
    BY <1>1, <1>2, <1>6 DEF Binary
  <2> DEFINE src == <<Source(g, o.src[1])>>
  <2>2. /\ h \in Tables
        /\ h.ok <=> Len(g.ops) < GraphCap /\ Data(g, o.src[1])
        /\ h.ok => AddsOp(g, h, rv, "tanh", src) /\ h.hasConst = g.hasConst
    <3>1. Ready(g, rv, o) /\ o.op = "tanh" /\ h = LowerTanh(g, rv, o)
      BY <1>1, <1>6, <2>1
    <3>2. QED
      BY <3>1, TanhLowers
  <2>3. h.ok <=> Accepts(g, o)
    BY <1>6, <2>2 DEF Accepts, Binary
  <2>4. h.ok => AsGraphOp(g, o, "tanh", src)
    BY <1>6, <2>2 DEF AsGraphOp
  <2> HIDE DEF src
  <2>5. h.ok => Adds(g, h, rv, o)
    BY <1>1, <1>6, <2>2, <2>4 DEF Adds, ReadsConst, Binary
  <2>6. QED
    BY <2>2, <2>3, <2>5 DEF o, rv
<1>7. CASE o.op = "dot_general"
  <2>1. h = LowerDot(g, rv, o)
    BY <1>1, <1>2, <1>7 DEF Binary
  <2> DEFINE src == [j \in 1 .. 2 |-> Source(g, o.src[j])]
  <2>2. /\ h \in Tables
        /\ h.ok <=> Len(g.ops) < GraphCap /\ \A j \in 1 .. 2 : Data(g, o.src[j])
        /\ h.ok => AddsOp(g, h, rv, "dot_general", src) /\ h.hasConst = g.hasConst
    BY <1>1, <1>7, <2>1, DotLowers
  <2>3. h.ok <=> Accepts(g, o)
    BY <1>7, <2>2 DEF Accepts, Binary
  <2>4. h.ok => AsGraphOp(g, o, "dot_general", src)
    BY <1>7, <2>2 DEF AsGraphOp
  <2> HIDE DEF src
  <2>5. h.ok => Adds(g, h, rv, o)
    BY <1>1, <1>7, <2>2, <2>4 DEF Adds, ReadsConst, Binary
  <2>6. QED
    BY <2>2, <2>3, <2>5 DEF o, rv
<1>8. CASE o.op \in Binary
  <2>1. h = LowerBinary(g, rv, o)
    BY <1>1, <1>2, <1>8 DEF Binary
  <2> DEFINE src == [j \in 1 .. 2 |-> Operand(g, o.src[j])]
  <2>2. /\ h \in Tables
        /\ h.ok <=> /\ Len(g.ops) < GraphCap
                    /\ \A j \in 1 .. 2 : Baked(g, o.src[j]) \/ Data(g, o.src[j])
        /\ h.ok => AddsOp(g, h, rv, o.op, src) /\ (h.hasConst <=> g.hasConst \/ ReadsConst(g, o))
    BY <1>1, <1>8, <2>1, BinaryLowers
  <2>3. h.ok <=> Accepts(g, o)
    BY <1>8, <2>2 DEF Accepts, Binary
  <2>4. h.ok => AsGraphOp(g, o, o.op, src)
    BY <1>8, <2>2 DEF AsGraphOp
  <2> HIDE DEF src
  <2>5. h.ok => Adds(g, h, rv, o)
    BY <2>2, <2>4 DEF Adds
  <2>6. QED
    BY <2>2, <2>3, <2>5 DEF o, rv
<1>9. CASE o.op \in Unary \ {"tanh"}
  <2>1. h = Refuse(g)
    BY <1>1, <1>2, <1>9 DEF Unary, Binary
  <2>2. ~ Accepts(g, o)
    BY <1>9 DEF Unary, Binary, Accepts
  <2>3. QED
    BY <1>1, <2>1, <2>2, RefuseIs DEF o, rv
<1>10. QED
  BY <1>1, <1>3, <1>4, <1>5, <1>6, <1>7, <1>8, <1>9 DEF LegalOp, Binary, Unary

(***************************************************************************)
(* The tables stay right, operation by operation.                          *)
(***************************************************************************)
Same(g, h, v) == h.gop[v] = g.gop[v] /\ h.cval[v] = g.cval[v]

\* The tables h keep what g holds of the values before rv.
Kept(g, h, rv) ==
    /\ \A v \in Defined \ {rv} : Same(g, h, v)
    /\ \A n \in 1 .. Len(g.ops) : h.ops[n] = g.ops[n]

LEMMA SameReads ==
    ASSUME NEW g, NEW h, NEW v, Same(g, h, v)
    PROVE  /\ Data(h, v) <=> Data(g, v)
           /\ Baked(h, v) <=> Baked(g, v)
           /\ Source(h, v) = Source(g, v)
           /\ Operand(h, v) = Operand(g, v)
           /\ h.cval[v] = g.cval[v]
  BY DEF Same, Data, Readable, Baked, Source, Operand

\* The operands of o are read alike.
SameOperands(g, h, o) == \A j \in DOMAIN o.src : Same(g, h, o.src[j])

LEMMA SameGraphOp ==
    ASSUME NEW g, NEW h, NEW o, NEW rv, LegalOp(o, rv), SameOperands(g, h, o), NEW t, NEW src
    PROVE  /\ AsGraphOp(h, o, t, src) <=> AsGraphOp(g, o, t, src)
           /\ ReadsConst(h, o) <=> ReadsConst(g, o)
           /\ o.op = "broadcast_in_dim" => h.cval[o.src[1]] = g.cval[o.src[1]]
<1>1. \A j \in DOMAIN o.src : /\ Data(h, o.src[j]) <=> Data(g, o.src[j])
                              /\ Baked(h, o.src[j]) <=> Baked(g, o.src[j])
                              /\ Source(h, o.src[j]) = Source(g, o.src[j])
                              /\ Operand(h, o.src[j]) = Operand(g, o.src[j])
                              /\ h.cval[o.src[j]] = g.cval[o.src[j]]
  BY SameReads DEF SameOperands
<1>2. /\ o.op \in Binary \cup {"maximum", "dot_general"} => DOMAIN o.src = 1 .. 2
      /\ o.op \in Unary \cup {"broadcast_in_dim"} => DOMAIN o.src = 1 .. 1
  BY DEF LegalOp, Earlier, Binary, Unary
<1>3. o.op = "maximum" => \A j \in 1 .. 2 : Relu(h, o, j) <=> Relu(g, o, j)
  <2>1. \A j \in 1 .. 2 : 3 - j \in 1 .. 2
    OBVIOUS
  <2>2. QED
    BY <1>1, <1>2, <2>1 DEF Relu
<1>4. o.op = "maximum" => (AsGraphOp(h, o, t, src) <=> AsGraphOp(g, o, t, src))
  BY <1>1, <1>2, <1>3 DEF AsGraphOp, Binary
<1>5. o.op = "tanh" => (AsGraphOp(h, o, t, src) <=> AsGraphOp(g, o, t, src))
  BY <1>1, <1>2 DEF AsGraphOp, Binary, Unary
<1>6. o.op = "dot_general" => (AsGraphOp(h, o, t, src) <=> AsGraphOp(g, o, t, src))
  BY <1>1, <1>2 DEF AsGraphOp, Binary
<1>7. o.op \in Binary => (AsGraphOp(h, o, t, src) <=> AsGraphOp(g, o, t, src))
  BY <1>1, <1>2 DEF AsGraphOp, Binary
<1>8. o.op \notin Binary \cup {"maximum", "tanh", "dot_general"} =>
          ~ AsGraphOp(h, o, t, src) /\ ~ AsGraphOp(g, o, t, src)
  BY DEF AsGraphOp
<1>9. ReadsConst(h, o) <=> ReadsConst(g, o)
  BY <1>1, <1>2 DEF ReadsConst
<1>10. o.op = "broadcast_in_dim" => h.cval[o.src[1]] = g.cval[o.src[1]]
  BY <1>1, <1>2
<1>11. AsGraphOp(h, o, t, src) <=> AsGraphOp(g, o, t, src)
  BY <1>4, <1>5, <1>6, <1>7, <1>8
<1>12. QED
  BY <1>9, <1>10, <1>11

LEMMA LoweredIsReady ==
    ASSUME Function, NEW g \in Tables, g.ok, NEW i \in 1 .. Len(body), LoweredTo(g, i - 1)
    PROVE  /\ Ready(g, Len(args) + i, body[i])
           /\ g.gop[Len(args) + i] = 0 /\ g.cval[Len(args) + i] = "none"
<1>1. /\ Len(args) \in Nat /\ Len(args) >= 1 /\ Len(body) \in Nat /\ Last \in Nat
      /\ Defined = 1 .. Last /\ Last = Len(args) + Len(body)
      /\ body[i] \in Op /\ LegalOp(body[i], Len(args) + i)
  BY FunctionIs
<1>2. Len(args) + i \in Defined /\ Len(args) + i \notin Len(args) + 1 .. Len(args) + (i - 1)
  BY <1>1
<1>3. ASSUME NEW v \in Defined, Readable(g, v) PROVE g.cval[v] = "none"
  <2>1. CASE v <= Len(args)
    <3>1. v \notin Len(args) + 1 .. Len(args) + (i - 1)
      BY <1>1, <2>1
    <3>2. QED
      BY <3>1 DEF LoweredTo
  <2>2. CASE g.gop[v] # 0
    BY <2>2 DEF LoweredTo, Numbered
  <2>3. QED
    BY <1>3, <2>1, <2>2 DEF Readable
<1>4. QED
  BY <1>1, <1>2, <1>3 DEF Ready, LoweredTo

LEMMA AddsKeeps ==
    ASSUME Function, NEW g \in Tables, NEW h, NEW rv \in Defined, NEW o, Adds(g, h, rv, o)
    PROVE  /\ h \in Tables /\ h.ok /\ Kept(g, h, rv)
           /\ Len(g.ops) <= Len(h.ops) /\ Len(h.ops) \in Nat /\ Len(g.ops) \in Nat
<1>1. /\ g.ops \in Seq(GraphOp) /\ Len(g.ops) \in Nat /\ g.gop \in [Defined -> Nat]
      /\ g.cval \in [Defined -> {"none", "zero", "one", "table"}]
  BY DEF Tables
<1>2. ASSUME NEW c, AddsConst(g, h, rv, c)
      PROVE  h \in Tables /\ h.ok /\ Kept(g, h, rv) /\ h.ops = g.ops
  BY <1>1, <1>2 DEF AddsConst, Kept, Same
<1>3. ASSUME NEW t, NEW src, AddsOp(g, h, rv, t, src)
      PROVE  h \in Tables /\ h.ok /\ Kept(g, h, rv) /\ Len(h.ops) = Len(g.ops) + 1
  <2>1. h \in Tables /\ h.ok
    BY <1>3 DEF AddsOp
  <2>2. /\ \A n \in 1 .. Len(g.ops) : h.ops[n] = g.ops[n]
        /\ Len(h.ops) = Len(g.ops) + 1
    BY <1>1, <1>3 DEF AddsOp
  <2>3. \A v \in Defined \ {rv} : Same(g, h, v)
    BY <1>1, <1>3 DEF AddsOp, Same
  <2>4. QED
    BY <2>1, <2>2, <2>3 DEF Kept
<1>4. QED
  BY <1>1, <1>2, <1>3 DEF Adds

\* What holds of an earlier operation still does.
LEMMA TranslatesKept ==
    ASSUME Function, NEW g, NEW h, NEW rv \in Defined, Kept(g, h, rv),
           \A w \in Defined : g.gop[w] <= Len(g.ops) /\ g.gop[w] \in Nat, Len(g.ops) \in Nat,
           NEW v \in 1 .. rv - 1, NEW o, LegalOp(o, v), Translates(g, v, o)
    PROVE  Translates(h, v, o) /\ (ReadsConst(h, o) <=> ReadsConst(g, o))
<1>1. Defined = 1 .. Last /\ Last \in Nat
  BY FunctionIs
<1>2. v \in Defined \ {rv} /\ \A u \in 1 .. v - 1 : u \in Defined \ {rv}
  BY <1>1
<1>3. Same(g, h, v)
  BY <1>2 DEF Kept
<1>4. SameOperands(g, h, o)
  <2>1. \A j \in DOMAIN o.src : o.src[j] \in 1 .. v - 1
    BY DEF LegalOp, Earlier
  <2>2. QED
    BY <1>2, <2>1 DEF SameOperands, Kept
<1>5. \A t, src : AsGraphOp(h, o, t, src) <=> AsGraphOp(g, o, t, src)
  BY <1>4, SameGraphOp
<1>6. /\ ReadsConst(h, o) <=> ReadsConst(g, o)
      /\ o.op = "broadcast_in_dim" => h.cval[o.src[1]] = g.cval[o.src[1]]
  BY <1>4, SameGraphOp
<1>7. \A t, src : Emitted(g, v, t, src) => Emitted(h, v, t, src)
  <2>1. g.gop[v] # 0 => h.ops[g.gop[v]] = g.ops[g.gop[v]]
    BY <1>2 DEF Kept
  <2>2. QED
    BY <1>3, <2>1 DEF Same, Emitted
<1>8. QED
  BY <1>3, <1>5, <1>6, <1>7 DEF Translates, Same

LEMMA AddsNumbers ==
    ASSUME Function, NEW g \in Tables, NEW h, NEW i \in 1 .. Len(body),
           LoweredTo(g, i - 1), Adds(g, h, Len(args) + i, body[i]),
           g.gop[Len(args) + i] = 0
    PROVE  Numbered(h) /\ Len(h.ops) <= GraphCap
<1> DEFINE rv == Len(args) + i
<1>1. /\ Len(args) \in Nat /\ Len(args) >= 1 /\ Len(body) \in Nat /\ Last \in Nat
      /\ Defined = 1 .. Last /\ Last = Len(args) + Len(body) /\ GraphCap \in Nat
      /\ rv \in Defined /\ rv \in Nat
  BY FunctionIs
<1>2. /\ g.ops \in Seq(GraphOp) /\ Len(g.ops) \in Nat /\ g.gop \in [Defined -> Nat]
      /\ g.cval \in [Defined -> {"none", "zero", "one", "table"}]
  BY DEF Tables
<1>3. /\ \A v \in Defined : v > rv => g.gop[v] = 0
      /\ Numbered(g) /\ Len(g.ops) <= GraphCap
  BY <1>1 DEF LoweredTo
<1>4. ASSUME NEW c, AddsConst(g, h, rv, c)
      PROVE  Numbered(h) /\ Len(h.ops) <= GraphCap
  <2>1. h.ops = g.ops /\ h.gop = g.gop /\ h.cval = [g.cval EXCEPT ![rv] = c] /\ g.gop[rv] = 0
    BY <1>4 DEF AddsConst
  <2> HIDE DEF rv
  <2>2. \A v \in Defined : h.gop[v] # 0 => h.cval[v] = g.cval[v]
    BY <1>2, <2>1
  <2>3. QED
    BY <1>3, <2>1, <2>2 DEF Numbered
<1>5. ASSUME NEW t, NEW src, AddsOp(g, h, rv, t, src)
      PROVE  Numbered(h) /\ Len(h.ops) <= GraphCap
  <2>1. /\ h.gop = [g.gop EXCEPT ![rv] = Len(g.ops) + 1] /\ h.cval = g.cval
        /\ Len(g.ops) < GraphCap /\ Len(h.ops) = Len(g.ops) + 1
    BY <1>2, <1>5 DEF AddsOp
  <2>2. g.cval[rv] = "none" /\ g.gop[rv] = 0
    BY <1>1, SMTT(40) DEF LoweredTo
  <2> HIDE DEF rv
  <2>3. h.gop[rv] = Len(g.ops) + 1 /\ \A v \in Defined \ {rv} : h.gop[v] = g.gop[v]
    BY <1>1, <1>2, <2>1
  <2>4. \A v \in Defined : h.gop[v] <= Len(h.ops) /\ (h.gop[v] # 0 => h.cval[v] = "none")
    BY <1>2, <1>3, <2>1, <2>2, <2>3 DEF Numbered
  <2>5. \A n \in 1 .. Len(h.ops) : \E v \in Defined : h.gop[v] = n
    <3>1. ASSUME NEW n \in 1 .. Len(g.ops) PROVE \E v \in Defined : h.gop[v] = n
      <4>1. PICK v \in Defined : g.gop[v] = n
        BY <1>3 DEF Numbered
      <4>2. v # rv
        BY <2>2, <4>1
      <4>3. QED
        BY <2>3, <4>1, <4>2
    <3>2. \A n \in 1 .. Len(h.ops) : n \in 1 .. Len(g.ops) \/ n = Len(g.ops) + 1
      BY <1>2, <2>1
    <3>3. rv \in Defined /\ h.gop[rv] = Len(g.ops) + 1
      BY <1>1, <2>3
    <3>4. QED
      BY <3>1, <3>2, <3>3
  <2>6. ASSUME NEW u \in Defined, NEW v \in Defined, u < v, h.gop[u] # 0, h.gop[v] # 0
        PROVE  h.gop[u] < h.gop[v]
    <3>1. CASE u = rv
      BY <1>1, <1>3, <2>3, <2>6, <3>1
    <3>2. CASE v = rv
      <4>1. g.gop[u] <= Len(g.ops) /\ h.gop[u] = g.gop[u] /\ g.gop[u] \in Nat
        BY <1>1, <1>2, <1>3, <2>3, <2>6, <3>2, SMTT(40) DEF Numbered
      <4>2. QED
        BY <1>2, <2>3, <3>2, <4>1
    <3>3. CASE u # rv /\ v # rv
      BY <1>3, <2>3, <2>6, <3>3 DEF Numbered
    <3>4. QED
      BY <3>1, <3>2, <3>3
  <2>7. Len(h.ops) <= GraphCap
    BY <1>1, <1>2, <2>1
  <2>8. QED
    BY <2>4, <2>5, <2>6, <2>7 DEF Numbered
<1>6. QED
  BY <1>4, <1>5 DEF Adds

LEMMA StepLowered ==
    ASSUME Function, NEW g \in Tables, g.ok, NEW i \in 1 .. Len(body), LoweredTo(g, i - 1),
           NEW h, h = LowerOp(g, i), h.ok
    PROVE  LoweredTo(h, i)
<1> DEFINE rv == Len(args) + i
           o == body[i]
<1>1. /\ Len(args) \in Nat /\ Len(args) >= 1 /\ Len(body) \in Nat /\ Last \in Nat
      /\ Defined = 1 .. Last /\ Last = Len(args) + Len(body)
      /\ rv \in Defined /\ rv \in Nat
      /\ \A j \in 1 .. Len(body) : LegalOp(body[j], Len(args) + j)
  BY FunctionIs
<1>2. Ready(g, rv, o) /\ g.gop[rv] = 0 /\ g.cval[rv] = "none"
  BY LoweredIsReady
<1>3. Adds(g, h, rv, o)
  BY <1>2, OpLowers
<1>4. Numbered(h) /\ Len(h.ops) <= GraphCap
  BY <1>2, <1>3, AddsNumbers
<1>5. Kept(g, h, rv) /\ h \in Tables
  BY <1>1, <1>3, AddsKeeps
<1>6. /\ g.ops \in Seq(GraphOp) /\ Len(g.ops) \in Nat /\ g.gop \in [Defined -> Nat]
      /\ g.cval \in [Defined -> {"none", "zero", "one", "table"}]
  BY DEF Tables
<1>7. /\ \A v \in Defined : v \notin Len(args) + 1 .. Len(args) + (i - 1) =>
              g.gop[v] = 0 /\ g.cval[v] = "none"
      /\ Numbered(g)
      /\ \A j \in 1 .. i - 1 : Translates(g, Len(args) + j, body[j])
      /\ g.hasConst <=> \E j \in 1 .. i - 1 : ReadsConst(g, body[j])
  BY DEF LoweredTo
<1>8. ASSUME NEW v \in Defined, v \notin Len(args) + 1 .. Len(args) + i
      PROVE  h.gop[v] = 0 /\ h.cval[v] = "none"
  <2>1. v # rv /\ v \notin Len(args) + 1 .. Len(args) + (i - 1)
    BY <1>1, <1>8
  <2>2. Same(g, h, v)
    BY <1>5, <2>1 DEF Kept
  <2>3. QED
    BY <1>7, <2>1, <2>2 DEF Same
<1>9. ASSUME NEW j \in 1 .. i - 1
      PROVE  Translates(h, Len(args) + j, body[j]) /\ (ReadsConst(h, body[j]) <=> ReadsConst(g, body[j]))
  <2>1. Len(args) + j \in 1 .. rv - 1 /\ LegalOp(body[j], Len(args) + j)
    BY <1>1
  <2>2. \A w \in Defined : g.gop[w] <= Len(g.ops) /\ g.gop[w] \in Nat
    BY <1>6, <1>7 DEF Numbered
  <2> HIDE DEF rv
  <2>3. QED
    BY <1>1, <1>5, <1>6, <1>7, <2>1, <2>2, TranslatesKept
<1>10. LegalOp(o, rv)
  BY <1>1
<1>11. SameOperands(g, h, o)
  <2>1. \A j \in DOMAIN o.src : o.src[j] \in 1 .. rv - 1
    BY <1>10 DEF LegalOp, Earlier
  <2>2. \A v \in 1 .. rv - 1 : v \in Defined \ {rv}
    BY <1>1
  <2> HIDE DEF rv, o
  <2>3. QED
    BY <1>5, <2>1, <2>2 DEF SameOperands, Kept
<1> HIDE DEF o
<1>12. /\ \A t, src : AsGraphOp(h, o, t, src) <=> AsGraphOp(g, o, t, src)
       /\ ReadsConst(h, o) <=> ReadsConst(g, o)
       /\ o.op = "broadcast_in_dim" => h.cval[o.src[1]] = g.cval[o.src[1]]
  BY <1>10, <1>11, SameGraphOp
<1>13. Translates(h, rv, o)
  <2> HIDE DEF rv
  <2>1. ASSUME NEW c, AddsConst(g, h, rv, c) PROVE h.gop[rv] = 0 /\ h.cval[rv] = c
    BY <1>1, <1>2, <1>6, <2>1 DEF AddsConst
  <2>2. ASSUME NEW t, NEW src, AddsOp(g, h, rv, t, src), AsGraphOp(g, o, t, src)
        PROVE  Emitted(h, rv, t, src)
    <3>1. h.gop[rv] = Len(g.ops) + 1 /\ h.cval[rv] = "none"
      BY <1>1, <1>2, <1>6, <2>2 DEF AddsOp
    <3>2. h.ops[Len(g.ops) + 1] = [t |-> t, src |-> src]
      BY <1>6, <2>2 DEF AddsOp
    <3>3. QED
      BY <1>6, <3>1, <3>2 DEF Emitted
  <2>3. QED
    BY <1>3, <1>12, <2>1, <2>2 DEF Adds, Translates
<1>14. \A j \in 1 .. i : Translates(h, Len(args) + j, body[j])
  <2>1. \A j \in 1 .. i : j \in 1 .. i - 1 \/ j = i
    OBVIOUS
  <2>2. QED
    BY <1>9, <1>13, <2>1 DEF o
<1>15. h.hasConst <=> \E j \in 1 .. i : ReadsConst(h, body[j])
  <2>1. h.hasConst <=> g.hasConst \/ ReadsConst(g, body[i])
    BY <1>3 DEF Adds, o
  <2>2. ReadsConst(h, body[i]) <=> ReadsConst(g, body[i])
    BY <1>12 DEF o
  <2>3. \A j : j \in 1 .. i <=> j \in 1 .. i - 1 \/ j = i
    OBVIOUS
  <2>4. QED
    BY <1>7, <1>9, <2>1, <2>2, <2>3
<1>16. QED
  BY <1>4, <1>8, <1>14, <1>15 DEF LoweredTo

LEMMA NothingLoweredIs ==
    ASSUME Function
    PROVE  NothingLowered \in Tables /\ NothingLowered.ok /\ LoweredTo(NothingLowered, 0)
<1> DEFINE g == NothingLowered
<1>1. /\ g.ok = TRUE /\ g.ops = << >> /\ g.hasConst = FALSE
      /\ g.gop = [v \in Defined |-> 0] /\ g.cval = [v \in Defined |-> "none"]
  BY DEF NothingLowered
<1>2. g \in Tables
  BY DEF NothingLowered, Tables
<1>3. Numbered(g)
  BY <1>1 DEF Numbered
<1>4. QED
  BY <1>1, <1>2, <1>3, FunctionIs DEF LoweredTo

\* npu_parse_graph: what its tables hold, if it does not give up.
LEMMA LoweredIs ==
    ASSUME Function
    PROVE  \A i \in 0 .. Len(body) :
              Lowering[i] \in Tables /\ (Lowering[i].ok => LoweredTo(Lowering[i], i))
<1> DEFINE S == {i \in 0 .. Len(body) :
                   Lowering[i] \in Tables /\ (Lowering[i].ok => LoweredTo(Lowering[i], i))}
<1>1. Len(body) \in Nat
  BY FunctionIs
<1>2. 0 \in S
  BY <1>1, NothingLoweredIs, LoweringIs
<1>3. ASSUME NEW j \in 0 .. Len(body) - 1, j \in S PROVE j + 1 \in S
  <2> DEFINE g == Lowering[j]
             h == Lowering[j + 1]
             i == j + 1
  <2>1. g \in Tables /\ (g.ok => LoweredTo(g, j))
    BY <1>3
  <2>2. i \in 1 .. Len(body) /\ i - 1 = j
    BY <1>1
  <2>3. h = LowerOp(g, i)
    BY <2>2, LoweringIs
  <2> HIDE DEF g, h, i
  <2>4. CASE ~ g.ok
    <3>1. h = g
      BY <2>3, <2>4 DEF LowerOp
    <3>2. QED
      BY <1>1, <2>1, <2>2, <2>4, <3>1 DEF h, i
  <2>5. CASE g.ok
    <3>1. LoweredTo(g, i - 1)
      BY <2>1, <2>2, <2>5
    <3>2. Ready(g, Len(args) + i, body[i])
      BY <2>1, <2>2, <2>5, <3>1, LoweredIsReady
    <3>3. h \in Tables
      BY <2>2, <2>3, <3>2, OpLowers
    <3>4. h.ok => LoweredTo(h, i)
      BY <2>1, <2>2, <2>3, <2>5, <3>1, StepLowered
    <3>5. QED
      BY <1>1, <2>2, <3>3, <3>4 DEF h, i
  <2>6. QED
    BY <2>4, <2>5
<1>4. 0 .. Len(body) \subseteq S
  <2> HIDE DEF S
  <2>1. QED
    BY <1>1, <1>2, <1>3, Induct
<1>5. QED
  BY <1>4

(***************************************************************************)
(* The operations of the graph, when npu_parse_graph does not give up.     *)
(***************************************************************************)

\* The body of the value v, and the operation of the graph for it.
OpOf(v) == body[v - Len(args)]

\* s is how an operation n of the graph reads the value u.
Reads(g, s, u, n) ==
    \/ s = FromArg(u) /\ u \in 1 .. Len(args)
    \/ s = FromOp(g.gop[u]) /\ u \in Defined /\ g.gop[u] \in 1 .. n - 1
    \/ s = FromConst(g.cval[u]) /\ u \in Defined /\ Baked(g, u)

\* The operation of the graph that computes v has the operation's operands.
ComputesAs(g, o, e, n) ==
    \/ /\ o.op = "maximum" /\ e.t = "relu" /\ DOMAIN e.src = 1 .. 1 /\ e.src[1].from # "const"
       /\ \E j \in 1 .. 2 : g.cval[o.src[3 - j]] = "zero" /\ Reads(g, e.src[1], o.src[j], n)
    \/ /\ o.op = "tanh" /\ e.t = "tanh" /\ DOMAIN e.src = 1 .. 1 /\ e.src[1].from # "const"
       /\ Reads(g, e.src[1], o.src[1], n)
    \/ /\ o.op \in Binary \cup {"dot_general"} /\ e.t = o.op /\ DOMAIN e.src = 1 .. 2
       /\ \A j \in 1 .. 2 : Reads(g, e.src[j], o.src[j], n)
       /\ o.op = "dot_general" => \A j \in 1 .. 2 : e.src[j].from # "const"
Computes(g, v) == ComputesAs(g, OpOf(v), g.ops[g.gop[v]], g.gop[v])

LEMMA ReadsIs ==
    ASSUME Function, NEW g \in Tables, Numbered(g), NEW v \in Defined, g.gop[v] # 0,
           NEW u \in 1 .. v - 1
    PROVE  /\ Data(g, u) => /\ Reads(g, Source(g, u), u, g.gop[v])
                            /\ Reads(g, Operand(g, u), u, g.gop[v])
                            /\ Source(g, u).from # "const"
           /\ Baked(g, u) => Reads(g, Operand(g, u), u, g.gop[v])
<1>1. Defined = 1 .. Last /\ Last \in Nat /\ Len(args) \in Nat
  BY FunctionIs
<1>2. u \in Defined /\ u < v /\ g.gop \in [Defined -> Nat]
  BY <1>1 DEF Tables
<1>3. g.gop[u] # 0 => g.gop[u] \in 1 .. g.gop[v] - 1
  BY <1>1, <1>2, SMTT(40) DEF Numbered
<1>4. Data(g, u) => /\ Reads(g, Source(g, u), u, g.gop[v])
                    /\ Operand(g, u) = Source(g, u)
                    /\ Source(g, u).from # "const"
  BY <1>1, <1>2, <1>3 DEF Data, Readable, Reads, Source, Operand, FromArg, FromOp
<1>5. Baked(g, u) => Reads(g, Operand(g, u), u, g.gop[v])
  BY <1>2 DEF Baked, Reads, Operand
<1>6. QED
  BY <1>4, <1>5

LEMMA GraphOpIs ==
    ASSUME Function, NEW g \in Tables, LoweredTo(g, Len(body)), NEW v \in Defined, g.gop[v] # 0
    PROVE  /\ v > Len(args) /\ v - Len(args) \in 1 .. Len(body) /\ LegalOp(OpOf(v), v)
           /\ g.gop[v] \in 1 .. Len(g.ops) /\ g.cval[v] = "none"
           /\ Computes(g, v)
<1> DEFINE o == OpOf(v)
           n == g.gop[v]
           e == g.ops[n]
<1>1. /\ Len(args) \in Nat /\ Len(args) >= 1 /\ Len(body) \in Nat /\ Last \in Nat
      /\ Defined = 1 .. Last /\ Last = Len(args) + Len(body)
  BY FunctionIs
<1>2. /\ g.ops \in Seq(GraphOp) /\ Len(g.ops) \in Nat /\ g.gop \in [Defined -> Nat]
  BY DEF Tables
<1>3. v \in Len(args) + 1 .. Len(args) + Len(body)
  BY DEF LoweredTo
<1>4. v > Len(args) /\ v - Len(args) \in 1 .. Len(body) /\ Len(args) + (v - Len(args)) = v
  BY <1>1, <1>3
<1>5. LegalOp(o, v) /\ Translates(g, v, o) /\ Numbered(g)
  BY <1>4, FunctionIs DEF LoweredTo, OpOf
<1>6. n \in 1 .. Len(g.ops) /\ g.cval[v] = "none"
  BY <1>2, <1>5 DEF Numbered
<1>7. PICK t, src : AsGraphOp(g, o, t, src) /\ Emitted(g, v, t, src)
  BY <1>5 DEF Translates
<1>8. e = [t |-> t, src |-> src]
  BY <1>7 DEF Emitted
<1>9. e.t = t /\ e.src = src
  BY <1>8
<1>10. /\ \A j \in DOMAIN o.src : o.src[j] \in 1 .. v - 1
       /\ o.op \in Binary \cup {"maximum", "dot_general"} => DOMAIN o.src = 1 .. 2
       /\ o.op \in Unary => DOMAIN o.src = 1 .. 1
  BY <1>5 DEF LegalOp, Earlier, Binary, Unary
<1> HIDE DEF o, n, e
<1>11. \A u \in 1 .. v - 1 :
          /\ Data(g, u) => /\ Reads(g, Source(g, u), u, n) /\ Reads(g, Operand(g, u), u, n)
                           /\ Source(g, u).from # "const"
          /\ Baked(g, u) => Reads(g, Operand(g, u), u, n)
  BY <1>5, ReadsIs DEF n
<1>12. \/ /\ o.op = "maximum" /\ e.t = "relu" /\ DOMAIN e.src = 1 .. 1 /\ e.src[1].from # "const"
          /\ \E j \in 1 .. 2 : g.cval[o.src[3 - j]] = "zero" /\ Reads(g, e.src[1], o.src[j], n)
       \/ /\ o.op = "tanh" /\ e.t = "tanh" /\ DOMAIN e.src = 1 .. 1 /\ e.src[1].from # "const"
          /\ Reads(g, e.src[1], o.src[1], n)
       \/ /\ o.op \in Binary \cup {"dot_general"} /\ e.t = o.op /\ DOMAIN e.src = 1 .. 2
          /\ \A j \in 1 .. 2 : Reads(g, e.src[j], o.src[j], n)
          /\ o.op = "dot_general" => \A j \in 1 .. 2 : e.src[j].from # "const"
  <2>1. CASE o.op = "maximum"
    <3>1. PICK j \in 1 .. 2 : Relu(g, o, j) /\ t = "relu" /\ src = <<Source(g, o.src[j])>>
      BY <1>7, <2>1 DEF AsGraphOp, Binary
    <3>2. /\ Reads(g, Source(g, o.src[j]), o.src[j], n) /\ g.cval[o.src[3 - j]] = "zero"
          /\ Source(g, o.src[j]).from # "const"
      BY <1>10, <1>11, <2>1, <3>1 DEF Relu
    <3>3. QED
      BY <1>9, <2>1, <3>1, <3>2
  <2>2. CASE o.op = "tanh"
    <3>1. Data(g, o.src[1]) /\ t = "tanh" /\ src = <<Source(g, o.src[1])>>
      BY <1>7, <2>2 DEF AsGraphOp, Binary
    <3>2. Reads(g, Source(g, o.src[1]), o.src[1], n) /\ Source(g, o.src[1]).from # "const"
      BY <1>10, <1>11, <2>2, <3>1 DEF Unary
    <3>3. QED
      BY <1>9, <2>2, <3>1, <3>2
  <2>3. CASE o.op = "dot_general"
    <3>1. /\ \A j \in 1 .. 2 : Data(g, o.src[j])
          /\ t = "dot_general" /\ src = [j \in 1 .. 2 |-> Source(g, o.src[j])]
      BY <1>7, <2>3 DEF AsGraphOp, Binary
    <3>2. \A j \in 1 .. 2 : Reads(g, Source(g, o.src[j]), o.src[j], n) /\ Source(g, o.src[j]).from # "const"
      BY <1>10, <1>11, <2>3, <3>1
    <3>3. QED
      BY <1>9, <2>3, <3>1, <3>2
  <2>4. CASE o.op \in Binary
    <3>1. /\ \A j \in 1 .. 2 : Baked(g, o.src[j]) \/ Data(g, o.src[j])
          /\ t = o.op /\ src = [j \in 1 .. 2 |-> Operand(g, o.src[j])]
      BY <1>7, <2>4 DEF AsGraphOp, Binary
    <3>2. \A j \in 1 .. 2 : Reads(g, Operand(g, o.src[j]), o.src[j], n)
      BY <1>10, <1>11, <2>4, <3>1
    <3>3. QED
      BY <1>9, <2>4, <3>1, <3>2 DEF Binary
  <2>5. QED
    BY <1>7, <2>1, <2>2, <2>3, <2>4 DEF AsGraphOp
<1>13. QED
  BY <1>4, <1>5, <1>6, <1>12, Zenon DEF Computes, ComputesAs, o, n, e

(***************************************************************************)
(* Client_Compile, and what does not change until the executable is gone.  *)
(***************************************************************************)

\* The executable has the operations of the tables g.
GraphBuilt(g) ==
    /\ g \in Tables /\ g.ok /\ LoweredTo(g, Len(body)) /\ Len(body) <= BodyCap
    /\ ex.ops = g.ops /\ ex.out = g.gop[ret] /\ ex.out # 0 /\ ex.op = "none"

Compiled ==
    /\ pc \in {"trace", "ready", "refused", "run", "done", "failed"}
    /\ args \in ArgLists /\ Len(body) <= MaxOps
    /\ pc \in {"trace", "refused"} => ex = NoExecutable
    /\ pc = "trace" => ret = 0
    /\ pc # "trace" => ret \in Defined /\ AllUsed(ret) /\ NoConstantPairBesideDot
    /\ ex.graph \in BOOLEAN
    /\ ex.graph => \E g : GraphBuilt(g)
    /\ ~ ex.graph => ex.ops = << >> /\ ex.out = 0

Counters ==
    /\ k \in Nat /\ ci \in Nat /\ lost \in BOOLEAN
    /\ pc \in {"run", "done", "failed"} => DOMAIN mid = DOMAIN ex.ops

LEMMA SingleIs ==
    ASSUME NEW op
    PROVE  Single(op) = [graph |-> FALSE, op |-> op, ops |-> << >>, out |-> 0]
<1>1. Single(op) = [[graph |-> FALSE, op |-> "none", ops |-> << >>, out |-> 0] EXCEPT !.op = op]
  BY DEF Single, NoExecutable
<1>2. QED
  BY <1>1

LEMMA ExecutableIs ==
    ASSUME NEW r, NEW e \in Executable(r)
    PROVE  \/ /\ IsGraph(Lowered, r)
              /\ e = [graph |-> TRUE, op |-> "none", ops |-> Lowered.ops, out |-> Lowered.gop[r]]
           \/ /\ ~ IsGraph(Lowered, r)
              /\ \/ "npu_cached_mm" \in ModuleNames /\ e = Single("npu_cached_mm")
                 \/ "npu_cached_mm" \notin ModuleNames /\ e = Single(FirstFound)
<1>1. CASE IsGraph(Lowered, r)
  BY <1>1 DEF Executable
<1>2. CASE ~ IsGraph(Lowered, r) /\ "npu_cached_mm" \in ModuleNames
  BY <1>2 DEF Executable
<1>3. CASE ~ IsGraph(Lowered, r) /\ "npu_cached_mm" \notin ModuleNames
  BY <1>3 DEF Executable
<1>4. QED
  BY <1>1, <1>2, <1>3

LEMMA LoweredStays ==
    ASSUME UNCHANGED <<args, body>>, NEW g, g \in Tables, LoweredTo(g, Len(body))
    PROVE  g \in Tables' /\ LoweredTo(g, Len(body))'
<1>1. args' = args /\ body' = body
  OBVIOUS
<1>2. Defined' = Defined
  BY <1>1 DEF Defined
<1>3. Tables' = Tables
  BY <1>2 DEF Tables
<1>4. Numbered(g) => Numbered(g)'
  BY <1>1, <1>2 DEF Numbered
<1>5. \A v : Readable(g, v)' <=> Readable(g, v)
  BY <1>1 DEF Readable
<1>6. \A v : /\ Data(g, v)' <=> Data(g, v)
             /\ Source(g, v)' = Source(g, v)
             /\ Operand(g, v)' = Operand(g, v)
  BY <1>1, <1>5 DEF Data, Source, Operand
<1>7. \A o, j : Relu(g, o, j)' <=> Relu(g, o, j)
  BY <1>6 DEF Relu
<1>8. \A o, t, src : AsGraphOp(g, o, t, src) => AsGraphOp(g, o, t, src)'
  BY <1>6, <1>7 DEF AsGraphOp
<1>9. \A v, o : Translates(g, v, o) => Translates(g, v, o)'
  BY <1>8 DEF Translates
<1>10. LoweredTo(g, Len(body)) => LoweredTo(g, Len(body))'
  <2>1. SUFFICES ASSUME LoweredTo(g, Len(body)) PROVE LoweredTo(g, Len(body))'
    OBVIOUS
  <2>2. Len(g.ops) <= GraphCap
    BY <2>1 DEF LoweredTo
  <2>3. \A v \in Defined' : v \notin Len(args') + 1 .. Len(args') + Len(body') =>
                              g.gop[v] = 0 /\ g.cval[v] = "none"
    BY <1>1, <1>2, <2>1 DEF LoweredTo
  <2>4. Numbered(g)'
    BY <1>4, <2>1 DEF LoweredTo
  <2>5. \A j \in 1 .. Len(body') : Translates(g, Len(args) + j, body[j])'
    <3>1. ASSUME NEW j \in 1 .. Len(body') PROVE Translates(g, Len(args) + j, body[j])'
      <4>1. Translates(g, Len(args) + j, body[j])
        BY <1>1, <2>1 DEF LoweredTo
      <4>2. QED
        BY <1>1, <1>8, <4>1 DEF Translates
    <3>2. QED
      BY <3>1
  <2>6. g.hasConst <=> \E j \in 1 .. Len(body') : ReadsConst(g, body'[j])
    BY <1>1, <2>1 DEF LoweredTo
  <2>7. QED
    BY <2>2, <2>3, <2>4, <2>5, <2>6 DEF LoweredTo
<1>11. QED
  BY <1>3, <1>10

LEMMA BuiltStays ==
    ASSUME UNCHANGED <<args, body, ret, ex>>, NEW g, GraphBuilt(g)
    PROVE  GraphBuilt(g)'
<1>1. g \in Tables' /\ LoweredTo(g, Len(body))'
  BY LoweredStays DEF GraphBuilt
<1>2. QED
  BY <1>1 DEF GraphBuilt

LEMMA CompiledStays ==
    ASSUME Compiled, UNCHANGED <<args, body, ret, ex>>,
           pc' \in {"ready", "run", "done", "failed"}, pc \in {"ready", "run", "done", "failed"}
    PROVE  Compiled'
<1>1. args' = args /\ body' = body /\ ret' = ret /\ ex' = ex
  OBVIOUS
<1>2. ret' \in Defined' /\ NoConstantPairBesideDot' /\ AllUsed(ret)'
  BY <1>1 DEF Defined, AllUsed, NoConstantPairBesideDot, Compiled
<1>3. ex.graph => \E g : GraphBuilt(g)'
  BY BuiltStays DEF Compiled
<1>4. QED
  BY <1>1, <1>2, <1>3 DEF Compiled

LEMMA CompileBuilds ==
    ASSUME Function, Compiled, Compile
    PROVE  Compiled'
<1>1. PICK r \in Defined :
          /\ AllUsed(r) /\ ret' = r
          /\ \/ Executable(r) = {} /\ pc' = "refused" /\ UNCHANGED ex
             \/ pc' = "ready" /\ ex' \in Executable(r)
  BY DEF Compile
<1>2. pc = "trace" /\ NoConstantPairBesideDot /\ args' = args /\ body' = body
  BY DEF Compile
<1>3. ret' \in Defined' /\ NoConstantPairBesideDot' /\ AllUsed(ret)'
  BY <1>1, <1>2 DEF Defined, AllUsed, NoConstantPairBesideDot
<1>4. args' \in ArgLists /\ Len(body') <= MaxOps
  BY <1>2 DEF Compiled
<1>5. CASE pc' = "refused" /\ UNCHANGED ex
  <2>1. ex' = NoExecutable
    BY <1>2, <1>5 DEF Compiled
  <2>2. ex'.graph = FALSE /\ ex'.ops = << >> /\ ex'.out = 0
    BY <2>1 DEF NoExecutable
  <2>3. QED
    BY <1>3, <1>4, <1>5, <2>1, <2>2 DEF Compiled
<1>6. CASE pc' = "ready" /\ ex' \in Executable(r)
  <2>1. CASE IsGraph(Lowered, r)
    <3>1. PICK g : g = Lowered
      OBVIOUS
    <3>2. ex' = [graph |-> TRUE, op |-> "none", ops |-> g.ops, out |-> g.gop[r]]
      BY <1>6, <2>1, <3>1, ExecutableIs
    <3>3. g.ok /\ Len(body) \in 1 .. BodyCap /\ g.gop[r] # 0
      BY <2>1, <3>1 DEF IsGraph
    <3>4. g \in Tables /\ LoweredTo(g, Len(body))
      <4>1. g = Lowering[Len(body)] /\ Len(body) \in 0 .. Len(body)
        BY <3>1, LoweringIs, FunctionIs
      <4>2. QED
        BY <3>3, <4>1, LoweredIs
    <3>5. g \in Tables' /\ LoweredTo(g, Len(body))'
      BY <1>2, <3>4, LoweredStays
    <3>6. GraphBuilt(g)'
      BY <1>1, <1>2, <3>2, <3>3, <3>5, ProgramAssumption DEF GraphBuilt
    <3>7. ex'.graph = TRUE
      BY <3>2
    <3>8. QED
      BY <1>3, <1>4, <1>6, <3>6, <3>7 DEF Compiled
  <2>2. CASE ~ IsGraph(Lowered, r)
    <3>1. PICK op : ex' = Single(op)
      BY <1>6, <2>2, ExecutableIs
    <3>2. ex'.graph = FALSE /\ ex'.ops = << >> /\ ex'.out = 0
      BY <3>1, SingleIs
    <3>3. QED
      BY <1>3, <1>4, <1>6, <3>2 DEF Compiled
  <2>3. QED
    BY <2>1, <2>2
<1>7. QED
  BY <1>1, <1>5, <1>6

LEMMA CompiledInit == Init => Compiled
  BY ProgramAssumption DEF Init, Compiled, NoExecutable

LEMMA CompiledStep == Function /\ Compiled /\ [Next]_vars => Compiled'
<1> SUFFICES ASSUME Function, Compiled, [Next]_vars PROVE Compiled'
  OBVIOUS
<1>1. CASE Trace
  <2>1. pc = "trace" /\ pc' = pc /\ args' = args /\ ret' = ret /\ ex' = ex
    BY <1>1 DEF Trace
  <2>2. Len(body') <= MaxOps
    <3>1. Len(body) < MaxOps /\ \E o : body' = Append(body, o)
      BY <1>1 DEF Trace
    <3>2. body \in Seq(Op) /\ MaxOps \in Nat
      BY ProgramAssumption DEF Function
    <3>3. QED
      BY <3>1, <3>2
  <2>3. ex'.graph = FALSE /\ ex'.ops = << >> /\ ex'.out = 0 /\ ex' = NoExecutable
    BY <2>1 DEF Compiled, NoExecutable
  <2>4. QED
    BY <2>1, <2>2, <2>3 DEF Compiled
<1>2. CASE Compile
  BY <1>2, CompileBuilds
<1>3. CASE Execute \/ DeviceOp \/ HostOp \/ SingleOp \/ SubmitFails
  <2>1. UNCHANGED <<args, body, ret, ex>>
    BY <1>3, Zenon DEF Execute, DeviceOp, HostOp, SingleOp, SubmitFails
  <2>2. pc \in {"ready", "run", "done", "failed"} /\ pc' \in {"ready", "run", "done", "failed"}
    BY <1>3, Zenon DEF Execute, DeviceOp, HostOp, SingleOp, SubmitFails
  <2>3. QED
    BY <2>1, <2>2, CompiledStays, Zenon
<1>4. CASE Drop
  <2>1. pc' = "trace" /\ args' \in ArgLists /\ body' = << >> /\ ret' = 0 /\ ex' = NoExecutable
    BY <1>4 DEF Drop
  <2>2. ex'.graph = FALSE /\ ex'.ops = << >> /\ ex'.out = 0
    BY <2>1 DEF NoExecutable
  <2>3. Len(body') <= MaxOps
    <3>1. Len(body') = 0 /\ MaxOps \in Nat
      BY <2>1, ProgramAssumption
    <3>2. QED
      BY <3>1
  <2>4. QED
    BY <2>1, <2>2, <2>3 DEF Compiled
<1>5. CASE UNCHANGED vars
  <2>1. args' = args /\ body' = body /\ ret' = ret /\ ex' = ex /\ pc' = pc
    BY <1>5 DEF vars
  <2>2. CASE pc \in {"ready", "run", "done", "failed"}
    BY <2>1, <2>2, CompiledStays
  <2>3. CASE pc \in {"trace", "refused"}
    <3>1. ex'.graph = FALSE /\ ex'.ops = << >> /\ ex'.out = 0
      BY <2>1, <2>3 DEF Compiled, NoExecutable
    <3>2. pc # "trace" => ret' \in Defined' /\ NoConstantPairBesideDot' /\ AllUsed(ret)'
      BY <2>1 DEF Defined, AllUsed, NoConstantPairBesideDot, Compiled
    <3>3. QED
      BY <2>1, <2>3, <3>1, <3>2 DEF Compiled
  <2>4. QED
    BY <2>2, <2>3 DEF Compiled
<1>6. QED
  BY <1>1, <1>2, <1>3, <1>4, <1>5 DEF Next

LEMMA CountersStep == Compiled /\ Counters /\ [Next]_vars => Counters'
<1> SUFFICES ASSUME Compiled, Counters, [Next]_vars PROVE Counters'
  OBVIOUS
<1>1. CASE Trace \/ Compile
  BY <1>1 DEF Trace, Compile, Counters
<1>2. CASE Execute
  BY <1>2 DEF Execute, Counters
<1>3. CASE DeviceOp
  BY <1>3, SMTT(40) DEF DeviceOp, Counters
<1>4. CASE HostOp
  BY <1>4 DEF HostOp, Counters
<1>5. CASE SingleOp
  BY <1>5 DEF SingleOp, Counters
<1>6. CASE SubmitFails
  BY <1>6 DEF SubmitFails, Counters
<1>7. CASE Drop
  BY <1>7 DEF Drop, Counters
<1>8. CASE UNCHANGED vars
  BY <1>8 DEF vars, Counters
<1>9. QED
  BY <1>1, <1>2, <1>3, <1>4, <1>5, <1>6, <1>7, <1>8 DEF Next

\* Each operation of the executable is one of the function's.
LEMMA BuiltOp ==
    ASSUME Function, NEW g, GraphBuilt(g), NEW n \in 1 .. Len(ex.ops)
    PROVE  \E v \in Defined : g.gop[v] = n /\ Computes(g, v)
<1>1. g \in Tables /\ LoweredTo(g, Len(body)) /\ ex.ops = g.ops
  BY DEF GraphBuilt
<1>2. PICK v \in Defined : g.gop[v] = n
  BY <1>1 DEF LoweredTo, Numbered
<1>3. g.gop[v] # 0
  BY <1>2
<1>4. Computes(g, v)
  BY <1>1, <1>3, GraphOpIs
<1>5. QED
  BY <1>2, <1>4

LEMMA ReadsBefore ==
    ASSUME Function, NEW g, NEW s, NEW u, NEW n, Reads(g, s, u, n)
    PROVE  Before(n, s)
<1>1. DOMAIN args = 1 .. Len(args)
  BY DEF Function
<1>2. QED
  BY <1>1 DEF Reads, Before, FromArg, FromOp, FromConst, Baked

LEMMA TypeFollows == Function /\ Compiled /\ Counters => TypeOK
<1> SUFFICES ASSUME Function, Compiled, Counters PROVE TypeOK
  OBVIOUS
<1>1. /\ Len(args) \in Nat /\ Len(args) >= 1 /\ Len(body) \in Nat /\ Last \in Nat
      /\ Defined = 1 .. Last /\ Last = Len(args) + Len(body) /\ GraphCap \in Nat
  BY FunctionIs
<1>2. ret \in 0 .. Len(args) + Len(body)
  <2>1. ret = 0 \/ ret \in Defined
    BY DEF Compiled
  <2>2. QED
    BY <1>1, <2>1
<1>3. CASE ~ ex.graph
  <2>1. ex.ops = << >> /\ ex.out = 0
    BY <1>3 DEF Compiled
  <2>2. DOMAIN ex.ops = {} /\ Len(ex.ops) = 0
    BY <2>1
  <2>3. QED
    BY <1>1, <1>2, <1>3, <2>1, <2>2 DEF TypeOK, Compiled, Counters
<1>4. CASE ex.graph
  <2>1. PICK g : GraphBuilt(g)
    BY <1>4 DEF Compiled
  <2>2. /\ g \in Tables /\ LoweredTo(g, Len(body)) /\ ex.ops = g.ops /\ g.ops \in Seq(GraphOp)
        /\ ex.out = g.gop[ret] /\ ex.out # 0 /\ g.gop \in [Defined -> Nat]
    BY <2>1 DEF GraphBuilt, Tables
  <2>3. ret \in Defined
    BY <2>2, <1>4 DEF Compiled, NoExecutable
  <2>4. ex.out \in 0 .. Len(ex.ops)
    BY <2>2, <2>3 DEF LoweredTo, Numbered
  <2>5. DOMAIN ex.ops = 1 .. Len(ex.ops) /\ Len(ex.ops) <= GraphCap
    BY <2>2 DEF LoweredTo
  <2>6. ASSUME NEW n \in 1 .. Len(ex.ops)
        PROVE  /\ ex.ops[n].t \in Binary \cup {"relu", "tanh", "dot_general"}
               /\ \A j \in DOMAIN ex.ops[n].src : Before(n, ex.ops[n].src[j])
    <3>1. PICK v \in Defined : g.gop[v] = n /\ Computes(g, v)
      BY <2>1, BuiltOp
    <3>2. \A s, u : Reads(g, s, u, n) => Before(n, s)
      BY ReadsBefore
    <3>3. QED
      BY <2>2, <3>1, <3>2 DEF Computes, ComputesAs
  <2>7. QED
    BY <1>2, <1>4, <2>2, <2>4, <2>5, <2>6 DEF TypeOK, Compiled, Counters
<1>5. QED
  BY <1>3, <1>4

\* Every variable has its type: the operands of an operation of the graph are
\* arguments of the function or results of operations before it, and the graph
\* fits its table (npu_parse_graph).
THEOREM ProgramTyped == Spec => []TypeOK
<1>1. Init => Function /\ Compiled /\ Counters
  <2>1. ASSUME Init PROVE Counters
    <3>1. pc = "trace" /\ k = 0 /\ ci = 0 /\ lost = FALSE
      BY <2>1 DEF Init
    <3>2. QED
      BY <3>1 DEF Counters
  <2>2. QED
    BY <2>1, FunctionInit, CompiledInit
<1>2. Function /\ Compiled /\ Counters /\ [Next]_vars => (Function /\ Compiled /\ Counters)'
  BY FunctionStep, CompiledStep, CountersStep
<1>3. QED
  BY <1>1, <1>2, TypeFollows, PTL DEF Spec

(***************************************************************************)
(* What the values mean.                                                   *)
(***************************************************************************)
LEMMA Greatest ==
    ASSUME NEW n \in Nat, NEW T, T \in SUBSET (0 .. n), T # {}
    PROVE  \E x \in T : \A y \in T : y <= x
<1> DEFINE U == {n - y : y \in T}
<1>1. U \in SUBSET Nat /\ U # {}
  <2>1. \A y \in T : n - y \in Nat
    OBVIOUS
  <2>2. QED
    BY <2>1
<1>2. PICK z \in U : \A y \in U : z <= y
  <2> HIDE DEF U
  <2>1. QED
    BY <1>1, Least
<1>3. PICK x \in T : z = n - x
  BY <1>2
<1>4. ASSUME NEW y \in T PROVE y <= x
  <2>1. n - y \in U /\ x \in 0 .. n /\ y \in 0 .. n
    OBVIOUS
  <2>2. n - x <= n - y
    BY <1>2, <1>3, <2>1
  <2>3. QED
    BY <2>1, <2>2
<1>5. QED
  BY <1>4

LEMMA ArgumentIs ==
    ASSUME Function, NEW v \in 1 .. Len(args)
    PROVE  /\ V[v] = [c \in 1 .. Chunks[Shape(v)] |-> Argument(v, c)]
           /\ Shape(v) = args[v] /\ v \in Defined
<1>1. Defined = 1 .. Last /\ Last = Len(args) + Len(body) /\ Len(args) \in Nat /\ Len(body) \in Nat
  BY FunctionIs
<1>2. v \in 1 .. Last /\ v \in Defined /\ Shape(v) = args[v]
  BY <1>1 DEF Shape, ShapeOf
<1>3. V[v] = ArgumentTensor(args, v)
  BY <1>2, ValuesAre DEF TensorOf
<1>4. QED
  BY <1>2, <1>3 DEF ArgumentTensor

LEMMA ResultIs ==
    ASSUME Function, NEW v \in Defined, v > Len(args)
    PROVE  /\ V[v] = Result(OpOf(v), V) /\ Shape(v) = OpOf(v).shape
           /\ LegalOp(OpOf(v), v) /\ OpOf(v) \in Op
           /\ v - Len(args) \in 1 .. Len(body)
<1>1. Defined = 1 .. Last /\ Last = Len(args) + Len(body) /\ Len(args) \in Nat /\ Len(body) \in Nat
  BY FunctionIs
<1>2. v \in 1 .. Last /\ v - Len(args) \in 1 .. Len(body) /\ Len(args) + (v - Len(args)) = v
  BY <1>1
<1>3. ~ (v <= Len(args))
  BY <1>1, <1>2
<1>4. V[v] = Result(OpOf(v), V) /\ Shape(v) = OpOf(v).shape
  BY <1>2, <1>3, ValuesAre DEF TensorOf, OpOf, Shape, ShapeOf
<1>5. LegalOp(OpOf(v), v) /\ OpOf(v) \in Op
  <2>1. /\ body[v - Len(args)] \in Op
        /\ LegalOp(body[v - Len(args)], Len(args) + (v - Len(args)))
    BY <1>2, FunctionIs
  <2>2. QED
    BY <1>2, <2>1 DEF OpOf
<1>6. QED
  BY <1>2, <1>4, <1>5

LEMMA ChunksAre ==
    ASSUME Function, NEW v \in Defined
    PROVE  Chunks[Shape(v)] \in Nat /\ Chunks[Shape(v)] >= 1
<1>1. Shape(v) \in DOMAIN Chunks
  BY FunctionIs
<1>2. Chunks[Shape(v)] \in Nat \ {0}
  BY <1>1, ShapeAssumption DEF ShapeAssumption
<1>3. QED
  BY <1>2

\* The chunk c of an element-wise operation.
LEMMA ElementwiseIs ==
    ASSUME Function, NEW v \in Defined, v > Len(args),
           OpOf(v).op \in Binary \cup {"maximum", "tanh", "relu_call", "silu_call"},
           NEW c \in 1 .. Chunks[Shape(v)]
    PROVE  V[v][c] = Elementwise(OpOf(v).op, [j \in DOMAIN OpOf(v).src |-> V[OpOf(v).src[j]][c]])
<1> DEFINE o == OpOf(v)
<1>1. V[v] = Result(o, V) /\ Shape(v) = o.shape
  BY ResultIs
<1> HIDE DEF o
<1>2. o.op \notin {"constant", "broadcast_in_dim", "dot_general", "npu_cached_mm"}
  BY Zenon DEF Binary, o
<1>3. Result(o, V)[c] = Elementwise(o.op, [j \in DOMAIN o.src |-> V[o.src[j]][c]])
  BY <1>1, <1>2 DEF Result
<1>4. QED
  BY <1>1, <1>3 DEF o

LEMMA DomainIs ==
    ASSUME Function, NEW v \in Defined
    PROVE  V[v] = [c \in 1 .. Chunks[Shape(v)] |-> V[v][c]]
<1>1. CASE v <= Len(args)
  <2>1. v \in 1 .. Len(args)
    BY <1>1, FunctionIs, SMTT(40)
  <2>2. QED
    BY <2>1, ArgumentIs
<1>2. CASE v > Len(args)
  <2>1. V[v] = Result(OpOf(v), V) /\ Shape(v) = OpOf(v).shape
    BY <1>2, ResultIs, Zenon
  <2>2. QED
    BY <2>1, Zenon DEF Result
<1>3. QED
  BY <1>1, <1>2, FunctionIs

LEMMA DotIs ==
    ASSUME Function, NEW v \in Defined, v > Len(args), OpOf(v).op = "dot_general"
    PROVE  V[v] = Dot(V[OpOf(v).src[1]], V[OpOf(v).src[2]], Shape(v))
<1> DEFINE o == OpOf(v)
<1>1. V[v] = Result(o, V) /\ Shape(v) = o.shape
  BY ResultIs
<1>2. o.op = "dot_general"
  OBVIOUS
<1> HIDE DEF o
<1>3. Result(o, V) = [c \in 1 .. Chunks[o.shape] |-> Dot(V[o.src[1]], V[o.src[2]], o.shape)[c]]
  BY <1>2 DEF Result
<1>4. Dot(V[o.src[1]], V[o.src[2]], o.shape)
        = [c \in 1 .. Chunks[o.shape] |-> Dot(V[o.src[1]], V[o.src[2]], o.shape)[c]]
  BY DEF Dot
<1>5. QED
  BY <1>1, <1>3, <1>4 DEF o

\* The tables' constants are the values'.
LEMMA ConstMeaning ==
    ASSUME Function, NEW g \in Tables, LoweredTo(g, Len(body)), NEW v \in Defined, Baked(g, v),
           NEW c \in 1 .. Chunks[Shape(v)]
    PROVE  V[v][c] = Constant(g.cval[v])
<1> DEFINE Right(u) == \A d \in 1 .. Chunks[Shape(u)] : V[u][d] = Constant(g.cval[u])
           T == {u \in Defined : Baked(g, u) /\ ~ Right(u)}
<1>1. /\ Len(args) \in Nat /\ Len(args) >= 1 /\ Len(body) \in Nat /\ Last \in Nat
      /\ Defined = 1 .. Last /\ Last = Len(args) + Len(body)
  BY FunctionIs
<1>2. ASSUME T # {} PROVE FALSE
  <2>1. T \in SUBSET Nat
    BY <1>1
  <2>2. PICK u \in T : \A w \in T : u <= w
    <3> HIDE DEF T
    <3>1. QED
      BY <1>2, <2>1, Least
  <2>3. u \in Defined /\ Baked(g, u) /\ ~ Right(u)
    BY <2>2
  <2>4. u > Len(args)
    <3>1. CASE u <= Len(args)
      <4>1. u \notin Len(args) + 1 .. Len(args) + Len(body)
        BY <1>1, <2>3, <3>1
      <4>2. g.cval[u] = "none"
        BY <2>3, <4>1 DEF LoweredTo
      <4>3. QED
        BY <2>3, <4>2 DEF Baked
    <3>2. QED
      BY <1>1, <2>3, <3>1
  <2> DEFINE o == OpOf(u)
  <2>5. /\ V[u] = Result(o, V) /\ Shape(u) = o.shape
        /\ LegalOp(o, u) /\ u - Len(args) \in 1 .. Len(body)
    BY <2>3, <2>4, ResultIs
  <2>6. Translates(g, u, o)
    <3>1. Translates(g, Len(args) + (u - Len(args)), body[u - Len(args)])
      BY <2>5 DEF LoweredTo
    <3>2. Len(args) + (u - Len(args)) = u
      BY <1>1, <2>3
    <3>3. QED
      BY <3>1, <3>2 DEF OpOf
  <2> HIDE DEF o
  <2>7. g.cval[u] # "none" /\ g.cval[u] # "table"
    BY <2>3 DEF Baked
  <2>8. CASE o.op = "constant" /\ g.cval[u] = o.val
    <3>1. \A d \in 1 .. Chunks[Shape(u)] : Result(o, V)[d] = Constant(o.val)
      BY <2>5, <2>7, <2>8 DEF Result
    <3>2. QED
      BY <2>3, <2>5, <2>8, <3>1
  <2>9. CASE o.op = "broadcast_in_dim" /\ g.cval[u] = g.cval[o.src[1]]
    <3>1. o.src[1] \in 1 .. u - 1
      BY <2>5, <2>9 DEF LegalOp, Earlier, Binary, Unary
    <3>2. o.src[1] \in Defined /\ o.src[1] < u
      BY <1>1, <2>3, <3>1
    <3>3. Baked(g, o.src[1])
      BY <2>3, <2>9 DEF Baked
    <3>4. Right(o.src[1])
      BY <1>1, <2>2, <2>3, <3>2, <3>3
    <3>5. 1 \in 1 .. Chunks[Shape(o.src[1])]
      BY <3>2, ChunksAre
    <3>6. V[o.src[1]][1] = Constant(g.cval[u])
      BY <2>9, <3>4, <3>5
    <3>7. V[o.src[1]][1][1] = "const"
      BY <3>6 DEF Constant
    <3>8. \A d \in 1 .. Chunks[Shape(u)] : Result(o, V)[d] = V[o.src[1]][1]
      BY <2>5, <2>9, <3>7 DEF Result
    <3>9. QED
      BY <2>3, <2>5, <3>6, <3>8
  <2>10. QED
    BY <2>6, <2>7, <2>8, <2>9 DEF Translates, Emitted
<1>3. QED
  BY <1>2

(***************************************************************************)
(* Every value is used: what AllUsed says of the tables.                   *)
(***************************************************************************)

\* The value returned, and the tables of a function that became a graph.
Whole(g) ==
    /\ g \in Tables /\ LoweredTo(g, Len(body))
    /\ ret \in Defined /\ g.gop[ret] # 0 /\ AllUsed(ret)

\* A value that is used, and is not a constant, is used by an operation of the graph.
LEMMA UserOf ==
    ASSUME Function, NEW g, Whole(g), NEW u \in Defined, u # ret
    PROVE  \E w \in Defined : \E j \in DOMAIN OpOf(w).src :
              /\ u < w /\ w > Len(args) /\ OpOf(w).src[j] = u
              /\ LegalOp(OpOf(w), w) /\ Translates(g, w, OpOf(w))
              /\ Shape(w) = OpOf(w).shape /\ OpOf(w).op # "constant"
<1>1. /\ Len(args) \in Nat /\ Len(args) >= 1 /\ Len(body) \in Nat /\ Last \in Nat
      /\ Defined = 1 .. Last /\ Last = Len(args) + Len(body)
  BY FunctionIs
<1>2. PICK i \in DOMAIN body : \E j \in DOMAIN body[i].src : body[i].src[j] = u
  BY DEF Whole, AllUsed
<1>3. PICK j \in DOMAIN body[i].src : body[i].src[j] = u
  BY <1>2
<1>4. i \in 1 .. Len(body)
  <2>1. body \in Seq(Op)
    BY DEF Function
  <2>2. QED
    BY <1>2, <2>1
<1> DEFINE w == Len(args) + i
<1>5. w \in Defined /\ w > Len(args) /\ OpOf(w) = body[i]
  <2>1. w - Len(args) = i
    BY <1>1, <1>4
  <2>2. QED
    BY <1>1, <1>4, <2>1 DEF OpOf
<1>6. LegalOp(OpOf(w), w) /\ Shape(w) = OpOf(w).shape
  BY <1>5, ResultIs
<1>7. Translates(g, w, OpOf(w))
  BY <1>4, <1>5 DEF Whole, LoweredTo
<1>8. u < w /\ OpOf(w).op # "constant"
  <2>1. /\ \A h \in DOMAIN OpOf(w).src : OpOf(w).src[h] \in 1 .. w - 1
        /\ OpOf(w).op = "constant" => DOMAIN OpOf(w).src = 1 .. 0
    <3> HIDE DEF w
    <3>1. QED
      BY <1>6 DEF LegalOp, Earlier, Binary, Unary
  <2>2. j \in DOMAIN OpOf(w).src /\ OpOf(w).src[j] = u
    BY <1>3, <1>5
  <2>3. w \in Nat
    BY <1>1, <1>4
  <2> HIDE DEF w
  <2>4. QED
    BY <2>1, <2>2, <2>3
<1>9. QED
  BY <1>3, <1>5, <1>6, <1>7, <1>8

LEMMA AllReadable ==
    ASSUME Function, NEW g, Whole(g), NEW v \in Defined, g.cval[v] = "none"
    PROVE  Readable(g, v)
<1> DEFINE T == {u \in Defined : g.cval[u] = "none" /\ ~ Readable(g, u)}
<1>1. /\ Len(args) \in Nat /\ Len(args) >= 1 /\ Len(body) \in Nat /\ Last \in Nat
      /\ Defined = 1 .. Last /\ Last = Len(args) + Len(body)
      /\ g \in Tables /\ LoweredTo(g, Len(body))
  BY FunctionIs DEF Whole
<1>2. ASSUME T # {} PROVE FALSE
  <2>1. T \in SUBSET (0 .. Last)
    BY <1>1
  <2>2. PICK u \in T : \A w \in T : w <= u
    <3> HIDE DEF T
    <3>1. QED
      BY <1>1, <1>2, <2>1, Greatest
  <2>3. u \in Defined /\ g.cval[u] = "none" /\ u > Len(args) /\ g.gop[u] = 0
    BY <1>1, <2>2 DEF Readable
  <2>4. u # ret
    BY <2>3 DEF Whole
  <2>5. PICK w \in Defined : \E j \in DOMAIN OpOf(w).src :
              /\ u < w /\ w > Len(args) /\ OpOf(w).src[j] = u
              /\ LegalOp(OpOf(w), w) /\ Translates(g, w, OpOf(w))
              /\ OpOf(w).op # "constant"
    BY <2>3, <2>4, UserOf
  <2>10. PICK j \in DOMAIN OpOf(w).src : OpOf(w).src[j] = u
    BY <2>5
  <2> DEFINE o == OpOf(w)
  <2>6. o.op = "broadcast_in_dim" => DOMAIN o.src = 1 .. 1
    BY <2>5 DEF LegalOp, Earlier, Binary, Unary
  <2>7. CASE o.op = "broadcast_in_dim" /\ g.gop[w] = 0 /\ g.cval[w] = g.cval[o.src[1]]
    <3>1. g.cval[w] = "none"
      BY <2>3, <2>6, <2>7, <2>10
    <3>2. w \in T
      BY <1>1, <2>5, <2>7, <3>1, SMTT(40) DEF Readable
    <3>3. QED
      BY <1>1, <2>2, <2>3, <2>5, <3>2
  <2>8. CASE g.gop[w] # 0
    <3>1. Computes(g, w)
      BY <1>1, <2>8, GraphOpIs
    <3>2. \A s, n : ~ Reads(g, s, u, n)
      BY <1>1, <2>3 DEF Reads, Baked
    <3>3. o.op \in Binary \cup {"maximum", "dot_general"} => DOMAIN o.src = 1 .. 2
      BY <2>5 DEF LegalOp, Earlier, Binary, Unary
    <3>4. o.op = "tanh" => DOMAIN o.src = 1 .. 1
      BY <2>5 DEF LegalOp, Earlier, Binary, Unary
    <3>5. o.op = "maximum" => FALSE
      <4>1. SUFFICES ASSUME o.op = "maximum" PROVE FALSE
        OBVIOUS
      <4>2. PICK h \in 1 .. 2 : \E s, n : g.cval[o.src[3 - h]] = "zero" /\ Reads(g, s, o.src[h], n)
        BY <3>1, <4>1 DEF Computes, ComputesAs, Binary
      <4>3. j = h \/ j = 3 - h
        BY <2>10, <3>3, <4>1, <4>2
      <4>4. QED
        BY <2>3, <2>10, <3>2, <4>2, <4>3
    <3>6. o.op = "tanh" => FALSE
      <4>1. SUFFICES ASSUME o.op = "tanh" PROVE FALSE
        OBVIOUS
      <4>2. \E s, n : Reads(g, s, o.src[1], n)
        BY <3>1, <4>1 DEF Computes, ComputesAs, Binary
      <4>3. j = 1
        BY <2>10, <3>4, <4>1
      <4>4. QED
        BY <2>10, <3>2, <4>2, <4>3
    <3>7. o.op \in Binary \cup {"dot_general"} => FALSE
      <4>1. SUFFICES ASSUME o.op \in Binary \cup {"dot_general"} PROVE FALSE
        BY Zenon
      <4>2. \A h \in 1 .. 2 : \E s, n : Reads(g, s, o.src[h], n)
        BY <3>1, <4>1, Zenon DEF Computes, ComputesAs, Binary
      <4>3. j \in 1 .. 2
        BY <2>10, <3>3, <4>1
      <4>4. QED
        BY <2>10, <3>2, <4>2, <4>3
    <3>8. QED
      BY <3>1, <3>5, <3>6, <3>7, Zenon DEF Computes, ComputesAs
  <2>9. QED
    BY <2>5, <2>7, <2>8 DEF Translates, Emitted
<1>3. QED
  BY <1>2

\* Without a matmul all data has the shape of the result.
LEMMA DataShape ==
    ASSUME Function, NEW g, Whole(g), \A i \in DOMAIN body : body[i].op # "dot_general",
           NEW v \in Defined, g.cval[v] = "none"
    PROVE  Shape(v) = Shape(ret)
<1> DEFINE T == {u \in Defined : g.cval[u] = "none" /\ Shape(u) # Shape(ret)}
<1>1. /\ Len(args) \in Nat /\ Len(args) >= 1 /\ Len(body) \in Nat /\ Last \in Nat
      /\ Defined = 1 .. Last /\ Last = Len(args) + Len(body)
      /\ g \in Tables /\ LoweredTo(g, Len(body))
  BY FunctionIs DEF Whole
<1>2. ASSUME T # {} PROVE FALSE
  <2>1. T \in SUBSET (0 .. Last)
    BY <1>1
  <2>2. PICK u \in T : \A w \in T : w <= u
    <3> HIDE DEF T
    <3>1. QED
      BY <1>1, <1>2, <2>1, Greatest
  <2>3. u \in Defined /\ g.cval[u] = "none" /\ Shape(u) # Shape(ret)
    BY <2>2
  <2>4. u # ret
    BY <2>3
  <2>5. PICK w \in Defined : \E j \in DOMAIN OpOf(w).src :
              /\ u < w /\ w > Len(args) /\ OpOf(w).src[j] = u
              /\ LegalOp(OpOf(w), w) /\ Translates(g, w, OpOf(w))
              /\ Shape(w) = OpOf(w).shape /\ OpOf(w).op # "constant"
    BY <2>3, <2>4, UserOf
  <2>10. PICK j \in DOMAIN OpOf(w).src : OpOf(w).src[j] = u
    BY <2>5
  <2> DEFINE o == OpOf(w)
  <2>6. o.op = "broadcast_in_dim" => DOMAIN o.src = 1 .. 1
    BY <2>5 DEF LegalOp, Earlier, Binary, Unary
  <2>7. CASE o.op = "broadcast_in_dim" /\ g.gop[w] = 0 /\ g.cval[w] = g.cval[o.src[1]]
    <3>1. g.cval[w] = "none"
      BY <2>3, <2>6, <2>7, <2>10
    <3>2. Readable(g, w)
      BY <3>1, AllReadable
    <3>3. QED
      BY <1>1, <2>5, <2>7, <3>2 DEF Readable
  <2>8. CASE g.gop[w] # 0
    <3>1. Computes(g, w) /\ g.cval[w] = "none" /\ w - Len(args) \in 1 .. Len(body)
      BY <1>1, <2>8, GraphOpIs, Zenon
    <3>2. o.op # "dot_general"
      <4>1. DOMAIN body = 1 .. Len(body)
        BY DEF Function
      <4>2. QED
        BY <3>1, <4>1 DEF OpOf
    <3>3. o.op \in Binary \cup {"maximum", "tanh"}
      BY <3>1, <3>2, Zenon DEF Computes, ComputesAs
    <3>4. Shape(u) = Shape(w)
      BY <2>5, <2>10, <3>3 DEF LegalOp, Earlier, Binary, Unary
    <3>5. w \in T
      BY <2>3, <3>1, <3>4
    <3>6. QED
      BY <1>1, <2>2, <2>3, <2>5, <3>5
  <2>9. QED
    BY <2>5, <2>7, <2>8 DEF Translates, Emitted
<1>3. QED
  BY <1>2

(***************************************************************************)
(* One operation of the graph on one chunk.                                *)
(***************************************************************************)
LEMMA BuiltWhole ==
    ASSUME Function, Compiled, ex.graph, NEW g, GraphBuilt(g)
    PROVE  /\ Whole(g) /\ g \in Tables /\ LoweredTo(g, Len(body))
           /\ ex.ops = g.ops /\ ex.out = g.gop[ret] /\ ex.ops \in Seq(GraphOp)
           /\ Len(ex.ops) \in Nat /\ ex.out \in 1 .. Len(ex.ops)
           /\ pc \in {"ready", "run", "done", "failed"}
<1>1. pc \notin {"trace", "refused"}
  BY DEF Compiled, NoExecutable
<1>2. ret \in Defined /\ AllUsed(ret)
  BY <1>1 DEF Compiled
<1>3. /\ g \in Tables /\ LoweredTo(g, Len(body))
      /\ ex.ops = g.ops /\ ex.out = g.gop[ret] /\ g.gop[ret] # 0
  BY DEF GraphBuilt
<1>4. ex.ops \in Seq(GraphOp) /\ g.gop[ret] \in Nat
  BY <1>2, <1>3 DEF Tables
<1>5. ex.out \in 1 .. Len(ex.ops)
  BY <1>2, <1>3, <1>4 DEF LoweredTo, Numbered
<1>6. pc \in {"ready", "run", "done", "failed"}
  BY <1>1 DEF Compiled
<1>7. QED
  BY <1>2, <1>3, <1>4, <1>5, <1>6 DEF Whole

LEMMA MatmulIs ==
    ASSUME Function, Compiled, ex.graph, NEW g, GraphBuilt(g)
    PROVE  HasMatmul <=> \E i \in DOMAIN body : body[i].op = "dot_general"
<1>1. /\ g \in Tables /\ LoweredTo(g, Len(body)) /\ ex.ops = g.ops /\ ex.ops \in Seq(GraphOp)
  BY BuiltWhole
<1>2. DOMAIN ex.ops = 1 .. Len(ex.ops) /\ DOMAIN body = 1 .. Len(body)
  BY <1>1 DEF Function
<1>3. ASSUME NEW n \in DOMAIN ex.ops, ex.ops[n].t = "dot_general"
      PROVE  \E i \in DOMAIN body : body[i].op = "dot_general"
  <2>1. PICK v \in Defined : g.gop[v] = n /\ Computes(g, v)
    BY <1>2, BuiltOp
  <2>2. v - Len(args) \in 1 .. Len(body)
    BY <1>1, <1>2, <1>3, <2>1, GraphOpIs
  <2>3. OpOf(v).op = "dot_general"
    BY <1>1, <1>3, <2>1 DEF Computes, ComputesAs
  <2>4. QED
    BY <1>2, <2>2, <2>3 DEF OpOf
<1>4. ASSUME NEW i \in DOMAIN body, body[i].op = "dot_general"
      PROVE  HasMatmul
  <2> DEFINE v == Len(args) + i
  <2>1. v \in Defined /\ v > Len(args) /\ v - Len(args) = i /\ OpOf(v) = body[i]
    BY <1>2, FunctionIs DEF OpOf
  <2>2. Translates(g, v, body[i])
    BY <1>1, <1>2 DEF LoweredTo
  <2>3. g.gop[v] # 0
    BY <1>4, <2>2, Zenon DEF Translates, Emitted
  <2>4. Computes(g, v) /\ g.gop[v] \in 1 .. Len(g.ops)
    BY <1>1, <2>1, <2>3, GraphOpIs
  <2>5. g.ops[g.gop[v]].t = "dot_general"
    BY <1>4, <2>1, <2>4, Zenon DEF Computes, ComputesAs, Binary
  <2>6. QED
    BY <1>1, <1>2, <2>4, <2>5 DEF HasMatmul
<1>5. QED
  BY <1>3, <1>4 DEF HasMatmul

LEMMA ChunkRight ==
    ASSUME Function, NEW g \in Tables, LoweredTo(g, Len(body)), NEW s, NEW u, NEW n, Reads(g, s, u, n),
           ~ lost, ci \in 1 .. Chunks[Shape(u)], NEW before, s.from = "op" => before = V[u][ci]
    PROVE  Chunk(s, before) = V[u][ci]
<1>1. CASE s = FromArg(u) /\ u \in 1 .. Len(args)
  <2>1. /\ V[u] = [c \in 1 .. Chunks[Shape(u)] |-> Argument(u, c)]
        /\ Shape(u) = args[u]
    BY <1>1, ArgumentIs
  <2>2. Input(u) = V[u]
    BY <2>1 DEF Input, ArgumentTensor
  <2>3. s.from = "arg" /\ s.ix = u
    BY <1>1 DEF FromArg
  <2>4. QED
    BY <2>2, <2>3 DEF Chunk
<1>2. CASE s = FromOp(g.gop[u])
  BY <1>2 DEF Chunk, FromOp
<1>3. CASE s = FromConst(g.cval[u]) /\ u \in Defined /\ Baked(g, u)
  <2>1. V[u][ci] = Constant(g.cval[u])
    BY <1>3, ConstMeaning
  <2>2. s.from = "const" /\ s.ix = g.cval[u]
    BY <1>3 DEF FromConst
  <2>3. QED
    BY <2>1, <2>2 DEF Chunk
<1>4. QED
  BY <1>1, <1>2, <1>3 DEF Reads

\* The operands of an element-wise operation have its shape.
LEMMA OperandShapes ==
    ASSUME Function, NEW v \in Defined, v > Len(args), NEW o, o = OpOf(v),
           o.op \in Binary \cup {"maximum", "tanh"}
    PROVE  /\ Shape(v) = o.shape
           /\ o.op \in Binary \cup {"maximum"} => DOMAIN o.src = 1 .. 2
           /\ o.op = "tanh" => DOMAIN o.src = 1 .. 1
           /\ \A j \in DOMAIN o.src : /\ o.src[j] \in Defined /\ o.src[j] \in 1 .. v - 1
                                      /\ Shape(o.src[j]) = Shape(v)
<1>1. LegalOp(o, v) /\ Shape(v) = o.shape
  BY ResultIs
<1>2. /\ o.op \in Binary \cup {"maximum"} => DOMAIN o.src = 1 .. 2
      /\ o.op = "tanh" => DOMAIN o.src = 1 .. 1
      /\ \A j \in DOMAIN o.src : Shape(o.src[j]) = o.shape /\ o.src[j] \in 1 .. v - 1
  BY <1>1 DEF LegalOp, Earlier, Binary, Unary
<1>3. Defined = 1 .. Last /\ Last \in Nat
  BY FunctionIs
<1>4. \A u \in 1 .. v - 1 : u \in Defined
  BY <1>3
<1>5. QED
  BY <1>1, <1>2, <1>4

\* t has the chunks c of what the graph's operation for v reads.
ReadsChunks(g, v, t, c) ==
    /\ t = [h \in DOMAIN g.ops[g.gop[v]].src |-> t[h]]
    /\ \A h \in DOMAIN t : \A u \in Defined :
          Reads(g, g.ops[g.gop[v]].src[h], u, g.gop[v]) /\ Shape(u) = Shape(v) => t[h] = V[u][c]

\* Element-wise operations: from the chunks of the operands, the chunk of the value.
LEMMA ElementwiseRight ==
    ASSUME Function, NEW g \in Tables, LoweredTo(g, Len(body)), NEW v \in Defined, g.gop[v] # 0,
           OpOf(v).op # "dot_general", NEW c \in 1 .. Chunks[Shape(v)],
           NEW t, ReadsChunks(g, v, t, c)
    PROVE  Elementwise(g.ops[g.gop[v]].t, t) = V[v][c]
<1>1. PICK o, n, e : o = OpOf(v) /\ n = g.gop[v] /\ e = g.ops[n]
  OBVIOUS
<1>2. Computes(g, v) /\ v > Len(args)
  BY GraphOpIs
<1>12. ComputesAs(g, o, e, n)
  BY <1>1, <1>2, Zenon DEF Computes
<1>3. o.op \in Binary \cup {"maximum", "tanh"}
  BY <1>1, <1>12, Zenon DEF ComputesAs
<1>4. /\ \A j \in DOMAIN o.src : o.src[j] \in Defined /\ Shape(o.src[j]) = Shape(v)
      /\ o.op \in Binary \cup {"maximum"} => DOMAIN o.src = 1 .. 2
      /\ o.op = "tanh" => DOMAIN o.src = 1 .. 1
  BY <1>1, <1>2, <1>3, OperandShapes
<1>5. PICK w : w = [j \in DOMAIN o.src |-> V[o.src[j]][c]]
  BY Zenon
<1>6. V[v][c] = Elementwise(o.op, w)
  <2>1. OpOf(v).op \in Binary \cup {"maximum", "tanh", "relu_call", "silu_call"}
    BY <1>1, <1>3
  <2>2. V[v][c] = Elementwise(OpOf(v).op, [j \in DOMAIN OpOf(v).src |-> V[OpOf(v).src[j]][c]])
    BY <1>2, <2>1, ElementwiseIs, Zenon
  <2>3. QED
    BY <1>1, <1>5, <2>2
<1>7. /\ t = [h \in DOMAIN e.src |-> t[h]] /\ DOMAIN t = DOMAIN e.src
      /\ \A h \in DOMAIN e.src : \A u \in Defined :
            Reads(g, e.src[h], u, n) /\ Shape(u) = Shape(v) => t[h] = V[u][c]
  BY <1>1 DEF ReadsChunks
<1>8. CASE o.op \in Binary
  <2>1. /\ e.t = o.op /\ DOMAIN e.src = 1 .. 2
        /\ \A j \in 1 .. 2 : Reads(g, e.src[j], o.src[j], n)
    BY <1>8, <1>12 DEF ComputesAs, Binary
  <2>2. DOMAIN o.src = 1 .. 2
    BY <1>4, <1>8
  <2>3. \A j \in 1 .. 2 : t[j] = V[o.src[j]][c]
    BY <1>4, <1>7, <2>1, <2>2
  <2>4. t = w
    BY <1>5, <1>7, <2>1, <2>2, <2>3
  <2>5. QED
    BY <1>1, <1>6, <2>1, <2>4
<1>9. CASE o.op = "tanh"
  <2>1. e.t = o.op /\ DOMAIN e.src = 1 .. 1 /\ Reads(g, e.src[1], o.src[1], n)
    BY <1>9, <1>12 DEF ComputesAs, Binary
  <2>2. DOMAIN o.src = 1 .. 1
    BY <1>4, <1>9
  <2>3. \A j \in 1 .. 1 : t[j] = V[o.src[j]][c]
    BY <1>4, <1>7, <2>1, <2>2
  <2>4. t = w
    BY <1>5, <1>7, <2>1, <2>2, <2>3
  <2>5. QED
    BY <1>1, <1>6, <2>1, <2>4
<1>10. CASE o.op = "maximum"
  <2>1. e.t = "relu" /\ DOMAIN e.src = 1 .. 1
    BY <1>10, <1>12 DEF ComputesAs, Binary
  <2>2. PICK j \in 1 .. 2 : g.cval[o.src[3 - j]] = "zero" /\ Reads(g, e.src[1], o.src[j], n)
    BY <1>10, <1>12 DEF ComputesAs, Binary
  <2>3. PICK z : z = 3 - j
    OBVIOUS
  <2>4. DOMAIN o.src = 1 .. 2 /\ z \in 1 .. 2
    BY <1>4, <1>10, <2>3
  <2>5. V[o.src[z]][c] = Constant("zero")
    <3>1. PICK u : u = o.src[z]
      OBVIOUS
    <3>2. u \in Defined /\ Shape(u) = Shape(v) /\ g.cval[u] = "zero"
      BY <1>4, <2>2, <2>3, <2>4, <3>1
    <3>3. Baked(g, u)
      BY <3>2 DEF Baked
    <3>4. V[u][c] = Constant(g.cval[u])
      BY <3>2, <3>3, ConstMeaning
    <3>5. QED
      BY <3>1, <3>2, <3>4
  <2>6. w[z] = Constant("zero") /\ w[j] = V[o.src[j]][c]
    BY <1>5, <2>4, <2>5
  <2>7. t[1] = V[o.src[j]][c]
    <3>1. o.src[j] \in Defined /\ Shape(o.src[j]) = Shape(v) /\ 1 \in DOMAIN e.src
      BY <1>4, <2>1, <2>4
    <3>2. QED
      BY <1>7, <2>2, <3>1, Zenon
  <2>8. Elementwise("maximum", w) = IF w[2] = Constant("zero") THEN <<"relu", w[1]>>
                                    ELSE IF w[1] = Constant("zero") THEN <<"relu", w[2]>>
                                    ELSE <<"maximum", w[1], w[2]>>
    BY DEF Elementwise, Binary
  <2>9. Elementwise("maximum", w) = <<"relu", w[j]>>
    <3>1. CASE j = 1 /\ z = 2
      BY <2>6, <2>8, <3>1
    <3>2. CASE j = 2 /\ z = 1
      BY <2>6, <2>8, <3>2
    <3>3. QED
      BY <2>3, <3>1, <3>2
  <2>10. Elementwise("relu", t) = <<"relu", t[1]>>
    BY DEF Elementwise, Binary
  <2>11. Elementwise(e.t, t) = V[v][c]
    BY <1>6, <1>10, <2>1, <2>6, <2>7, <2>9, <2>10
  <2>12. QED
    BY <1>1, <2>11
<1>11. QED
  BY <1>3, <1>8, <1>9, <1>10

(***************************************************************************)
(* The graph executor of element-wise operations: chunk by chunk.          *)
(***************************************************************************)
LEMMA Frame ==
    ASSUME UNCHANGED <<args, body>>
    PROVE  V' = V /\ Defined' = Defined /\ \A v : Shape(v)' = Shape(v)
  BY DEF V, Defined, Shape

\* Before operation k on chunk ci.
DeviceAt(g) ==
    /\ k \in 1 .. Len(ex.ops) /\ ci \in 1 .. Chunks[Shape(ret)]
    /\ out = [c \in 1 .. ci - 1 |-> V[ret][c]]
    /\ \A v \in Defined : g.gop[v] \in 1 .. k - 1 => mid[g.gop[v]] = V[v][ci]

LEMMA SameShape ==
    ASSUME Function, Compiled, ex.graph, ~ HasMatmul, NEW g, GraphBuilt(g)
    PROVE  /\ \A v \in Defined : g.cval[v] = "none" => Shape(v) = Shape(ret)
           /\ args[1] = Shape(ret)
           /\ \A i \in DOMAIN body : body[i].op # "dot_general"
<1>1. \A i \in DOMAIN body : body[i].op # "dot_general"
  BY MatmulIs
<1>2. Whole(g) /\ LoweredTo(g, Len(body))
  BY BuiltWhole
<1>3. \A v \in Defined : g.cval[v] = "none" => Shape(v) = Shape(ret)
  BY <1>1, <1>2, DataShape
<1>4. /\ Len(args) \in Nat /\ Len(args) >= 1 /\ Len(body) \in Nat
      /\ Defined = 1 .. Last /\ Last = Len(args) + Len(body)
  BY FunctionIs
<1>5. 1 \in Defined /\ 1 \notin Len(args) + 1 .. Len(args) + Len(body) /\ 1 \in 1 .. Len(args)
  BY <1>4
<1>6. g.cval[1] = "none" /\ Shape(1) = args[1]
  BY <1>2, <1>5, ArgumentIs DEF LoweredTo
<1>7. QED
  BY <1>1, <1>3, <1>5, <1>6

LEMMA DeviceComputes ==
    ASSUME Function, Compiled, ex.graph, ~ HasMatmul, ~ lost, NEW g, GraphBuilt(g), DeviceAt(g),
           NEW v \in Defined, g.gop[v] = k,
           NEW t, t = [j \in DOMAIN ex.ops[k].src |->
                          Chunk(ex.ops[k].src[j], mid[ex.ops[k].src[j].ix])]
    PROVE  Elementwise(ex.ops[k].t, t) = V[v][ci]
<1>1. /\ g \in Tables /\ LoweredTo(g, Len(body)) /\ ex.ops = g.ops /\ ex.ops \in Seq(GraphOp)
      /\ Len(ex.ops) \in Nat
  BY BuiltWhole
<1>2. g.gop[v] # 0 /\ k \in Nat /\ k >= 1 /\ ci \in 1 .. Chunks[Shape(ret)]
  BY <1>1 DEF DeviceAt
<1>3. v - Len(args) \in 1 .. Len(body) /\ g.cval[v] = "none"
  BY <1>1, <1>2, GraphOpIs
<1>4. OpOf(v).op # "dot_general"
  <2>1. DOMAIN body = 1 .. Len(body)
    BY DEF Function
  <2>2. QED
    BY <1>3, <2>1, SameShape DEF OpOf
<1>5. Shape(v) = Shape(ret)
  BY <1>3, SameShape, Zenon
<1>6. ASSUME NEW h \in DOMAIN t, NEW u \in Defined,
             Reads(g, ex.ops[k].src[h], u, k), Shape(u) = Shape(v)
      PROVE  t[h] = V[u][ci]
  <2> DEFINE s == ex.ops[k].src[h]
  <2>1. t[h] = Chunk(s, mid[s.ix])
    OBVIOUS
  <2>2. s.from = "op" => mid[s.ix] = V[u][ci]
    BY <1>6 DEF Reads, FromArg, FromOp, FromConst, DeviceAt
  <2>3. ci \in 1 .. Chunks[Shape(u)]
    BY <1>2, <1>5, <1>6
  <2>4. Reads(g, s, u, k)
    BY <1>6
  <2> HIDE DEF s
  <2>5. Chunk(s, mid[s.ix]) = V[u][ci]
    BY <1>1, <2>2, <2>3, <2>4, ChunkRight
  <2>6. QED
    BY <2>1, <2>5
<1>7. ci \in 1 .. Chunks[Shape(v)]
  BY <1>2, <1>5, Zenon
<1>8. ReadsChunks(g, v, t, ci)
  <2>1. t = [h \in DOMAIN g.ops[g.gop[v]].src |-> t[h]]
    BY <1>1
  <2>2. \A h \in DOMAIN t : \A u \in Defined :
            Reads(g, g.ops[g.gop[v]].src[h], u, g.gop[v]) /\ Shape(u) = Shape(v) => t[h] = V[u][ci]
    BY <1>1, <1>6, SMTT(40)
  <2>3. QED
    BY <2>1, <2>2 DEF ReadsChunks
<1>10. Elementwise(g.ops[g.gop[v]].t, t) = V[v][ci]
  BY <1>1, <1>2, <1>4, <1>7, <1>8, ElementwiseRight
<1>11. QED
  BY <1>1, <1>10

LEMMA DeviceStep ==
    ASSUME Function, Compiled, Counters, DeviceOp, ~ lost, NEW g, GraphBuilt(g), DeviceAt(g)
    PROVE  /\ pc' = "run" => DeviceAt(g)'
           /\ pc' = "done" => out' = V[ret]
<1> DEFINE o == ex.ops[k]
           t == [j \in DOMAIN o.src |-> Chunk(o.src[j], mid[o.src[j].ix])]
           x == Elementwise(o.t, t)
           N == Chunks[Shape(ret)]
<1>1. /\ pc = "run" /\ ex.graph /\ ~ HasMatmul
      /\ mid' = [mid EXCEPT ![k] = x]
      /\ k' = IF k = Len(ex.ops) THEN 1 ELSE k + 1
      /\ ci' = IF k = Len(ex.ops) THEN ci + 1 ELSE ci
      /\ out' = IF k = Len(ex.ops) THEN Append(out, mid'[ex.out]) ELSE out
      /\ pc' = IF k = Len(ex.ops) /\ ci = Chunks[args[1]] THEN "done" ELSE pc
      /\ args' = args /\ body' = body /\ ret' = ret /\ ex' = ex /\ lost' = lost
  BY DEF DeviceOp
<1>2. Whole(g) /\ ex.ops = g.ops /\ ex.out = g.gop[ret] /\ ex.out \in 1 .. Len(ex.ops)
      /\ Len(ex.ops) \in Nat /\ ex.ops \in Seq(GraphOp) /\ ret \in Defined
  BY <1>1, BuiltWhole DEF Whole
<1>3. N \in Nat /\ N >= 1 /\ N = Chunks[args[1]]
  BY <1>1, <1>2, ChunksAre, SameShape
<1>4. \A v \in Defined : g.gop[v] = k => x = V[v][ci]
  BY <1>1, DeviceComputes
<1>5. /\ k \in 1 .. Len(ex.ops) /\ ci \in 1 .. N
      /\ out = [c \in 1 .. ci - 1 |-> V[ret][c]]
      /\ \A v \in Defined : g.gop[v] \in 1 .. k - 1 => mid[g.gop[v]] = V[v][ci]
  BY DEF DeviceAt
<1>6. V' = V /\ Defined' = Defined /\ Shape(ret)' = Shape(ret)
  <2>1. V' = V /\ Defined' = Defined /\ \A v : Shape(v)' = Shape(v)
    BY <1>1, Frame
  <2>2. Shape(ret)' = Shape(ret)
    BY <1>1 DEF Shape
  <2>3. QED
    BY <2>1, <2>2
<1>7. DOMAIN mid = 1 .. Len(ex.ops)
  BY <1>1, <1>2 DEF Counters
<1>8. ASSUME NEW v \in Defined, g.gop[v] \in 1 .. k PROVE mid'[g.gop[v]] = V[v][ci]
  <2> HIDE DEF x
  <2>1. CASE g.gop[v] = k
    BY <1>1, <1>4, <1>5, <1>7, <2>1
  <2>2. CASE g.gop[v] \in 1 .. k - 1
    BY <1>1, <1>5, <1>7, <2>2
  <2>3. QED
    BY <1>5, <1>8, <2>1, <2>2
<1> HIDE DEF x, N
<1>9. CASE k # Len(ex.ops)
  <2>1. k' = k + 1 /\ ci' = ci /\ out' = out /\ pc' = pc
    BY <1>1, <1>9
  <2>2. k' \in 1 .. Len(ex'.ops) /\ k' - 1 = k
    BY <1>1, <1>2, <1>5, <1>9, <2>1
  <2>3. \A v \in Defined' : g.gop[v] \in 1 .. k' - 1 => mid'[g.gop[v]] = V'[v][ci']
    BY <1>6, <1>8, <2>1, <2>2
  <2>4. ci' \in 1 .. Chunks[Shape(ret)'] /\ out' = [c \in 1 .. ci' - 1 |-> V'[ret'][c]]
    BY <1>1, <1>5, <1>6, <2>1 DEF N
  <2>5. DeviceAt(g)'
    BY <2>2, <2>3, <2>4 DEF DeviceAt
  <2>6. QED
    BY <1>1, <2>1, <2>5
<1>10. CASE k = Len(ex.ops)
  <2>1. mid'[ex.out] = V[ret][ci]
    BY <1>2, <1>8, <1>10
  <2>2. k' = 1 /\ ci' = ci + 1 /\ out' = Append(out, V[ret][ci])
    BY <1>1, <1>10, <2>1
  <2>3. out' = [c \in 1 .. ci |-> V[ret][c]]
    BY <1>3, <1>5, <2>2
  <2>4. CASE ci = N
    <3>1. pc' = "done"
      BY <1>1, <1>3, <1>10, <2>4
    <3>2. V[ret] = [c \in 1 .. N |-> V[ret][c]]
      BY <1>2, DomainIs DEF N
    <3>3. QED
      BY <2>3, <2>4, <3>1, <3>2
  <2>5. CASE ci # N
    <3>1. pc' = "run"
      BY <1>1, <1>3, <2>5
    <3>2. k' \in 1 .. Len(ex'.ops)
      BY <1>1, <1>2, <2>2
    <3>3. ci' \in 1 .. N /\ ci' - 1 = ci
      BY <1>3, <1>5, <2>2, <2>5
    <3>4. ci' \in 1 .. Chunks[Shape(ret)'] /\ out' = [c \in 1 .. ci' - 1 |-> V'[ret'][c]]
      BY <1>1, <1>6, <2>3, <3>3 DEF N
    <3>5. \A v \in Defined' : g.gop[v] \in 1 .. k' - 1 => mid'[g.gop[v]] = V'[v][ci']
      BY <2>2
    <3>6. DeviceAt(g)'
      BY <3>2, <3>4, <3>5 DEF DeviceAt
    <3>7. QED
      BY <3>1, <3>6
  <2>6. QED
    BY <2>4, <2>5
<1>11. QED
  BY <1>9, <1>10

(***************************************************************************)
(* The shapes of a graph with a matmul: the recursive GraphShape.          *)
(***************************************************************************)
ShapeRead(f, s) == IF s.from = "arg" THEN args[s.ix] ELSE f[s.ix]

FirstData(o) == CHOOSE j \in DOMAIN o.src : /\ o.src[j].from # "const"
                                            /\ \A h \in 1 .. j - 1 : o.src[h].from = "const"

NextShape(f, n) ==
    IF ex.ops[n].t = "dot_general"
    THEN DotShape[<<ShapeRead(f, ex.ops[n].src[1]), ShapeRead(f, ex.ops[n].src[2])>>]
    ELSE ShapeRead(f, ex.ops[n].src[FirstData(ex.ops[n])])

LEMMA ShapeReadIs ==
    ASSUME Function, NEW g \in Tables, NEW s, NEW u, NEW n, Reads(g, s, u, n), s.from # "const",
           NEW f, \A w \in Defined : g.gop[w] \in 1 .. n - 1 => f[g.gop[w]] = Shape(w)
    PROVE  ShapeRead(f, s) = Shape(u)
<1>1. CASE s = FromArg(u) /\ u \in 1 .. Len(args)
  BY <1>1, ArgumentIs DEF ShapeRead, FromArg
<1>2. CASE s = FromOp(g.gop[u]) /\ u \in Defined /\ g.gop[u] \in 1 .. n - 1
  BY <1>2 DEF ShapeRead, FromOp
<1>3. QED
  BY <1>1, <1>2 DEF Reads, FromConst

\* Beside a matmul, a binary operation reads something that is not a constant.
LEMMA ReadsData ==
    ASSUME Function, Compiled, ex.graph, HasMatmul, NEW g, GraphBuilt(g),
           NEW v \in Defined, g.gop[v] # 0, NEW o, o = OpOf(v), o.op \in Binary
    PROVE  \E j \in 1 .. 2 : ~ Baked(g, o.src[j])
<1>1. /\ g \in Tables /\ LoweredTo(g, Len(body)) /\ ex.ops = g.ops
  BY BuiltWhole
<1>2. v > Len(args) /\ v - Len(args) \in 1 .. Len(body)
  BY <1>1, GraphOpIs
<1>3. /\ Len(args) \in Nat /\ Len(args) >= 1 /\ Len(body) \in Nat /\ Last \in Nat
      /\ Defined = 1 .. Last /\ Last = Len(args) + Len(body) /\ DOMAIN body = 1 .. Len(body)
  BY FunctionIs DEF Function
<1>4. PICK j \in 1 .. 2 :
         o.src[j] - Len(args) \notin {i \in DOMAIN body : body[i].op \in {"constant", "broadcast_in_dim"}}
  <2>1. \E i \in DOMAIN body : body[i].op = "dot_general"
    BY MatmulIs
  <2>2. NoConstantPairBesideDot
    BY BuiltWhole DEF Compiled
  <2>3. v - Len(args) \in DOMAIN body /\ body[v - Len(args)] = o
    BY <1>2, <1>3 DEF OpOf
  <2>4. QED
    BY <2>1, <2>2, <2>3 DEF NoConstantPairBesideDot
<1>5. PICK u : u = o.src[j]
  OBVIOUS
<1>6. u \in Defined
  <2>1. o.op \in Binary \cup {"maximum", "tanh"}
    OBVIOUS
  <2>2. /\ o.op \in Binary \cup {"maximum"} => DOMAIN o.src = 1 .. 2
        /\ \A h \in DOMAIN o.src : o.src[h] \in Defined
    BY <1>2, <2>1, OperandShapes
  <2>3. QED
    BY <1>5, <2>2
<1>7. g.cval[u] = "none"
  <2>1. CASE u <= Len(args)
    <3>1. u \notin Len(args) + 1 .. Len(args) + Len(body)
      BY <1>3, <1>6, <2>1
    <3>2. QED
      BY <1>1, <1>6, <3>1 DEF LoweredTo
  <2>2. CASE u > Len(args)
    <3>1. PICK i : i = u - Len(args)
      OBVIOUS
    <3>2. i \in 1 .. Len(body) /\ Len(args) + i = u
      BY <1>3, <1>6, <2>2, <3>1
    <3>3. Translates(g, u, body[i])
      BY <1>1, <3>2 DEF LoweredTo
    <3>4. body[i].op \notin {"constant", "broadcast_in_dim"}
      BY <1>3, <1>4, <1>5, <3>1, <3>2
    <3>5. QED
      BY <3>3, <3>4 DEF Translates, Emitted
  <2>3. QED
    BY <1>3, <1>6, <2>1, <2>2
<1>8. QED
  BY <1>5, <1>7 DEF Baked

\* The operand of an element-wise operation whose shape the code takes.
LEMMA FirstDataIs ==
    ASSUME NEW e, DOMAIN e.src \in {1 .. 1, 1 .. 2}, \E j \in DOMAIN e.src : e.src[j].from # "const"
    PROVE  FirstData(e) \in DOMAIN e.src /\ e.src[FirstData(e)].from # "const"
<1>1. PICK m \in {1, 2} : DOMAIN e.src = 1 .. m
  OBVIOUS
<1>2. PICK j \in 1 .. m : e.src[j].from # "const"
  BY <1>1
<1>3. \E i \in DOMAIN e.src : e.src[i].from # "const" /\ \A h \in 1 .. i - 1 : e.src[h].from = "const"
  <2>1. CASE e.src[1].from # "const"
    BY <1>1, <2>1
  <2>2. CASE e.src[1].from = "const"
    <3>1. j = 2 /\ \A h \in 1 .. 2 - 1 : h = 1
      BY <1>1, <1>2, <2>2
    <3>2. QED
      BY <1>1, <1>2, <2>2, <3>1
  <2>3. QED
    BY <2>1, <2>2
<1>4. QED
  BY <1>3 DEF FirstData

\* f has the shapes of the graph's operations before n.
ShapesBefore(g, f, n) == \A w \in Defined : g.gop[w] \in 1 .. n - 1 => f[g.gop[w]] = Shape(w)

LEMMA NextShapeIs ==
    ASSUME Function, Compiled, ex.graph, HasMatmul, NEW g, GraphBuilt(g),
           NEW v \in Defined, g.gop[v] # 0, NEW f, ShapesBefore(g, f, g.gop[v])
    PROVE  NextShape(f, g.gop[v]) = Shape(v)
<1>1. PICK o, n, e : o = OpOf(v) /\ n = g.gop[v] /\ e = g.ops[n]
  OBVIOUS
<1>2. /\ g \in Tables /\ LoweredTo(g, Len(body)) /\ ex.ops = g.ops
  BY BuiltWhole
<1>3. Computes(g, v) /\ v > Len(args)
  BY <1>2, GraphOpIs
<1>4. ComputesAs(g, o, e, n)
  BY <1>1, <1>3, Zenon DEF Computes
<1>5. \A s, u : Reads(g, s, u, n) /\ s.from # "const" => ShapeRead(f, s) = Shape(u)
  BY <1>1, <1>2, ShapeReadIs DEF ShapesBefore
<1>6. ex.ops[n] = e
  BY <1>1, <1>2
<1>7. CASE o.op = "dot_general"
  <2>1. /\ e.t = "dot_general"
        /\ \A j \in 1 .. 2 : Reads(g, e.src[j], o.src[j], n) /\ e.src[j].from # "const"
    BY <1>4, <1>7 DEF ComputesAs, Binary
  <2>2. ShapeRead(f, e.src[1]) = Shape(o.src[1]) /\ ShapeRead(f, e.src[2]) = Shape(o.src[2])
    BY <1>5, <2>1
  <2>3. LegalOp(o, v) /\ Shape(v) = o.shape
    BY <1>1, <1>3, ResultIs
  <2>4. o.shape = DotShape[<<Shape(o.src[1]), Shape(o.src[2])>>]
    BY <1>7, <2>3 DEF LegalOp, Binary, Unary
  <2>5. NextShape(f, n) = DotShape[<<ShapeRead(f, e.src[1]), ShapeRead(f, e.src[2])>>]
    BY <1>6, <2>1 DEF NextShape
  <2>6. QED
    BY <1>1, <2>2, <2>3, <2>4, <2>5
<1>8. CASE o.op \in Binary \cup {"maximum", "tanh"}
  <2>1. /\ o.op \in Binary \cup {"maximum"} => DOMAIN o.src = 1 .. 2
        /\ o.op = "tanh" => DOMAIN o.src = 1 .. 1
        /\ \A j \in DOMAIN o.src : Shape(o.src[j]) = Shape(v)
    BY <1>1, <1>3, <1>8, OperandShapes
  <2>2. /\ e.t # "dot_general" /\ DOMAIN e.src \in {1 .. 1, 1 .. 2}
        /\ \E j \in DOMAIN e.src : e.src[j].from # "const"
        /\ \A j \in DOMAIN e.src : \E h \in DOMAIN o.src : Reads(g, e.src[j], o.src[h], n)
    <3>1. CASE o.op = "maximum"
      BY <1>4, <2>1, <3>1 DEF ComputesAs, Binary
    <3>2. CASE o.op = "tanh"
      BY <1>4, <2>1, <3>2 DEF ComputesAs, Binary
    <3>3. CASE o.op \in Binary
      <4>1. /\ e.t = o.op /\ DOMAIN e.src = 1 .. 2
            /\ \A j \in 1 .. 2 : Reads(g, e.src[j], o.src[j], n)
        BY <1>4, <3>3 DEF ComputesAs, Binary
      <4>2. PICK j \in 1 .. 2 : ~ Baked(g, o.src[j])
        BY <1>1, <3>3, ReadsData
      <4>3. e.src[j].from # "const"
        BY <4>1, <4>2 DEF Reads, FromArg, FromOp
      <4>4. e.t # "dot_general"
        BY <3>3, <4>1 DEF Binary
      <4>5. QED
        BY <2>1, <3>3, <4>1, <4>3, <4>4
    <3>4. QED
      BY <1>8, <3>1, <3>2, <3>3
  <2>3. PICK d : d = FirstData(e)
    OBVIOUS
  <2>4. d \in DOMAIN e.src /\ e.src[d].from # "const"
    BY <2>2, <2>3, FirstDataIs
  <2>5. NextShape(f, n) = ShapeRead(f, e.src[d])
    BY <1>6, <2>2, <2>3 DEF NextShape
  <2>6. PICK h \in DOMAIN o.src : Reads(g, e.src[d], o.src[h], n)
    BY <2>2, <2>4
  <2>7. ShapeRead(f, e.src[d]) = Shape(v)
    BY <1>5, <2>1, <2>4, <2>6
  <2>8. QED
    BY <1>1, <2>5, <2>7
<1>9. QED
  BY <1>4, <1>7, <1>8 DEF ComputesAs

LEMMA GraphShapeIs ==
    ASSUME Function, Compiled, ex.graph, HasMatmul, NEW g, GraphBuilt(g),
           NEW v \in Defined, g.gop[v] # 0
    PROVE  GraphShape[g.gop[v]] = Shape(v)
<1> DEFINE F(f) == [n \in DOMAIN ex.ops |-> NextShape(f, n)]
<1>1. GraphShape = CHOOSE f : f = F(f)
  BY DEF GraphShape, NextShape, ShapeRead, FirstData
<1>2. /\ g \in Tables /\ LoweredTo(g, Len(body)) /\ ex.ops = g.ops /\ Len(ex.ops) \in Nat
      /\ DOMAIN ex.ops = 1 .. Len(ex.ops) /\ Numbered(g)
  BY BuiltWhole DEF LoweredTo
<1>3. \A w \in Defined : g.gop[w] # 0 => g.gop[w] \in 1 .. Len(ex.ops)
  BY <1>2, GraphOpIs
<1>4. \A n \in 1 .. Len(ex.ops) : \E w \in Defined : g.gop[w] = n
  BY <1>2 DEF Numbered
<1>5. \E f : f = F(f)
  <2> DEFINE val(n) == CHOOSE w \in Defined : g.gop[w] = n
             f == [n \in DOMAIN ex.ops |-> Shape(val(n))]
  <2>1. \A n \in 1 .. Len(ex.ops) : val(n) \in Defined /\ g.gop[val(n)] = n
    BY <1>4
  <2>2. \A w \in Defined : g.gop[w] # 0 => val(g.gop[w]) = w
    <3>1. ASSUME NEW w \in Defined, g.gop[w] # 0 PROVE val(g.gop[w]) = w
      <4>1. val(g.gop[w]) \in Defined /\ g.gop[val(g.gop[w])] = g.gop[w]
        BY <1>3, <2>1, <3>1
      <4>2. \A a, b \in Defined : a < b /\ g.gop[a] # 0 /\ g.gop[b] # 0 => g.gop[a] < g.gop[b]
        BY <1>2 DEF Numbered
      <4>3. Defined = 1 .. Last /\ Last \in Nat /\ g.gop \in [Defined -> Nat]
        BY <1>2, FunctionIs DEF Tables
      <4> HIDE DEF val
      <4>4. QED
        BY <3>1, <4>1, <4>2, <4>3
    <3>2. QED
      BY <3>1
  <2>3. f = [n \in DOMAIN ex.ops |-> Shape(val(n))]
    OBVIOUS
  <2> HIDE DEF f, val
  <2>4. \A w \in Defined : g.gop[w] # 0 => f[g.gop[w]] = Shape(w)
    BY <1>2, <1>3, <2>2, <2>3
  <2>5. ASSUME NEW n \in DOMAIN ex.ops PROVE f[n] = NextShape(f, n)
    <3>1. val(n) \in Defined /\ g.gop[val(n)] = n /\ n # 0
      BY <1>2, <2>1
    <3>2. PICK w \in Defined : w = val(n)
      BY <3>1
    <3>3. g.gop[w] # 0 /\ g.gop[w] = n
      BY <3>1, <3>2
    <3>4. ShapesBefore(g, f, g.gop[w])
      BY <1>2, <2>4 DEF ShapesBefore
    <3>5. NextShape(f, g.gop[w]) = Shape(w)
      BY <3>3, <3>4, NextShapeIs
    <3>6. QED
      BY <2>4, <3>3, <3>5
  <2>6. f = F(f)
    BY <2>3, <2>5
  <2>7. QED
    BY <2>6
<1> HIDE DEF F
<1>6. (CHOOSE f : f = F(f)) = F(CHOOSE f : f = F(f))
  BY <1>5
<1>7. GraphShape = F(GraphShape)
  BY <1>1, <1>6
<1>8. \A n \in 1 .. Len(ex.ops) : GraphShape[n] = NextShape(GraphShape, n)
  BY <1>2, <1>7 DEF F
<1> DEFINE S == {n \in 0 .. Len(ex.ops) :
                    \A w \in Defined : g.gop[w] \in 1 .. n => GraphShape[g.gop[w]] = Shape(w)}
<1>9. 0 \in S
  BY <1>2
<1>10. ASSUME NEW n \in 0 .. Len(ex.ops) - 1, n \in S PROVE n + 1 \in S
  <2>1. ASSUME NEW w \in Defined, g.gop[w] \in 1 .. n + 1 PROVE GraphShape[g.gop[w]] = Shape(w)
    <3>1. CASE g.gop[w] \in 1 .. n
      BY <1>10, <3>1
    <3>2. CASE g.gop[w] = n + 1
      <4>1. ShapesBefore(g, GraphShape, g.gop[w])
        BY <1>10, <3>2 DEF ShapesBefore
      <4>2. g.gop[w] # 0 /\ g.gop[w] \in 1 .. Len(ex.ops)
        BY <1>2, <3>2
      <4>3. PICK f : f = GraphShape
        OBVIOUS
      <4>4. NextShape(f, g.gop[w]) = Shape(w)
        BY <4>1, <4>2, <4>3, NextShapeIs
      <4>5. QED
        BY <1>8, <4>2, <4>3, <4>4
    <3>3. QED
      BY <2>1, <3>1, <3>2
  <2>2. QED
    BY <1>2, <2>1
<1>11. 0 .. Len(ex.ops) \subseteq S
  <2> HIDE DEF S
  <2>1. QED
    BY <1>2, <1>9, <1>10, Induct
<1>12. QED
  <2>1. Len(ex.ops) \in S
    BY <1>2, <1>11
  <2>2. QED
    BY <1>3, <2>1

(***************************************************************************)
(* The host executor: operation by operation, each over all its chunks.    *)
(***************************************************************************)

\* Before chunk ci of operation k.
HostAt(g) ==
    /\ k \in 1 .. Len(ex.ops)
    /\ \A v \in Defined : g.gop[v] \in 1 .. k - 1 => mid[g.gop[v]] = V[v]
    /\ \A v \in Defined : g.gop[v] = k =>
          ci \in 1 .. Chunks[Shape(v)] /\ mid[k] = [c \in 1 .. ci - 1 |-> V[v][c]]
    /\ \A n \in k + 1 .. Len(ex.ops) : mid[n] = << >>

\* What HostOp reads of a whole operand, and what it stores for operation k.
WholeOf(s) == IF s.from = "arg" THEN Input(s.ix) ELSE mid[s.ix]
HostChunks(n) == [j \in DOMAIN ex.ops[n].src |->
                     Chunk(ex.ops[n].src[j], mid[ex.ops[n].src[j].ix][ci])]
HostResult ==
    IF ex.ops[k].t = "dot_general"
    THEN Dot(WholeOf(ex.ops[k].src[1]), WholeOf(ex.ops[k].src[2]), GraphShape[k])
    ELSE Append(mid[k], Elementwise(ex.ops[k].t, HostChunks(k)))

LEMMA WholeRight ==
    ASSUME Function, ~ lost, NEW g, HostAt(g), NEW s, NEW u, Reads(g, s, u, k), s.from # "const"
    PROVE  WholeOf(s) = V[u]
<1>1. CASE s = FromArg(u) /\ u \in 1 .. Len(args)
  <2>1. /\ V[u] = [c \in 1 .. Chunks[Shape(u)] |-> Argument(u, c)]
        /\ Shape(u) = args[u]
    BY <1>1, ArgumentIs
  <2>2. Input(u) = V[u]
    BY <2>1 DEF Input, ArgumentTensor
  <2>3. s.from = "arg" /\ s.ix = u
    BY <1>1 DEF FromArg
  <2>4. QED
    BY <2>2, <2>3 DEF WholeOf
<1>2. CASE s = FromOp(g.gop[u]) /\ u \in Defined /\ g.gop[u] \in 1 .. k - 1
  BY <1>2 DEF FromOp, WholeOf, HostAt
<1>3. QED
  BY <1>1, <1>2 DEF Reads, FromConst

\* What operation k of the executable stores.
LEMMA HostComputes ==
    ASSUME Function, Compiled, ex.graph, HasMatmul, ~ lost, NEW g, GraphBuilt(g), HostAt(g),
           NEW v \in Defined, g.gop[v] = k
    PROVE  /\ GraphShape[k] = Shape(v)
           /\ ex.ops[k].t = "dot_general" => HostResult = V[v]
           /\ ex.ops[k].t # "dot_general" => HostResult = [c \in 1 .. ci |-> V[v][c]]
<1>1. /\ g \in Tables /\ LoweredTo(g, Len(body)) /\ ex.ops = g.ops /\ ex.ops \in Seq(GraphOp)
      /\ Len(ex.ops) \in Nat
  BY BuiltWhole
<1>2. /\ g.gop[v] # 0 /\ k \in Nat /\ k >= 1
      /\ ci \in 1 .. Chunks[Shape(v)] /\ mid[k] = [c \in 1 .. ci - 1 |-> V[v][c]]
      /\ \A w \in Defined : g.gop[w] \in 1 .. k - 1 => mid[g.gop[w]] = V[w]
  BY <1>1 DEF HostAt
<1>3. v > Len(args) /\ Computes(g, v)
  BY <1>1, <1>2, GraphOpIs
<1>4. GraphShape[k] = Shape(v)
  BY <1>2, GraphShapeIs
<1>5. ex.ops[k].t = "dot_general" <=> OpOf(v).op = "dot_general"
  BY <1>1, <1>3 DEF Computes, ComputesAs, Binary
<1>6. CASE OpOf(v).op = "dot_general"
  <2> DEFINE o == OpOf(v)
             e == ex.ops[k]
  <2>1. \A j \in 1 .. 2 : Reads(g, e.src[j], o.src[j], k) /\ e.src[j].from # "const"
    BY <1>1, <1>3, <1>6 DEF Computes, ComputesAs, Binary
  <2>2. \A j \in 1 .. 2 : WholeOf(e.src[j]) = V[o.src[j]]
    BY <2>1, WholeRight
  <2>3. V[v] = Dot(V[o.src[1]], V[o.src[2]], Shape(v))
    BY <1>3, <1>6, DotIs
  <2>4. HostResult = Dot(WholeOf(e.src[1]), WholeOf(e.src[2]), GraphShape[k])
    BY <1>5, <1>6 DEF HostResult
  <2> HIDE DEF o, e
  <2>5. HostResult = V[v]
    BY <1>4, <2>2, <2>3, <2>4
  <2>6. QED
    BY <1>4, <1>5, <1>6, <2>5
<1>7. CASE OpOf(v).op # "dot_general"
  <2> DEFINE t == HostChunks(k)
  <2>1. t = [j \in DOMAIN ex.ops[k].src |->
               Chunk(ex.ops[k].src[j], mid[ex.ops[k].src[j].ix][ci])]
    BY DEF HostChunks
  <2>2. ASSUME NEW h \in DOMAIN t, NEW u \in Defined,
               Reads(g, ex.ops[k].src[h], u, k), Shape(u) = Shape(v)
        PROVE  t[h] = V[u][ci]
    <3> DEFINE s == ex.ops[k].src[h]
    <3>1. t[h] = Chunk(s, mid[s.ix][ci])
      BY <2>1
    <3>2. s.from = "op" => mid[s.ix][ci] = V[u][ci]
      BY <1>2, <2>2 DEF Reads, FromArg, FromOp, FromConst
    <3>3. ci \in 1 .. Chunks[Shape(u)]
      BY <1>2, <2>2
    <3>4. Reads(g, s, u, k)
      BY <2>2
    <3> HIDE DEF s, t
    <3>5. Chunk(s, mid[s.ix][ci]) = V[u][ci]
      BY <1>1, <3>2, <3>3, <3>4, ChunkRight
    <3>6. QED
      BY <3>1, <3>5
  <2> HIDE DEF t
  <2>3. t = [h \in DOMAIN g.ops[g.gop[v]].src |-> t[h]]
    BY <1>1, <2>1
  <2>4. ReadsChunks(g, v, t, ci)
    <3>1. \A h \in DOMAIN t : \A u \in Defined :
              Reads(g, g.ops[g.gop[v]].src[h], u, g.gop[v]) /\ Shape(u) = Shape(v) => t[h] = V[u][ci]
      BY <1>1, <2>2
    <3>2. QED
      BY <2>3, <3>1 DEF ReadsChunks
  <2>5. Elementwise(g.ops[g.gop[v]].t, t) = V[v][ci]
    BY <1>1, <1>2, <1>7, <2>4, ElementwiseRight
  <2>6. HostResult = Append(mid[k], V[v][ci])
    BY <1>1, <1>5, <1>7, <2>5 DEF HostResult, t
  <2>7. ci \in Nat /\ ci >= 1
    BY <1>2, ChunksAre
  <2>8. Append([c \in 1 .. ci - 1 |-> V[v][c]], V[v][ci]) = [c \in 1 .. ci |-> V[v][c]]
    BY <2>7
  <2>9. QED
    BY <1>2, <1>4, <1>5, <1>7, <2>6, <2>8
<1>8. QED
  BY <1>6, <1>7

LEMMA HostStep ==
    ASSUME Function, Compiled, Counters, HostOp, ~ lost, NEW g, GraphBuilt(g), HostAt(g)
    PROVE  /\ pc' = "run" => HostAt(g)'
           /\ pc' = "done" => out' = V[ret]
<1> DEFINE x == HostResult
           last == ex.ops[k].t = "dot_general" \/ ci = Chunks[GraphShape[k]]
<1>1. /\ pc = "run" /\ ex.graph /\ HasMatmul
      /\ mid' = [mid EXCEPT ![k] = x]
      /\ k' = IF last THEN k + 1 ELSE k
      /\ ci' = IF last THEN 1 ELSE ci + 1
      /\ IF last /\ k = Len(ex.ops) THEN pc' = "done" /\ out' = mid'[ex.out]
                                    ELSE UNCHANGED <<pc, out>>
      /\ args' = args /\ body' = body /\ ret' = ret /\ ex' = ex /\ lost' = lost
  BY DEF HostOp, HostResult, WholeOf, HostChunks
<1>2. /\ ex.ops = g.ops /\ ex.out = g.gop[ret] /\ ex.out \in 1 .. Len(ex.ops)
      /\ Len(ex.ops) \in Nat /\ ex.ops \in Seq(GraphOp) /\ ret \in Defined
      /\ g \in Tables /\ Numbered(g)
  BY <1>1, BuiltWhole DEF Whole, LoweredTo
<1>3. /\ k \in 1 .. Len(ex.ops)
      /\ \A v \in Defined : g.gop[v] \in 1 .. k - 1 => mid[g.gop[v]] = V[v]
      /\ \A v \in Defined : g.gop[v] = k =>
            ci \in 1 .. Chunks[Shape(v)] /\ mid[k] = [c \in 1 .. ci - 1 |-> V[v][c]]
      /\ \A n \in k + 1 .. Len(ex.ops) : mid[n] = << >>
  BY DEF HostAt
<1>4. V' = V /\ Defined' = Defined /\ \A v : Shape(v)' = Shape(v)
  BY <1>1, Frame
<1>5. DOMAIN mid = 1 .. Len(ex.ops)
  BY <1>1, <1>2 DEF Counters
<1>6. \A v \in Defined : g.gop[v] = k =>
          /\ GraphShape[k] = Shape(v)
          /\ ex.ops[k].t = "dot_general" => x = V[v]
          /\ ex.ops[k].t # "dot_general" => x = [c \in 1 .. ci |-> V[v][c]]
  BY <1>1, HostComputes
<1>7. mid'[k] = x /\ \A n \in 1 .. Len(ex.ops) : n # k => mid'[n] = mid[n]
  BY <1>1, <1>3, <1>5
<1> HIDE DEF x
<1>8. CASE last
  <2>1. ASSUME NEW v \in Defined, g.gop[v] \in 1 .. k PROVE mid'[g.gop[v]] = V[v]
    <3>1. CASE g.gop[v] = k
      <4>1. CASE ex.ops[k].t = "dot_general"
        BY <1>6, <1>7, <3>1, <4>1
      <4>2. CASE ex.ops[k].t # "dot_general"
        <5>1. ci = Chunks[Shape(v)] /\ x = [c \in 1 .. ci |-> V[v][c]]
          BY <1>6, <1>8, <3>1, <4>2
        <5>2. V[v] = [c \in 1 .. Chunks[Shape(v)] |-> V[v][c]]
          BY DomainIs
        <5>3. x = V[v]
          BY <5>1, <5>2
        <5>4. QED
          BY <1>7, <3>1, <5>3
      <4>3. QED
        BY <4>1, <4>2
    <3>2. CASE g.gop[v] \in 1 .. k - 1
      <4>1. g.gop[v] \in 1 .. Len(ex.ops) /\ g.gop[v] # k
        BY <1>2, <1>3, <3>2
      <4>2. QED
        BY <1>3, <1>7, <3>2, <4>1
    <3>3. QED
      BY <1>3, <2>1, <3>1, <3>2
  <2>2. CASE k = Len(ex.ops)
    <3>1. pc' = "done" /\ out' = mid'[ex.out]
      BY <1>1, <1>8, <2>2
    <3>2. mid'[ex.out] = V[ret]
      BY <1>2, <2>1, <2>2
    <3>3. QED
      BY <3>1, <3>2
  <2>3. CASE k # Len(ex.ops)
    <3>1. k' = k + 1 /\ ci' = 1 /\ k' \in 1 .. Len(ex'.ops) /\ k' - 1 = k
      BY <1>1, <1>2, <1>3, <1>8, <2>3
    <3>2. \A v \in Defined' : g.gop[v] \in 1 .. k' - 1 => mid'[g.gop[v]] = V'[v]
      BY <1>4, <2>1, <3>1
    <3>3. ASSUME NEW v \in Defined', g.gop[v] = k'
          PROVE  ci' \in 1 .. Chunks[Shape(v)'] /\ mid'[k'] = [c \in 1 .. ci' - 1 |-> V'[v][c]]
      <4>1. 1 \in 1 .. Chunks[Shape(v)]
        <5>1. v \in Defined
          BY <1>4
        <5>2. QED
          BY <5>1, ChunksAre
      <4>2. mid'[k'] = << >>
        BY <1>1, <1>2, <1>3, <1>7, <3>1
      <4>3. << >> = [c \in 1 .. 0 |-> V'[v][c]]
        OBVIOUS
      <4>4. ci' - 1 = 0 /\ ci' \in 1 .. Chunks[Shape(v)']
        BY <1>4, <3>1, <4>1
      <4>5. QED
        BY <4>2, <4>3, <4>4
    <3>4. \A n \in k' + 1 .. Len(ex'.ops) : mid'[n] = << >>
      BY <1>1, <1>2, <1>3, <1>7, <3>1
    <3>5. HostAt(g)'
      BY <3>1, <3>2, <3>3, <3>4 DEF HostAt
    <3>6. pc' = pc
      BY <1>1, <1>8, <2>3
    <3>7. QED
      BY <1>1, <3>5, <3>6
  <2>4. QED
    BY <2>2, <2>3
<1>9. CASE ~ last
  <2>1. k' = k /\ ci' = ci + 1 /\ pc' = pc
    BY <1>1, <1>9
  <2>2. ex.ops[k].t # "dot_general" /\ ci # Chunks[GraphShape[k]]
    BY <1>9
  <2> HIDE DEF last
  <2>3. \A v \in Defined' : g.gop[v] \in 1 .. k' - 1 => mid'[g.gop[v]] = V'[v]
    <3>1. ASSUME NEW v \in Defined, g.gop[v] \in 1 .. k - 1 PROVE mid'[g.gop[v]] = V[v]
      <4>1. g.gop[v] \in 1 .. Len(ex.ops) /\ g.gop[v] # k
        BY <1>2, <1>3, <3>1
      <4>2. QED
        BY <1>3, <1>7, <3>1, <4>1
    <3>2. QED
      BY <1>4, <2>1, <3>1
  <2>4. ASSUME NEW v \in Defined', g.gop[v] = k'
        PROVE  ci' \in 1 .. Chunks[Shape(v)'] /\ mid'[k'] = [c \in 1 .. ci' - 1 |-> V'[v][c]]
    <3>1. v \in Defined /\ g.gop[v] = k
      BY <1>4, <2>1, <2>4
    <3>2. ci \in 1 .. Chunks[Shape(v)] /\ Chunks[Shape(v)] \in Nat
      BY <1>3, <3>1, ChunksAre
    <3>3. ci # Chunks[Shape(v)] /\ x = [c \in 1 .. ci |-> V[v][c]]
      BY <1>6, <2>2, <3>1
    <3>4. ci' \in 1 .. Chunks[Shape(v)] /\ ci' - 1 = ci
      BY <2>1, <3>2, <3>3
    <3>5. mid'[k'] = [c \in 1 .. ci' - 1 |-> V'[v][c]]
      BY <1>4, <1>7, <2>1, <3>3, <3>4
    <3>6. QED
      BY <1>4, <3>4, <3>5
  <2>5. \A n \in k' + 1 .. Len(ex'.ops) : mid'[n] = << >>
    <3>1. ASSUME NEW n \in k + 1 .. Len(ex.ops) PROVE mid'[n] = << >>
      <4>1. n \in 1 .. Len(ex.ops) /\ n # k
        BY <1>2, <1>3
      <4>2. QED
        BY <1>3, <1>7, <4>1
    <3>2. QED
      BY <1>1, <2>1, <3>1
  <2>6. k' \in 1 .. Len(ex'.ops)
    BY <1>1, <1>3, <2>1
  <2>7. HostAt(g)'
    BY <2>3, <2>4, <2>5, <2>6 DEF HostAt
  <2>8. QED
    BY <1>1, <2>1, <2>7
<1>10. QED
  BY <1>8, <1>9, Zenon

(***************************************************************************)
(* Every run of a graph.                                                   *)
(***************************************************************************)
Progress(g) == IF HasMatmul THEN HostAt(g) ELSE DeviceAt(g)
Running == pc = "run" /\ ex.graph /\ ~ lost => \E g : GraphBuilt(g) /\ Progress(g)

LEMMA ExecuteStarts ==
    ASSUME Function, Compiled, Execute, ex.graph, NEW g, GraphBuilt(g)
    PROVE  GraphBuilt(g)' /\ Progress(g)'
<1>1. /\ k' = 1 /\ ci' = 1 /\ mid' = [i \in DOMAIN ex.ops |-> << >>] /\ out' = << >>
      /\ args' = args /\ body' = body /\ ret' = ret /\ ex' = ex
  BY DEF Execute
<1>2. GraphBuilt(g)'
  BY <1>1, BuiltStays
<1>3. /\ DOMAIN ex.ops = 1 .. Len(ex.ops) /\ Len(ex.ops) \in Nat /\ Len(ex.ops) >= 1
      /\ ret \in Defined
  BY BuiltWhole DEF Whole
<1>4. V' = V /\ Defined' = Defined /\ \A v : Shape(v)' = Shape(v)
  BY <1>1, Frame
<1>5. k' \in 1 .. Len(ex'.ops) /\ ci' - 1 = 0 /\ 1 .. k' - 1 = {}
  BY <1>1, <1>3
<1>6. \A v \in Defined : ci' \in 1 .. Chunks[Shape(v)]
  BY <1>1, ChunksAre
<1>7. \A f : << >> = [c \in 1 .. 0 |-> f[c]]
  OBVIOUS
<1>8. HostAt(g)'
  <2>1. \A v \in Defined' : g.gop[v] \in 1 .. k' - 1 => mid'[g.gop[v]] = V'[v]
    BY <1>5
  <2>2. \A n \in 1 .. Len(ex'.ops) : mid'[n] = << >>
    BY <1>1, <1>3
  <2>3. \A v \in Defined' : g.gop[v] = k' =>
            ci' \in 1 .. Chunks[Shape(v)'] /\ mid'[k'] = [c \in 1 .. ci' - 1 |-> V'[v][c]]
    <3>1. ASSUME NEW v \in Defined', g.gop[v] = k'
          PROVE  ci' \in 1 .. Chunks[Shape(v)'] /\ mid'[k'] = [c \in 1 .. ci' - 1 |-> V'[v][c]]
      <4>1. ci' \in 1 .. Chunks[Shape(v)']
        BY <1>4, <1>6
      <4>2. mid'[k'] = << >> /\ << >> = [c \in 1 .. 0 |-> V'[v][c]]
        BY <1>5, <2>2
      <4>3. QED
        BY <1>5, <4>1, <4>2
    <3>2. QED
      BY <3>1
  <2>4. \A n \in k' + 1 .. Len(ex'.ops) : mid'[n] = << >>
    BY <1>1, <1>3, <2>2
  <2>5. QED
    BY <1>5, <2>1, <2>3, <2>4 DEF HostAt
<1>9. DeviceAt(g)'
  <2>1. ci' \in 1 .. Chunks[Shape(ret)']
    BY <1>1, <1>3, <1>4, <1>6
  <2>2. out' = [c \in 1 .. ci' - 1 |-> V'[ret'][c]]
    BY <1>1, <1>5, <1>7
  <2>3. \A v \in Defined' : g.gop[v] \in 1 .. k' - 1 => mid'[g.gop[v]] = V'[v][ci']
    BY <1>5
  <2>4. QED
    BY <1>1, <1>4, <1>5, <2>1, <2>2, <2>3 DEF DeviceAt
<1>10. QED
  BY <1>2, <1>8, <1>9 DEF Progress

LEMMA RunningStep ==
    Function /\ Compiled /\ Counters /\ Running /\ FusedCorrect /\ [Next]_vars
        => Running' /\ FusedCorrect'
<1> SUFFICES ASSUME Function, Compiled, Counters, Running, FusedCorrect, [Next]_vars
             PROVE  Running' /\ FusedCorrect'
  OBVIOUS
<1>1. CASE Trace \/ Compile \/ SubmitFails \/ Drop
  <2>1. pc' \notin {"run", "done"}
    BY <1>1 DEF Trace, Compile, SubmitFails, Drop
  <2>2. QED
    BY <2>1 DEF Running, FusedCorrect
<1>2. CASE Execute
  <2>1. pc' \in {"run", "failed"} /\ ex' = ex
    BY <1>2 DEF Execute
  <2>2. ex.graph => \E g : GraphBuilt(g)' /\ Progress(g)'
    BY <1>2, ExecuteStarts DEF Compiled
  <2>3. QED
    BY <2>1, <2>2 DEF Running, FusedCorrect
<1>3. CASE DeviceOp \/ HostOp
  <2>1. /\ pc = "run" /\ ex.graph /\ lost' = lost /\ pc' \in {"run", "done"}
        /\ args' = args /\ body' = body /\ ret' = ret /\ ex' = ex
    BY <1>3, Zenon DEF DeviceOp, HostOp
  <2>2. CASE lost
    BY <2>1, <2>2 DEF Running, FusedCorrect
  <2>3. CASE ~ lost
    <3>1. PICK g : GraphBuilt(g) /\ Progress(g)
      BY <2>1, <2>3 DEF Running
    <3>2. GraphBuilt(g)'
      BY <2>1, <3>1, BuiltStays
    <3>3. HasMatmul' <=> HasMatmul
      BY <2>1 DEF HasMatmul
    <3>4. (pc' = "run" => Progress(g)') /\ (pc' = "done" => out' = V[ret])
      <4>1. CASE DeviceOp
        <5>1. ~ HasMatmul
          BY <4>1 DEF DeviceOp
        <5>2. QED
          BY <2>3, <3>1, <3>3, <4>1, <5>1, DeviceStep DEF Progress
      <4>2. CASE HostOp
        <5>1. HasMatmul
          BY <4>2 DEF HostOp
        <5>2. QED
          BY <2>3, <3>1, <3>3, <4>2, <5>1, HostStep, Zenon DEF Progress
      <4>3. QED
        BY <1>3, <4>1, <4>2
    <3>5. Running'
      BY <3>2, <3>4 DEF Running
    <3>6. FusedCorrect'
      <4>1. Meaning' = V[ret]
        BY <2>1 DEF Meaning, V
      <4>2. QED
        BY <3>4, <4>1 DEF FusedCorrect
    <3>7. QED
      BY <3>5, <3>6
  <2>4. QED
    BY <2>2, <2>3, Zenon
<1>4. CASE SingleOp
  <2>1. ~ ex'.graph
    BY <1>4 DEF SingleOp
  <2>2. QED
    BY <2>1 DEF Running, FusedCorrect
<1>5. CASE UNCHANGED vars
  <2>1. /\ pc' = pc /\ args' = args /\ body' = body /\ ret' = ret /\ ex' = ex /\ k' = k /\ ci' = ci
        /\ lost' = lost /\ mid' = mid /\ out' = out
    BY <1>5 DEF vars
  <2>2. FusedCorrect'
    BY <2>1 DEF FusedCorrect, Meaning
  <2>3. ASSUME NEW g, GraphBuilt(g), Progress(g) PROVE GraphBuilt(g)' /\ Progress(g)'
    <3>1. GraphBuilt(g)'
      BY <2>1, <2>3, BuiltStays
    <3>2. V' = V /\ Defined' = Defined /\ \A v : Shape(v)' = Shape(v)
      BY <2>1, Frame
    <3>3. HostAt(g) => HostAt(g)'
      BY <2>1, <3>2 DEF HostAt
    <3>4. DeviceAt(g) => DeviceAt(g)'
      <4>1. Shape(ret)' = Shape(ret)
        BY <2>1 DEF Shape
      <4>2. QED
        BY <2>1, <3>2, <4>1 DEF DeviceAt
    <3>5. QED
      BY <2>1, <2>3, <3>1, <3>3, <3>4 DEF Progress, HasMatmul
  <2>4. QED
    BY <2>1, <2>2, <2>3 DEF Running
<1>6. QED
  BY <1>1, <1>2, <1>3, <1>4, <1>5 DEF Next

\* An executable that was lowered to a graph returns what the function means,
\* whatever the function, its shapes and the number of chunks (npu_parse_graph
\* and the two graph executors).
THEOREM FusedIsRight == Spec => []FusedCorrect
<1>1. Init => Function /\ Compiled /\ Counters /\ Running /\ FusedCorrect
  <2>1. ASSUME Init PROVE Counters /\ Running /\ FusedCorrect
    <3>1. pc = "trace" /\ k = 0 /\ ci = 0 /\ lost = FALSE
      BY <2>1 DEF Init
    <3>2. Counters
      BY <3>1 DEF Counters
    <3>3. Running /\ FusedCorrect
      BY <3>1 DEF Running, FusedCorrect
    <3>4. QED
      BY <3>2, <3>3
  <2>2. QED
    BY <2>1, FunctionInit, CompiledInit
<1>2. Function /\ Compiled /\ Counters /\ Running /\ FusedCorrect /\ [Next]_vars
        => (Function /\ Compiled /\ Counters /\ Running /\ FusedCorrect)'
  BY FunctionStep, CompiledStep, CountersStep, RunningStep
<1>3. QED
  BY <1>1, <1>2, PTL DEF Spec

(***************************************************************************)
(* The path of a single operation.                                         *)
(***************************************************************************)
SingleName(op) == IF op = "relu_call" THEN "maximum" ELSE op

SingleBuilt ==
    pc \in {"ready", "run", "done", "failed"} /\ InOrder =>
        ~ ex.graph /\ ex.op = SingleName(body[1].op) /\ ret = Last
SingleAt ==
    pc = "run" /\ InOrder => /\ ci \in 1 .. Chunks[args[1]]
                             /\ out = [c \in 1 .. ci - 1 |-> V[Last][c]]
LostIsGraph == lost => ex.graph

LEMMA SameLength ==
    ASSUME NEW n \in Nat, NEW m \in Nat, n >= 1, 1 .. n = 1 .. m
    PROVE  m = n
<1>1. n \in 1 .. n
  OBVIOUS
<1>2. n \in 1 .. m
  BY <1>1
<1>3. m \in 1 .. m
  BY <1>2
<1>4. m \in 1 .. n
  BY <1>3
<1>5. QED
  BY <1>2, <1>4

LEMMA InOrderIs ==
    ASSUME Function, InOrder
    PROVE  /\ Len(body) = 1 /\ Last = Len(args) + 1 /\ Last \in Defined /\ Last > Len(args)
           /\ OpOf(Last) = body[1] /\ LegalOp(body[1], Last)
           /\ \A j \in DOMAIN body[1].src : body[1].src[j] = j
           /\ body[1].op \in Binary \cup {"dot_general"} =>
                  DOMAIN body[1].src = 1 .. 2 /\ Len(args) = 2
           /\ body[1].op \in {"tanh", "relu_call", "npu_cached_mm"} =>
                  DOMAIN body[1].src = 1 .. 1 /\ Len(args) = 1
<1>1. /\ Len(args) \in Nat /\ Len(args) >= 1 /\ Len(body) \in Nat /\ Last \in Nat
      /\ Defined = 1 .. Last /\ Last = Len(args) + Len(body) /\ DOMAIN args = 1 .. Len(args)
  BY FunctionIs DEF Function
<1>2. Len(body) = 1 /\ body[1].src = [i \in 1 .. Len(args) |-> i]
  BY <1>1 DEF InOrder
<1>3. Last = Len(args) + 1 /\ Last \in Defined /\ Last > Len(args) /\ Last - Len(args) = 1
  BY <1>1, <1>2
<1>4. OpOf(Last) = body[1] /\ LegalOp(body[1], Last)
  BY <1>3, ResultIs DEF OpOf
<1>5. DOMAIN body[1].src = 1 .. Len(args) /\ \A j \in DOMAIN body[1].src : body[1].src[j] = j
  BY <1>2, Zenon
<1>6. \A m \in Nat : 1 .. Len(args) = 1 .. m => m = Len(args)
  BY <1>1, SameLength, Zenon
<1>7. /\ body[1].op \in Binary \cup {"dot_general"} => DOMAIN body[1].src = 1 .. 2
      /\ body[1].op \in {"tanh", "relu_call", "npu_cached_mm"} => DOMAIN body[1].src = 1 .. 1
  BY <1>4 DEF LegalOp, Earlier, Binary, Unary
<1>8. QED
  BY <1>2, <1>3, <1>4, <1>5, <1>6, <1>7

LEMMA NoGraphInOrder ==
    ASSUME Function, InOrder, NEW r
    PROVE  ~ IsGraph(Lowered, r)
<1> SUFFICES ASSUME IsGraph(Lowered, r) PROVE FALSE
  OBVIOUS
<1>1. PICK g : g = Lowered
  OBVIOUS
<1>2. g.ok /\ (Len(g.ops) >= 2 \/ g.hasConst)
  BY <1>1 DEF IsGraph
<1>3. g \in Tables /\ LoweredTo(g, Len(body))
  <2>1. g = Lowering[Len(body)] /\ Len(body) \in 0 .. Len(body)
    BY <1>1, LoweringIs, FunctionIs
  <2>2. QED
    BY <1>2, <2>1, LoweredIs
<1>4. /\ Len(args) \in Nat /\ Len(args) >= 1 /\ Len(body) = 1 /\ Defined = 1 .. Last
      /\ Last = Len(args) + 1
  BY FunctionIs, InOrderIs
<1>5. \A v \in 1 .. Len(args) : g.cval[v] = "none"
  BY <1>3, <1>4 DEF LoweredTo
<1>6. CASE Len(g.ops) >= 2
  <2>1. Len(g.ops) \in Nat
    BY <1>3 DEF Tables
  <2>2. PICK u \in Defined : g.gop[u] = 1
    BY <1>3, <1>6, <2>1 DEF LoweredTo, Numbered
  <2>3. PICK v \in Defined : g.gop[v] = 2
    BY <1>3, <1>6, <2>1 DEF LoweredTo, Numbered
  <2>4. u > Len(args) /\ v > Len(args)
    BY <1>3, <2>2, <2>3, GraphOpIs
  <2>5. u = Last /\ v = Last
    BY <1>4, <2>4
  <2>6. QED
    BY <2>2, <2>3, <2>5
<1>7. CASE g.hasConst
  <2>1. ReadsConst(g, body[1])
    BY <1>3, <1>4, <1>7 DEF LoweredTo
  <2>2. PICK j \in 1 .. 2 : Baked(g, body[1].src[j]) /\ body[1].op \in Binary
    BY <2>1 DEF ReadsConst
  <2>3. body[1].src[j] = j /\ j \in 1 .. Len(args)
    BY <2>2, InOrderIs
  <2>4. QED
    BY <1>5, <2>2, <2>3 DEF Baked
<1>8. QED
  BY <1>2, <1>6, <1>7

LEMMA NamesInOrder ==
    ASSUME Function, InOrder
    PROVE  ModuleNames = {body[1].op} \cup CalledNames(body[1].op)
<1>1. DOMAIN body = {1}
  <2>1. DOMAIN body = 1 .. 1
    BY InOrderIs DEF Function
  <2>2. QED
    BY <2>1
<1>2. QED
  BY <1>1 DEF ModuleNames

LEMMA FirstInOrder ==
    ASSUME Function, InOrder, body[1].op # "npu_cached_mm"
    PROVE  FirstFound = SingleName(body[1].op) /\ "npu_cached_mm" \notin ModuleNames
<1> DEFINE op == body[1].op
           found == CHOOSE i \in DOMAIN SearchOrder :
                       /\ SearchOrder[i] \in ModuleNames
                       /\ \A j \in 1 .. i - 1 : SearchOrder[j] \notin ModuleNames
<1>1. op \in {"add", "subtract", "multiply", "divide", "tanh", "dot_general", "relu_call"}
  BY DEF InOrder, Binary
<1>2. /\ DOMAIN SearchOrder = 1 .. 7
      /\ SearchOrder[1] = "subtract" /\ SearchOrder[2] = "multiply" /\ SearchOrder[3] = "divide"
      /\ SearchOrder[4] = "maximum" /\ SearchOrder[5] = "tanh" /\ SearchOrder[6] = "add"
      /\ SearchOrder[7] = "dot_general"
  BY DEF SearchOrder
<1>3. \A i \in 1 .. 7 : SearchOrder[i] \in ModuleNames <=> SearchOrder[i] = SingleName(op)
  <2>1. ModuleNames = IF op = "relu_call" THEN {"relu_call", "constant", "broadcast_in_dim", "maximum"}
                      ELSE {op}
    BY <1>1, NamesInOrder DEF CalledNames
  <2> HIDE DEF op
  <2>2. \A i \in 1 .. 7 : SearchOrder[i] \in {"subtract", "multiply", "divide", "maximum", "tanh",
                                               "add", "dot_general"}
    BY <1>2
  <2>3. QED
    BY <1>1, <2>1, <2>2 DEF SingleName
<1>4. \E i \in 1 .. 7 : SearchOrder[i] = SingleName(op)
  BY <1>1, <1>2 DEF SingleName
<1>5. \A i, j \in 1 .. 7 : SearchOrder[i] = SearchOrder[j] => i = j
  BY <1>2
<1>6. found \in DOMAIN SearchOrder /\ SearchOrder[found] \in ModuleNames
  <2>1. PICK i \in 1 .. 7 : SearchOrder[i] = SingleName(op)
    BY <1>4
  <2>2. \A j \in 1 .. i - 1 : SearchOrder[j] \notin ModuleNames
    <3>1. ASSUME NEW j \in 1 .. i - 1 PROVE SearchOrder[j] \notin ModuleNames
      <4>1. j \in 1 .. 7 /\ j # i
        OBVIOUS
      <4>2. QED
        BY <1>3, <1>5, <2>1, <4>1
    <3>2. QED
      BY <3>1
  <2>3. i \in DOMAIN SearchOrder /\ SearchOrder[i] \in ModuleNames
    BY <1>2, <1>3, <2>1
  <2>4. QED
    BY <2>2, <2>3
<1>7. FirstFound = SearchOrder[found]
  BY DEF FirstFound
<1> HIDE DEF found
<1>8. FirstFound = SingleName(op)
  BY <1>2, <1>3, <1>6, <1>7
<1>9. "npu_cached_mm" \notin ModuleNames
  <2>1. ModuleNames = IF op = "relu_call" THEN {"relu_call", "constant", "broadcast_in_dim", "maximum"}
                      ELSE {op}
    BY <1>1, NamesInOrder DEF CalledNames
  <2>2. QED
    BY <2>1, <1>1
<1>10. QED
  BY <1>8, <1>9

LEMMA ReturnsInOrder ==
    ASSUME Function, InOrder, NEW r \in Defined, AllUsed(r)
    PROVE  r = Last
<1> SUFFICES ASSUME r # Last PROVE FALSE
  OBVIOUS
<1>1. Last \in Defined \ {r} /\ DOMAIN body = 1 .. 1 /\ Last \in Nat
  BY InOrderIs, FunctionIs DEF Function
<1>2. PICK i \in DOMAIN body : \E j \in DOMAIN body[i].src : body[i].src[j] = Last
  BY <1>1 DEF AllUsed
<1>3. i = 1
  BY <1>1, <1>2
<1>4. PICK j \in DOMAIN body[1].src : body[1].src[j] = Last
  BY <1>2, <1>3
<1>5. body[1].src[j] \in 1 .. Last - 1
  BY InOrderIs DEF LegalOp, Earlier
<1>6. QED
  BY <1>1, <1>4, <1>5

LEMMA InputIs ==
    ASSUME Function, ~ lost, NEW u \in 1 .. Len(args)
    PROVE  In(u) = V[u] /\ Shape(u) = args[u]
<1>1. /\ V[u] = [c \in 1 .. Chunks[Shape(u)] |-> Argument(u, c)]
      /\ Shape(u) = args[u]
  BY ArgumentIs
<1>2. Input(u) = V[u]
  BY <1>1 DEF Input, ArgumentTensor
<1>3. u <= Len(args)
  BY FunctionIs
<1>4. QED
  BY <1>1, <1>2, <1>3 DEF In

LEMMA CachedIs ==
    ASSUME Function, NEW v \in Defined, v > Len(args), OpOf(v).op = "npu_cached_mm"
    PROVE  V[v] = CachedDot(V[OpOf(v).src[1]], Shape(v))
<1> DEFINE o == OpOf(v)
<1>1. V[v] = Result(o, V) /\ Shape(v) = o.shape
  BY ResultIs
<1>2. o.op = "npu_cached_mm"
  OBVIOUS
<1> HIDE DEF o
<1>3. Result(o, V) = [c \in 1 .. Chunks[o.shape] |-> CachedDot(V[o.src[1]], o.shape)[c]]
  BY <1>2 DEF Result
<1>4. CachedDot(V[o.src[1]], o.shape)
        = [c \in 1 .. Chunks[o.shape] |-> CachedDot(V[o.src[1]], o.shape)[c]]
  BY DEF CachedDot
<1>5. QED
  BY <1>1, <1>3, <1>4 DEF o

\* What one submit of the path computes, in a function of one operation.
LEMMA SingleComputes ==
    ASSUME Function, InOrder, ~ lost
    PROVE  /\ body[1].op = "dot_general" =>
                  Dot(In(1), In(2), DotShape[<<args[1], args[2]>>]) = V[Last]
           /\ body[1].op = "npu_cached_mm" => CachedDot(In(1), args[1]) = V[Last]
           /\ body[1].op \notin {"dot_general", "npu_cached_mm"} =>
                  /\ args[1] = Shape(Last)
                  /\ \A c \in 1 .. Chunks[Shape(Last)] :
                        Elementwise(IF SingleName(body[1].op) = "maximum" THEN "relu"
                                    ELSE SingleName(body[1].op), <<In(1)[c], In(2)[c]>>) = V[Last][c]
<1> DEFINE o == body[1]
<1>1. /\ Last \in Defined /\ Last > Len(args) /\ OpOf(Last) = o /\ LegalOp(o, Last)
      /\ \A j \in DOMAIN o.src : o.src[j] = j
      /\ o.op \in Binary \cup {"dot_general"} => DOMAIN o.src = 1 .. 2 /\ Len(args) = 2
      /\ o.op \in {"tanh", "relu_call", "npu_cached_mm"} => DOMAIN o.src = 1 .. 1 /\ Len(args) = 1
  BY InOrderIs
<1>2. Shape(Last) = o.shape
  BY <1>1, ResultIs
<1>3. \A u \in 1 .. Len(args) : In(u) = V[u] /\ Shape(u) = args[u]
  BY InputIs
<1>4. CASE o.op = "dot_general"
  <2>1. o.src[1] = 1 /\ o.src[2] = 2 /\ Len(args) = 2
    BY <1>1, <1>4
  <2>2. In(1) = V[1] /\ In(2) = V[2] /\ Shape(1) = args[1] /\ Shape(2) = args[2]
    BY <1>3, <2>1
  <2>3. V[Last] = Dot(V[o.src[1]], V[o.src[2]], Shape(Last))
    BY <1>1, <1>4, DotIs
  <2>4. o.shape = DotShape[<<Shape(o.src[1]), Shape(o.src[2])>>]
    BY <1>1, <1>4 DEF LegalOp, Binary, Unary
  <2> HIDE DEF o
  <2>5. Dot(In(1), In(2), DotShape[<<args[1], args[2]>>]) = V[Last]
    BY <1>2, <2>1, <2>2, <2>3, <2>4
  <2>6. QED
    BY <1>4, <2>5 DEF o
<1>5. CASE o.op = "npu_cached_mm"
  <2>1. o.src[1] = 1 /\ Len(args) = 1
    BY <1>1, <1>5
  <2>2. In(1) = V[1] /\ Shape(1) = args[1]
    BY <1>3, <2>1
  <2>3. V[Last] = CachedDot(V[o.src[1]], Shape(Last))
    BY <1>1, <1>5, CachedIs
  <2>4. o.shape = Shape(o.src[1])
    BY <1>1, <1>5 DEF LegalOp, Binary, Unary
  <2> HIDE DEF o
  <2>5. CachedDot(In(1), args[1]) = V[Last]
    BY <1>2, <2>1, <2>2, <2>3, <2>4
  <2>6. QED
    BY <1>5, <2>5 DEF o
<1>6. CASE o.op \in Binary
  <2>1. o.src[1] = 1 /\ o.src[2] = 2 /\ Len(args) = 2 /\ DOMAIN o.src = 1 .. 2
    BY <1>1, <1>6
  <2>2. In(1) = V[1] /\ In(2) = V[2] /\ Shape(1) = args[1]
    BY <1>3, <2>1
  <2>3. o.shape = Shape(o.src[1])
    BY <1>1, <1>6 DEF LegalOp, Binary, Unary
  <2>4. ASSUME NEW c \in 1 .. Chunks[Shape(Last)]
        PROVE  Elementwise(o.op, <<In(1)[c], In(2)[c]>>) = V[Last][c]
    <3>1. V[Last][c] = Elementwise(o.op, [j \in DOMAIN o.src |-> V[o.src[j]][c]])
      BY <1>1, <1>6, ElementwiseIs
    <3> HIDE DEF o
    <3>2. [j \in DOMAIN o.src |-> V[o.src[j]][c]] = <<In(1)[c], In(2)[c]>>
      BY <2>1, <2>2
    <3>3. QED
      BY <3>1, <3>2
  <2>5. o.op \notin {"dot_general", "npu_cached_mm"} /\ SingleName(o.op) = o.op /\ o.op # "maximum"
    BY <1>6 DEF Binary, SingleName
  <2> HIDE DEF o
  <2>6. QED
    BY <1>2, <2>1, <2>2, <2>3, <2>4, <2>5 DEF o
<1>7. CASE o.op \in {"tanh", "relu_call"}
  <2>1. o.src[1] = 1 /\ Len(args) = 1 /\ DOMAIN o.src = 1 .. 1
    BY <1>1, <1>7
  <2>2. In(1) = V[1] /\ Shape(1) = args[1]
    BY <1>3, <2>1
  <2>3. o.shape = Shape(o.src[1])
    BY <1>1, <1>7 DEF LegalOp, Binary, Unary
  <2>4. ASSUME NEW c \in 1 .. Chunks[Shape(Last)]
        PROVE  Elementwise(IF SingleName(o.op) = "maximum" THEN "relu" ELSE SingleName(o.op),
                           <<In(1)[c], In(2)[c]>>) = V[Last][c]
    <3>1. V[Last][c] = Elementwise(o.op, [j \in DOMAIN o.src |-> V[o.src[j]][c]])
      BY <1>1, <1>7, ElementwiseIs
    <3> DEFINE t == [j \in DOMAIN o.src |-> V[o.src[j]][c]]
               s == <<In(1)[c], In(2)[c]>>
    <3>2. t[1] = V[1][c] /\ s[1] = V[1][c]
      BY <2>1, <2>2
    <3> HIDE DEF t, s
    <3>3. CASE o.op = "tanh"
      <4>1. Elementwise("tanh", t) = <<"tanh", t[1]>> /\ Elementwise("tanh", s) = <<"tanh", s[1]>>
        BY Zenon DEF Elementwise, Binary
      <4>2. QED
        BY <3>1, <3>2, <3>3, <4>1 DEF SingleName, t, s
    <3>4. CASE o.op = "relu_call"
      <4>1. /\ Elementwise("relu_call", t) = <<"relu", t[1]>>
            /\ Elementwise("relu", s) = <<"relu", s[1]>>
        BY DEF Elementwise, Binary
      <4>2. QED
        BY <3>1, <3>2, <3>4, <4>1 DEF SingleName, t, s
    <3>5. QED
      BY <1>7, <3>3, <3>4
  <2> HIDE DEF o
  <2>5. QED
    BY <1>2, <1>7, <2>1, <2>2, <2>3, <2>4 DEF o
<1>8. QED
  BY <1>4, <1>5, <1>6, <1>7 DEF InOrder

LEMMA SingleStep ==
    ASSUME Function, Compiled, SingleBuilt, SingleAt, LostIsGraph, SingleOp, InOrder
    PROVE  /\ pc' = "run" => ci' \in 1 .. Chunks[args[1]] /\ out' = [c \in 1 .. ci' - 1 |-> V[Last][c]]
           /\ pc' = "done" => out' = V[Last]
<1> DEFINE x == Elementwise(IF ex.op = "maximum" THEN "relu" ELSE ex.op, <<In(1)[ci], In(2)[ci]>>)
           N == Chunks[args[1]]
<1>1. /\ pc = "run" /\ ~ ex.graph /\ ci' = ci + 1
      /\ IF ex.op \in {"dot_general", "npu_cached_mm"}
         THEN /\ pc' = "done"
              /\ out' = IF ex.op = "npu_cached_mm" THEN CachedDot(In(1), args[1])
                        ELSE Dot(In(1), In(2), DotShape[<<args[1], args[2]>>])
         ELSE /\ out' = Append(out, x)
              /\ pc' = IF ci = N THEN "done" ELSE pc
  BY DEF SingleOp
<1>2. /\ ex.op = SingleName(body[1].op) /\ ~ lost
      /\ ci \in 1 .. N /\ out = [c \in 1 .. ci - 1 |-> V[Last][c]]
  BY <1>1 DEF SingleBuilt, SingleAt, LostIsGraph
<1>3. body[1].op \in Binary \cup {"tanh", "dot_general", "relu_call", "npu_cached_mm"}
  BY DEF InOrder
<1>4. CASE ex.op \in {"dot_general", "npu_cached_mm"}
  <2>1. body[1].op = ex.op /\ pc' = "done"
    BY <1>1, <1>2, <1>4 DEF SingleName
  <2>2. CASE ex.op = "dot_general"
    BY <1>1, <1>2, <2>1, <2>2, SingleComputes
  <2>3. CASE ex.op = "npu_cached_mm"
    BY <1>1, <1>2, <2>1, <2>3, SingleComputes
  <2>4. QED
    BY <1>4, <2>1, <2>2, <2>3
<1>5. CASE ex.op \notin {"dot_general", "npu_cached_mm"}
  <2>1. body[1].op \notin {"dot_general", "npu_cached_mm"}
    BY <1>2, <1>5 DEF SingleName
  <2>2. N = Chunks[Shape(Last)] /\ x = V[Last][ci]
    BY <1>2, <2>1, SingleComputes
  <2>3. N \in Nat /\ N >= 1 /\ V[Last] = [c \in 1 .. N |-> V[Last][c]]
    BY <2>2, InOrderIs, ChunksAre, DomainIs
  <2>4. out' = Append(out, V[Last][ci]) /\ pc' = IF ci = N THEN "done" ELSE pc
    BY <1>1, <1>5, <2>2
  <2> HIDE DEF x, N
  <2>5. out' = [c \in 1 .. ci |-> V[Last][c]]
    BY <1>2, <2>3, <2>4
  <2>6. CASE ci = N
    BY <2>3, <2>4, <2>5, <2>6
  <2>7. CASE ci # N
    <3>1. ci' \in 1 .. N /\ ci' - 1 = ci
      BY <1>1, <1>2, <2>3, <2>7
    <3>2. pc' = "run"
      BY <1>1, <2>4, <2>7
    <3>3. QED
      BY <2>5, <3>1, <3>2 DEF N
  <2>8. QED
    BY <2>6, <2>7
<1>6. QED
  BY <1>4, <1>5

SingleInv == SingleBuilt /\ SingleAt /\ LostIsGraph /\ SingleCorrect

LEMMA SingleFrame ==
    ASSUME UNCHANGED <<args, body>>
    PROVE  (InOrder' <=> InOrder) /\ Last' = Last /\ V' = V
  BY DEF InOrder, Last, V

LEMMA CompileSingle ==
    ASSUME Function, Compiled, LostIsGraph, Compile
    PROVE  SingleInv'
<1>1. /\ pc = "trace" /\ args' = args /\ body' = body /\ lost' = lost
      /\ pc' \in {"ready", "refused"}
  BY DEF Compile
<1>2. ~ lost'
  BY <1>1 DEF Compiled, NoExecutable, LostIsGraph
<1>3. (InOrder' <=> InOrder) /\ Last' = Last
  BY <1>1, SingleFrame
<1>4. ASSUME pc' = "ready", InOrder
      PROVE  ~ ex'.graph /\ ex'.op = SingleName(body[1].op) /\ ret' = Last
  <2>1. PICK r \in Defined : AllUsed(r) /\ ret' = r /\ ex' \in Executable(r)
    BY <1>4 DEF Compile
  <2>2. r = Last
    BY <1>4, <2>1, ReturnsInOrder
  <2>3. ~ IsGraph(Lowered, r)
    BY <1>4, NoGraphInOrder
  <2>4. ex' = Single(SingleName(body[1].op))
    <3>1. CASE body[1].op = "npu_cached_mm"
      <4>1. "npu_cached_mm" \in ModuleNames
        BY <1>4, <3>1, NamesInOrder
      <4>2. ex' = Single("npu_cached_mm")
        BY <2>1, <2>3, <4>1, ExecutableIs
      <4>3. QED
        BY <3>1, <4>2 DEF SingleName
    <3>2. CASE body[1].op # "npu_cached_mm"
      <4>1. "npu_cached_mm" \notin ModuleNames /\ FirstFound = SingleName(body[1].op)
        BY <1>4, <3>2, FirstInOrder
      <4>2. ex' = Single(FirstFound)
        BY <2>1, <2>3, <4>1, ExecutableIs
      <4>3. QED
        BY <4>1, <4>2
    <3>3. QED
      BY <3>1, <3>2
  <2>5. ex'.graph = FALSE /\ ex'.op = SingleName(body[1].op)
    BY <2>4, SingleIs
  <2>6. QED
    BY <2>1, <2>2, <2>5
<1>5. SingleBuilt'
  BY <1>1, <1>3, <1>4 DEF SingleBuilt
<1>6. SingleAt' /\ LostIsGraph' /\ SingleCorrect'
  BY <1>1, <1>2 DEF SingleAt, LostIsGraph, SingleCorrect
<1>7. QED
  BY <1>5, <1>6 DEF SingleInv

LEMMA SingleInvStep == Function /\ Compiled /\ SingleInv /\ [Next]_vars => SingleInv'
<1> SUFFICES ASSUME Function, Compiled, SingleInv, [Next]_vars PROVE SingleInv'
  OBVIOUS
<1>1. SingleBuilt /\ SingleAt /\ LostIsGraph /\ SingleCorrect
  BY DEF SingleInv
<1>2. CASE Trace \/ Drop
  <2>1. pc' = "trace"
    BY <1>2 DEF Trace, Drop
  <2>2. LostIsGraph'
    BY <1>1, <1>2 DEF Trace, Drop, LostIsGraph
  <2>3. QED
    BY <2>1, <2>2 DEF SingleInv, SingleBuilt, SingleAt, SingleCorrect
<1>3. CASE Compile
  BY <1>1, <1>3, CompileSingle
<1>4. CASE Execute
  <2>1. /\ pc \in {"ready", "done", "failed"} /\ pc' \in {"run", "failed"}
        /\ ci' = 1 /\ out' = << >> /\ args' = args /\ body' = body /\ ret' = ret /\ ex' = ex
        /\ lost' => ex.graph
    BY <1>4 DEF Execute
  <2>2. (InOrder' <=> InOrder) /\ Last' = Last /\ V' = V
    BY <2>1, SingleFrame
  <2>3. SingleBuilt'
    BY <1>1, <2>1, <2>2 DEF SingleBuilt
  <2>4. SingleAt'
    <3>1. SUFFICES ASSUME pc' = "run", InOrder
                   PROVE  /\ ci' \in 1 .. Chunks[args'[1]]
                          /\ out' = [c \in 1 .. ci' - 1 |-> V'[Last'][c]]
      BY <2>2 DEF SingleAt
    <3>2. args[1] \in DOMAIN Chunks
      BY DEF Function
    <3>3. Chunks[args[1]] \in Nat \ {0}
      BY <3>2, ShapeAssumption DEF ShapeAssumption
    <3>4. ci' \in 1 .. Chunks[args'[1]] /\ ci' - 1 = 0
      BY <2>1, <3>3
    <3>5. << >> = [c \in 1 .. 0 |-> V'[Last'][c]]
      OBVIOUS
    <3>6. QED
      BY <2>1, <3>4, <3>5
  <2>5. LostIsGraph' /\ SingleCorrect'
    BY <2>1 DEF LostIsGraph, SingleCorrect
  <2>6. QED
    BY <2>3, <2>4, <2>5 DEF SingleInv
<1>5. CASE DeviceOp \/ HostOp
  <2>1. /\ pc = "run" /\ ex.graph /\ pc' \in {"run", "done"}
        /\ args' = args /\ body' = body /\ ret' = ret /\ ex' = ex /\ lost' = lost
    BY <1>5, Zenon DEF DeviceOp, HostOp
  <2>2. InOrder' <=> InOrder
    BY <2>1, SingleFrame
  <2>3. ~ InOrder
    BY <1>1, <2>1 DEF SingleBuilt
  <2>4. QED
    BY <2>1, <2>2, <2>3, Zenon DEF SingleInv, SingleBuilt, SingleAt, LostIsGraph, SingleCorrect
<1>6. CASE SingleOp
  <2>1. /\ pc = "run" /\ pc' \in {"run", "done"}
        /\ args' = args /\ body' = body /\ ret' = ret /\ ex' = ex /\ lost' = lost
    BY <1>6 DEF SingleOp
  <2>2. (InOrder' <=> InOrder) /\ Last' = Last /\ V' = V
    BY <2>1, SingleFrame
  <2>3. SingleBuilt' /\ LostIsGraph'
    BY <1>1, <2>1, <2>2 DEF SingleBuilt, LostIsGraph
  <2>4. InOrder => /\ pc' = "run" => /\ ci' \in 1 .. Chunks[args[1]]
                                     /\ out' = [c \in 1 .. ci' - 1 |-> V[Last][c]]
                   /\ pc' = "done" => out' = V[Last]
    BY <1>1, <1>6, SingleStep
  <2>5. SingleAt'
    BY <2>1, <2>2, <2>4 DEF SingleAt
  <2>6. SingleCorrect'
    <3>1. SUFFICES ASSUME pc' = "done", InOrder PROVE out' = Meaning'
      BY <2>2 DEF SingleCorrect
    <3>2. ret' = Last
      BY <1>1, <2>1, <3>1 DEF SingleBuilt
    <3>3. Meaning' = V'[ret']
      BY DEF Meaning, V
    <3>4. QED
      BY <2>2, <2>4, <3>1, <3>2, <3>3
  <2>7. QED
    BY <2>3, <2>5, <2>6 DEF SingleInv
<1>7. CASE SubmitFails
  <2>1. /\ pc = "run" /\ pc' = "failed"
        /\ args' = args /\ body' = body /\ ret' = ret /\ ex' = ex /\ lost' = lost
    BY <1>7 DEF SubmitFails
  <2>2. (InOrder' <=> InOrder) /\ Last' = Last
    BY <2>1, SingleFrame
  <2>3. QED
    BY <1>1, <2>1, <2>2 DEF SingleInv, SingleBuilt, SingleAt, LostIsGraph, SingleCorrect
<1>8. CASE UNCHANGED vars
  <2>1. /\ pc' = pc /\ args' = args /\ body' = body /\ ret' = ret /\ ex' = ex
        /\ lost' = lost /\ ci' = ci /\ out' = out
    BY <1>8 DEF vars
  <2>2. (InOrder' <=> InOrder) /\ Last' = Last /\ V' = V
    BY <2>1, SingleFrame
  <2>3. Meaning' = Meaning
    BY <2>1 DEF Meaning
  <2>4. SingleBuilt' /\ SingleAt'
    BY <1>1, <2>1, <2>2 DEF SingleBuilt, SingleAt
  <2>5. LostIsGraph' /\ SingleCorrect'
    BY <1>1, <2>1, <2>2, <2>3 DEF LostIsGraph, SingleCorrect
  <2>6. QED
    BY <2>4, <2>5 DEF SingleInv
<1>9. QED
  BY <1>2, <1>3, <1>4, <1>5, <1>6, <1>7, <1>8 DEF Next

\* A function of one documented operation on its arguments in order returns
\* what it means, though the path never looks at its operands (the search for
\* names and the paths of a single operation).
THEOREM SingleIsRight == Spec => []SingleCorrect
<1>1. Init => Function /\ Compiled /\ SingleInv
  <2>1. ASSUME Init PROVE SingleInv
    <3>1. pc = "trace" /\ lost = FALSE
      BY <2>1 DEF Init
    <3>2. QED
      BY <3>1 DEF SingleInv, SingleBuilt, SingleAt, LostIsGraph, SingleCorrect
  <2>2. QED
    BY <2>1, FunctionInit, CompiledInit
<1>2. Function /\ Compiled /\ SingleInv /\ [Next]_vars => (Function /\ Compiled /\ SingleInv)'
  BY FunctionStep, CompiledStep, SingleInvStep
<1>3. SingleInv => SingleCorrect
  BY DEF SingleInv
<1>4. QED
  BY <1>1, <1>2, <1>3, PTL DEF Spec

(***************************************************************************)
(* No function that the graph executors can take is refused.               *)
(***************************************************************************)

\* Fusable, of the values f of a function of n arguments with the body b.
ConstantIn(f, v) == f[v][1][1] \in {"const", "table"}
ComputedIn(f, n, b) == {i \in DOMAIN b : ~ ConstantIn(f, n + i)}
Takes(f, v, o) ==
    CASE o.op \in Binary -> "table" \notin {f[o.src[1]][1][1], f[o.src[2]][1][1]}
      [] o.op = "maximum" ->
            /\ f[v][1][1] = "relu"
            /\ ~ (ConstantIn(f, o.src[1]) /\ ConstantIn(f, o.src[2]))
      [] o.op \in {"tanh", "dot_general"} ->
            \A j \in DOMAIN o.src : ~ ConstantIn(f, o.src[j])
      [] OTHER -> FALSE
MayFuse(f, n, b, r) ==
    /\ r - n \in ComputedIn(f, n, b)
    /\ \A i \in ComputedIn(f, n, b) : Takes(f, n + i, b[i])
    /\ \/ \A i \in ComputedIn(f, n, b) : b[i].op # "maximum"
       \/ \A i \in ComputedIn(f, n, b) : b[i].op # "tanh"
    /\ Len(b) <= BodyCap /\ Cardinality(ComputedIn(f, n, b)) <= GraphCap
\* It is more than one plain operation.
IsMixed(f, n, b) ==
    \/ Cardinality(ComputedIn(f, n, b)) >= 2
    \/ \E i \in ComputedIn(f, n, b) :
          b[i].op \in Binary /\ (ConstantIn(f, b[i].src[1]) \/ ConstantIn(f, b[i].src[2]))

LEMMA FusableIs == Fusable => MayFuse(V, Len(args), body, ret)
<1> SUFFICES ASSUME Fusable PROVE MayFuse(V, Len(args), body, ret)
  OBVIOUS
<1> DEFINE f == Values(args, body)
           n == Len(args)
           b == body
           C == {i \in DOMAIN b : ~ (f[n + i][1][1] \in {"const", "table"})}
<1>1. C = ComputedIn(f, n, b)
  BY DEF ComputedIn, ConstantIn
<1>2. /\ ret - n \in C /\ Len(b) <= BodyCap /\ Cardinality(C) <= GraphCap
      /\ {i \in C : b[i].op = "maximum"} = {} \/ {i \in C : b[i].op = "tanh"} = {}
  BY Zenon DEF Fusable
<1>3. \A i \in C :
        CASE b[i].op \in Binary ->
               "table" \notin {f[b[i].src[1]][1][1], f[b[i].src[2]][1][1]}
          [] b[i].op = "maximum" ->
               /\ f[n + i][1][1] = "relu"
               /\ ~ (/\ f[b[i].src[1]][1][1] \in {"const", "table"}
                     /\ f[b[i].src[2]][1][1] \in {"const", "table"})
          [] b[i].op \in {"tanh", "dot_general"} ->
               \A j \in DOMAIN b[i].src : ~ (f[b[i].src[j]][1][1] \in {"const", "table"})
          [] OTHER -> FALSE
  BY DEF Fusable
<1> HIDE DEF C, f, n, b
<1>4. \A i \in C : Takes(f, n + i, b[i])
  BY <1>3 DEF Takes, ConstantIn
<1>5. MayFuse(f, n, b, ret)
  <2>1. \/ \A i \in C : b[i].op # "maximum"
        \/ \A i \in C : b[i].op # "tanh"
    BY <1>2
  <2>2. QED
    BY <1>1, <1>2, <1>4, <2>1, Zenon DEF MayFuse
<1>6. QED
  BY <1>5 DEF f, n, b, V

\* What the tables g say of the value v, and what the value is.
Matches(g, v) ==
    \/ Baked(g, v) /\ V[v][1] = Constant(g.cval[v])
    \/ g.cval[v] = "table" /\ V[v][1][1] = "table"
    \/ Data(g, v) /\ ~ ConstantIn(V, v)

LEMMA MatchIs ==
    ASSUME NEW g, NEW v, Matches(g, v)
    PROVE  /\ Data(g, v) \/ ConstantIn(V, v)
           /\ ConstantIn(V, v) => g.cval[v] # "none"
           /\ ConstantIn(V, v) /\ V[v][1][1] # "table" => Baked(g, v)
           /\ V[v][1] = Constant("zero") => g.cval[v] = "zero"
<1>1. \A c : Constant(c)[1] = "const" /\ Constant(c)[2] = c
  BY DEF Constant
<1>2. CASE Baked(g, v) /\ V[v][1] = Constant(g.cval[v])
  <2>1. V[v][1][1] = "const" /\ V[v][1][2] = g.cval[v]
    BY <1>1, <1>2
  <2>2. V[v][1] = Constant("zero") => V[v][1][2] = "zero"
    BY <1>1
  <2>3. g.cval[v] # "none"
    BY <1>2 DEF Baked
  <2>4. QED
    BY <1>2, <2>1, <2>2, <2>3 DEF ConstantIn
<1>3. CASE g.cval[v] = "table" /\ V[v][1][1] = "table"
  <2>1. V[v][1] # Constant("zero")
    BY <1>1, <1>3
  <2>2. QED
    BY <1>3, <2>1 DEF ConstantIn
<1>4. CASE Data(g, v) /\ ~ ConstantIn(V, v)
  <2>1. V[v][1] # Constant("zero")
    BY <1>1, <1>4 DEF ConstantIn
  <2>2. QED
    BY <1>4, <2>1
<1>5. QED
  BY <1>2, <1>3, <1>4 DEF Matches

LEMMA SameMatches ==
    ASSUME NEW g, NEW h, NEW v, Same(g, h, v), Matches(g, v)
    PROVE  Matches(h, v)
  BY SameReads DEF Matches

\* The first chunk of each kind of value.
LEMMA FirstChunk ==
    ASSUME Function, NEW v \in Defined, v > Len(args)
    PROVE  LET o == OpOf(v)
           IN  /\ o.op \notin {"constant", "broadcast_in_dim"} => ~ ConstantIn(V, v)
               /\ o.op = "constant" => \/ o.val = "table" /\ V[v][1][1] = "table"
                                       \/ o.val \in {"zero", "one"} /\ V[v][1] = Constant(o.val)
               /\ o.op = "broadcast_in_dim" => \/ ~ ConstantIn(V, v)
                                               \/ /\ V[o.src[1]][1][1] = "const"
                                                  /\ V[v][1] = V[o.src[1]][1]
               /\ o.op = "maximum" /\ V[v][1][1] = "relu" =>
                     \E j \in 1 .. 2 : V[o.src[j]][1] = Constant("zero")
<1> DEFINE o == OpOf(v)
<1>1. V[v] = Result(o, V) /\ Shape(v) = o.shape /\ LegalOp(o, v)
  BY ResultIs
<1>2. 1 \in 1 .. Chunks[Shape(v)]
  BY ChunksAre
<1>3. o.op \in Binary \cup {"maximum", "tanh", "relu_call", "silu_call", "npu_cached_mm",
                            "dot_general", "constant", "broadcast_in_dim"}
  BY <1>1 DEF LegalOp, Unary
<1>4. CASE o.op = "constant"
  <2>1. V[v][1] = IF o.val = "table" THEN <<"table", 1>> ELSE Constant(o.val)
    BY <1>1, <1>2, <1>4 DEF Result
  <2>2. o.val \in {"zero", "one", "table"}
    BY <1>1, <1>4 DEF LegalOp, Binary, Unary
  <2>3. QED
    BY <1>4, <2>1, <2>2
<1>5. CASE o.op = "broadcast_in_dim"
  <2>1. V[v][1] = IF V[o.src[1]][1][1] = "const" THEN V[o.src[1]][1]
                  ELSE <<"broadcast", V[o.src[1]], 1>>
    BY <1>1, <1>2, <1>5 DEF Result
  <2>2. CASE V[o.src[1]][1][1] = "const"
    BY <1>5, <2>1, <2>2
  <2>3. CASE V[o.src[1]][1][1] # "const"
    <3>1. V[v][1][1] = "broadcast"
      BY <2>1, <2>3
    <3>2. ~ ConstantIn(V, v)
      BY <3>1 DEF ConstantIn
    <3>3. QED
      BY <1>5, <3>2
  <2>4. QED
    BY <2>2, <2>3
<1>6. CASE o.op = "dot_general"
  <2>1. V[v] = Dot(V[o.src[1]], V[o.src[2]], Shape(v))
    BY <1>6, DotIs
  <2>2. V[v][1][1] = "dot"
    BY <1>2, <2>1 DEF Dot
  <2>3. QED
    BY <1>6, <2>2 DEF ConstantIn
<1>7. CASE o.op = "npu_cached_mm"
  <2>1. V[v][1] = CachedDot(V[o.src[1]], o.shape)[1]
    BY <1>1, <1>2, <1>7 DEF Result, Binary
  <2>2. V[v][1][1] = "cached_dot"
    BY <1>1, <1>2, <2>1 DEF CachedDot
  <2>3. QED
    BY <1>7, <2>2 DEF ConstantIn
<1>8. CASE o.op \in Binary \cup {"maximum", "tanh", "relu_call", "silu_call"}
  <2> DEFINE t == [j \in DOMAIN o.src |-> V[o.src[j]][1]]
  <2>1. V[v][1] = Elementwise(o.op, t)
    BY <1>2, <1>8, ElementwiseIs
  <2>2. o.op = "maximum" => /\ t[1] = V[o.src[1]][1] /\ t[2] = V[o.src[2]][1]
    BY <1>1 DEF LegalOp, Earlier, Binary, Unary
  <2> HIDE DEF t, o
  <2>3. CASE o.op = "maximum"
    <3>1. Elementwise(o.op, t) = IF t[2] = Constant("zero") THEN <<"relu", t[1]>>
                                 ELSE IF t[1] = Constant("zero") THEN <<"relu", t[2]>>
                                 ELSE <<o.op, t[1], t[2]>>
      BY <2>3 DEF Elementwise, Binary
    <3>2. QED
      BY <2>1, <2>2, <2>3, <3>1 DEF ConstantIn, o
  <2>4. CASE o.op \in Binary \cup {"tanh", "relu_call", "silu_call"}
    <3>1. /\ o.op \in Binary => Elementwise(o.op, t) = <<o.op, t[1], t[2]>>
          /\ o.op = "relu_call" => Elementwise(o.op, t) = <<"relu", t[1]>>
          /\ o.op \in {"tanh", "silu_call"} => Elementwise(o.op, t) = <<o.op, t[1]>>
      BY DEF Elementwise, Binary
    <3>2. V[v][1][1] \in Binary \cup {"relu", "tanh", "silu_call"}
      BY <2>1, <2>4, <3>1
    <3>3. ~ ConstantIn(V, v)
      BY <3>2 DEF ConstantIn, Binary
    <3>4. QED
      BY <2>4, <3>3 DEF Binary, o
  <2>5. QED
    BY <1>8, <2>3, <2>4
<1>9. QED
  BY <1>3, <1>4, <1>5, <1>6, <1>7, <1>8

\* The operations among the first i whose values are computed.
ComputedTo(i) == {j \in 1 .. i : ~ ConstantIn(V, Len(args) + j)}

LEMMA ComputedToIs ==
    ASSUME Function
    PROVE  /\ ComputedTo(0) = {} /\ ComputedTo(Len(body)) = ComputedIn(V, Len(args), body)
           /\ \A i \in 0 .. Len(body) :
                 /\ IsFiniteSet(ComputedTo(i)) /\ Cardinality(ComputedTo(i)) \in Nat
                 /\ Cardinality(ComputedTo(i)) <= Cardinality(ComputedTo(Len(body)))
           /\ \A i \in 1 .. Len(body) :
                 Cardinality(ComputedTo(i)) = Cardinality(ComputedTo(i - 1))
                                              + IF ConstantIn(V, Len(args) + i) THEN 0 ELSE 1
<1>1. Len(body) \in Nat /\ DOMAIN body = 1 .. Len(body)
  <2>1. body \in Seq(Op)
    BY DEF Function
  <2>2. QED
    BY <2>1
<1>2. ComputedTo(0) = {} /\ ComputedTo(Len(body)) = ComputedIn(V, Len(args), body)
  BY <1>1 DEF ComputedTo, ComputedIn
<1>3. ASSUME NEW i \in 0 .. Len(body)
      PROVE  IsFiniteSet(ComputedTo(i)) /\ Cardinality(ComputedTo(i)) \in Nat
  <2>1. IsFiniteSet(1 .. i)
    BY <1>1, FS_Interval
  <2>2. ComputedTo(i) \in SUBSET (1 .. i)
    BY DEF ComputedTo
  <2>3. IsFiniteSet(ComputedTo(i))
    BY <2>1, <2>2, FS_Subset
  <2>4. QED
    BY <2>3, FS_CardinalityType
<1>4. ASSUME NEW i \in 0 .. Len(body)
      PROVE  Cardinality(ComputedTo(i)) <= Cardinality(ComputedTo(Len(body)))
  <2>1. ComputedTo(i) \in SUBSET ComputedTo(Len(body))
    BY <1>1 DEF ComputedTo
  <2>2. IsFiniteSet(ComputedTo(Len(body)))
    BY <1>1, <1>3
  <2>3. QED
    BY <2>1, <2>2, FS_Subset
<1>5. ASSUME NEW i \in 1 .. Len(body)
      PROVE  Cardinality(ComputedTo(i)) = Cardinality(ComputedTo(i - 1))
                                              + IF ConstantIn(V, Len(args) + i) THEN 0 ELSE 1
  <2>1. i - 1 \in 0 .. Len(body) /\ i \notin ComputedTo(i - 1)
    BY <1>1 DEF ComputedTo
  <2>2. IsFiniteSet(ComputedTo(i - 1)) /\ Cardinality(ComputedTo(i - 1)) \in Nat
    BY <1>3, <2>1
  <2>3. CASE ConstantIn(V, Len(args) + i)
    <3>1. ComputedTo(i) = ComputedTo(i - 1)
      BY <1>1, <2>3 DEF ComputedTo
    <3>2. QED
      BY <2>2, <2>3, <3>1
  <2>4. CASE ~ ConstantIn(V, Len(args) + i)
    <3>1. ComputedTo(i) = ComputedTo(i - 1) \cup {i}
      BY <1>1, <2>4 DEF ComputedTo
    <3>2. Cardinality(ComputedTo(i - 1) \cup {i}) = Cardinality(ComputedTo(i - 1)) + 1
      BY <2>1, <2>2, FS_AddElement
    <3>3. QED
      BY <2>4, <3>1, <3>2
  <2>5. QED
    BY <2>3, <2>4
<1>6. QED
  BY <1>2, <1>3, <1>4, <1>5

\* What npu_parse_graph has before operation i, if it gave up on none.
Fused(g, i) ==
    /\ g.ok /\ \A v \in 1 .. Len(args) + i : Matches(g, v)
    /\ Len(g.ops) = Cardinality(ComputedTo(i))

LEMMA FusedStart ==
    ASSUME Function
    PROVE  Fused(NothingLowered, 0)
<1>1. NothingLowered.ok /\ Len(NothingLowered.ops) = 0
  BY DEF NothingLowered
<1>2. Cardinality(ComputedTo(0)) = 0
  BY ComputedToIs, FS_EmptySet
<1>3. ASSUME NEW v \in 1 .. Len(args) PROVE Matches(NothingLowered, v)
  <2>1. /\ V[v] = [c \in 1 .. Chunks[Shape(v)] |-> Argument(v, c)]
        /\ Shape(v) = args[v] /\ v \in Defined
    BY ArgumentIs, Zenon
  <2>2. 1 \in 1 .. Chunks[Shape(v)]
    BY <2>1, ChunksAre
  <2>3. V[v][1][1] = "arg"
    BY <2>1, <2>2 DEF Argument
  <2>4. NothingLowered.cval[v] = "none" /\ v <= Len(args)
    BY <2>1, FunctionIs DEF NothingLowered
  <2>5. QED
    BY <2>3, <2>4 DEF Matches, Data, Readable, ConstantIn
<1>4. Len(args) + 0 = Len(args)
  BY FunctionIs
<1>5. QED
  BY <1>1, <1>2, <1>3, <1>4 DEF Fused

\* It accepts an operation that is a constant, or that the executors have.
LEMMA FusedAccepts ==
    ASSUME Function, NEW g, NEW v \in Defined, v > Len(args), Ready(g, v, OpOf(v)),
           \A u \in 1 .. v - 1 : Matches(g, u),
           ConstantIn(V, v) \/ (Takes(V, v, OpOf(v)) /\ Len(g.ops) < GraphCap)
    PROVE  Accepts(g, OpOf(v))
<1> DEFINE o == OpOf(v)
<1>1. LegalOp(o, v)
  BY ResultIs
<1>2. \A j \in DOMAIN o.src : o.src[j] \in 1 .. v - 1 /\ Matches(g, o.src[j])
  BY <1>1 DEF LegalOp, Earlier
<1>3. \A j \in DOMAIN o.src : /\ Data(g, o.src[j]) \/ ConstantIn(V, o.src[j])
                              /\ ConstantIn(V, o.src[j]) => g.cval[o.src[j]] # "none"
                              /\ ConstantIn(V, o.src[j]) /\ V[o.src[j]][1][1] # "table"
                                    => Baked(g, o.src[j])
                              /\ V[o.src[j]][1] = Constant("zero") => g.cval[o.src[j]] = "zero"
  BY <1>2, MatchIs
<1>4. /\ o.op \notin {"constant", "broadcast_in_dim"} => ~ ConstantIn(V, v)
      /\ o.op = "maximum" /\ V[v][1][1] = "relu" =>
            \E j \in 1 .. 2 : V[o.src[j]][1] = Constant("zero")
  BY FirstChunk
<1>5. /\ o.op \in Binary \cup {"maximum", "dot_general"} => DOMAIN o.src = 1 .. 2
      /\ o.op = "tanh" => DOMAIN o.src = 1 .. 1
  BY <1>1 DEF LegalOp, Earlier, Binary, Unary
<1>6. o.op \notin {"constant", "broadcast_in_dim"} => Takes(V, v, o) /\ Len(g.ops) < GraphCap
  BY <1>4
<1> HIDE DEF o
<1>7. CASE o.op \in {"constant", "broadcast_in_dim"}
  BY <1>7 DEF Accepts, o
<1>8. CASE o.op \in Binary
  <2>1. "table" \notin {V[o.src[1]][1][1], V[o.src[2]][1][1]} /\ Len(g.ops) < GraphCap
    BY <1>6, <1>8, Zenon DEF Takes, Binary
  <2>2. \A j \in 1 .. 2 : V[o.src[j]][1][1] # "table"
    BY <2>1
  <2>3. \A j \in 1 .. 2 : Baked(g, o.src[j]) \/ Data(g, o.src[j])
    BY <1>3, <1>5, <1>8, <2>2
  <2>4. QED
    BY <1>8, <2>1, <2>3 DEF Accepts, o
<1>9. CASE o.op = "maximum"
  <2>1. /\ V[v][1][1] = "relu" /\ Len(g.ops) < GraphCap
        /\ ~ (ConstantIn(V, o.src[1]) /\ ConstantIn(V, o.src[2]))
    BY <1>6, <1>9 DEF Takes, Binary
  <2>2. PICK j \in 1 .. 2 : V[o.src[j]][1] = Constant("zero")
    BY <1>4, <1>9, <2>1
  <2>3. ConstantIn(V, o.src[j])
    BY <2>2 DEF ConstantIn, Constant
  <2>4. 3 - j \in 1 .. 2 /\ 3 - (3 - j) = j /\ ~ ConstantIn(V, o.src[3 - j])
    BY <2>1, <2>2, <2>3
  <2>5. Relu(g, o, 3 - j)
    BY <1>3, <1>5, <1>9, <2>2, <2>4 DEF Relu
  <2>6. QED
    BY <1>9, <2>1, <2>4, <2>5 DEF Accepts, o
<1>10. CASE o.op \in {"tanh", "dot_general"}
  <2>1. (\A j \in DOMAIN o.src : ~ ConstantIn(V, o.src[j])) /\ Len(g.ops) < GraphCap
    BY <1>6, <1>10 DEF Takes, Binary
  <2>2. \A j \in DOMAIN o.src : Data(g, o.src[j])
    BY <1>3, <2>1
  <2>3. QED
    BY <1>5, <1>10, <2>1, <2>2 DEF Accepts, o
<1>11. CASE o.op \notin Binary \cup {"constant", "broadcast_in_dim", "maximum", "tanh", "dot_general"}
  <2>1. ~ Takes(V, v, o)
    BY <1>11 DEF Takes
  <2>2. QED
    BY <1>6, <1>11, <2>1
<1>12. QED
  BY <1>7, <1>8, <1>9, <1>10, <1>11

\* And the tables match the values after it.
LEMMA FusedStep ==
    ASSUME Function, NEW g \in Tables, NEW i \in 1 .. Len(body), LoweredTo(g, i - 1),
           Fused(g, i - 1), NEW h, h = LowerOp(g, i),
           Cardinality(ComputedTo(Len(body))) <= GraphCap,
           ConstantIn(V, Len(args) + i) \/ Takes(V, Len(args) + i, body[i])
    PROVE  Fused(h, i)
<1> DEFINE v == Len(args) + i
           o == OpOf(v)
<1>1. /\ Len(args) \in Nat /\ Len(args) >= 1 /\ Len(body) \in Nat /\ Last \in Nat
      /\ Defined = 1 .. Last /\ Last = Len(args) + Len(body) /\ GraphCap \in Nat
  BY FunctionIs
<1>2. v \in Defined /\ v > Len(args) /\ v \in Nat /\ o = body[i] /\ v - 1 = Len(args) + (i - 1)
  BY <1>1 DEF OpOf
<1>3. Ready(g, v, o) /\ g.cval[v] = "none" /\ g.ok
  BY <1>2, LoweredIsReady DEF Fused
<1>4. /\ \A u \in 1 .. v - 1 : Matches(g, u)
      /\ Len(g.ops) = Cardinality(ComputedTo(i - 1))
  BY <1>2 DEF Fused
<1>5. /\ Len(g.ops) \in Nat
      /\ Cardinality(ComputedTo(i)) <= GraphCap
      /\ Cardinality(ComputedTo(i)) \in Nat
      /\ Cardinality(ComputedTo(i)) = Len(g.ops) + IF ConstantIn(V, v) THEN 0 ELSE 1
  <2>1. i \in 0 .. Len(body) /\ i - 1 \in 0 .. Len(body)
    BY <1>1
  <2>2. /\ Cardinality(ComputedTo(i)) \in Nat /\ Cardinality(ComputedTo(i - 1)) \in Nat
        /\ Cardinality(ComputedTo(i)) <= Cardinality(ComputedTo(Len(body)))
        /\ Cardinality(ComputedTo(Len(body))) \in Nat
        /\ Cardinality(ComputedTo(i)) = Cardinality(ComputedTo(i - 1)) + IF ConstantIn(V, v) THEN 0 ELSE 1
    BY <1>1, <2>1, ComputedToIs
  <2> HIDE DEF v
  <2>3. QED
    BY <1>1, <1>4, <2>2
<1>6. ConstantIn(V, v) \/ (Takes(V, v, o) /\ Len(g.ops) < GraphCap)
  <2>1. ConstantIn(V, v) \/ Takes(V, v, o)
    BY <1>2
  <2> HIDE DEF v, o
  <2>2. ASSUME ~ ConstantIn(V, v) PROVE Len(g.ops) < GraphCap
    <3>1. Cardinality(ComputedTo(i)) = Len(g.ops) + 1
      BY <1>5, <2>2
    <3>2. \A a, b, c \in Nat : a = b + 1 /\ a <= c => b < c
      OBVIOUS
    <3>3. QED
      BY <1>1, <1>5, <3>1, <3>2, Zenon
  <2>3. QED
    BY <2>1, <2>2
<1>7. Accepts(g, o)
  <2> HIDE DEF v
  <2>1. QED
    BY <1>2, <1>3, <1>4, <1>6, FusedAccepts
<1>8. h \in Tables /\ h.ok /\ Adds(g, h, v, o)
  BY <1>2, <1>3, <1>7, OpLowers
<1>9. Kept(g, h, v)
  BY <1>2, <1>8, AddsKeeps
<1>10. /\ o.op \notin {"constant", "broadcast_in_dim"} => ~ ConstantIn(V, v)
       /\ o.op = "constant" => \/ o.val = "table" /\ V[v][1][1] = "table"
                               \/ o.val \in {"zero", "one"} /\ V[v][1] = Constant(o.val)
       /\ o.op = "broadcast_in_dim" => \/ ~ ConstantIn(V, v)
                                       \/ /\ V[o.src[1]][1][1] = "const"
                                          /\ V[v][1] = V[o.src[1]][1]
  BY <1>2, FirstChunk
<1>11. LegalOp(o, v)
  BY <1>3 DEF Ready
<1> HIDE DEF v, o
<1>12. /\ g.ops \in Seq(GraphOp) /\ g.gop \in [Defined -> Nat]
       /\ g.cval \in [Defined -> {"none", "zero", "one", "table"}]
  BY DEF Tables
<1>13. ASSUME NEW u \in 1 .. v - 1 PROVE Matches(h, u)
  <2>1. u \in Defined \ {v}
    <3>1. v \in 1 .. Last
      BY <1>1, <1>2
    <3>2. u \in 1 .. Last /\ u # v
      BY <1>1, <3>1
    <3>3. QED
      BY <1>1, <3>2
  <2>2. Same(g, h, u)
    BY <1>9, <2>1 DEF Kept
  <2>3. QED
    BY <1>4, <2>2, SameMatches
<1>18. ASSUME Matches(h, v), Len(h.ops) = Cardinality(ComputedTo(i))
       PROVE  Fused(h, i)
  <2>1. \A u \in 1 .. v : u \in 1 .. v - 1 \/ u = v
    BY <1>2
  <2>2. v = Len(args) + i
    BY DEF v
  <2>3. QED
    BY <1>8, <1>13, <1>18, <2>1, <2>2 DEF Fused
<1>14. CASE o.op = "constant" /\ AddsConst(g, h, v, o.val)
  <2>1. h.cval[v] = o.val /\ h.ops = g.ops
    BY <1>2, <1>12, <1>14 DEF AddsConst
  <2>2. ConstantIn(V, v) /\ Matches(h, v)
    BY <1>10, <1>14, <2>1 DEF Matches, Baked, ConstantIn, Constant
  <2>3. QED
    BY <1>5, <1>18, <2>1, <2>2
<1>15. CASE o.op = "broadcast_in_dim" /\ AddsConst(g, h, v, g.cval[o.src[1]])
  <2>1. h.cval[v] = g.cval[o.src[1]] /\ h.ops = g.ops
    BY <1>2, <1>12, <1>15 DEF AddsConst
  <2>2. ConstantIn(V, v)
    BY <1>6, <1>15 DEF Takes, Binary
  <2>3. V[o.src[1]][1][1] = "const" /\ V[v][1] = V[o.src[1]][1]
    BY <1>10, <1>15, <2>2
  <2>4. o.src[1] \in 1 .. v - 1
    BY <1>11, <1>15 DEF LegalOp, Earlier, Binary, Unary
  <2>5. Matches(g, o.src[1])
    BY <1>4, <2>4
  <2>6. Baked(g, o.src[1]) /\ V[o.src[1]][1] = Constant(g.cval[o.src[1]])
    BY <2>3, <2>5 DEF Matches, ConstantIn
  <2>7. Matches(h, v)
    BY <2>1, <2>3, <2>6 DEF Matches, Baked
  <2>8. QED
    BY <1>5, <1>18, <2>1, <2>2, <2>7
<1>16. ASSUME NEW t, NEW src, AsGraphOp(g, o, t, src), AddsOp(g, h, v, t, src)
       PROVE  Fused(h, i)
  <2>1. h.gop[v] # 0 /\ h.cval[v] = "none" /\ Len(h.ops) = Len(g.ops) + 1
    BY <1>2, <1>3, <1>5, <1>12, <1>16 DEF AddsOp
  <2>2. ~ ConstantIn(V, v)
    BY <1>10, <1>16 DEF AsGraphOp, Binary
  <2>3. Matches(h, v)
    BY <2>1, <2>2 DEF Matches, Data, Readable
  <2>4. QED
    BY <1>5, <1>18, <2>1, <2>2, <2>3
<1>17. QED
  BY <1>8, <1>14, <1>15, <1>16 DEF Adds

LEMMA LoweringFuses ==
    ASSUME Function, Cardinality(ComputedTo(Len(body))) <= GraphCap,
           \A i \in ComputedTo(Len(body)) : Takes(V, Len(args) + i, body[i])
    PROVE  \A i \in 0 .. Len(body) : Fused(Lowering[i], i)
<1> DEFINE S == {i \in 0 .. Len(body) : Fused(Lowering[i], i)}
<1>1. Len(body) \in Nat
  BY FunctionIs
<1>2. 0 \in S
  BY <1>1, FusedStart, LoweringIs
<1>3. ASSUME NEW j \in 0 .. Len(body) - 1, j \in S PROVE j + 1 \in S
  <2> DEFINE i == j + 1
  <2>1. i \in 1 .. Len(body) /\ i - 1 = j /\ i \in 0 .. Len(body)
    BY <1>1
  <2>2. Fused(Lowering[j], j)
    BY <1>3
  <2>3. Lowering[j] \in Tables /\ LoweredTo(Lowering[j], j)
    BY <2>1, <2>2, <1>1, LoweredIs DEF Fused
  <2> HIDE DEF i
  <2>4. Lowering[i] = LowerOp(Lowering[i - 1], i)
    BY <2>1, LoweringIs
  <2>5. ConstantIn(V, Len(args) + i) \/ Takes(V, Len(args) + i, body[i])
    BY <2>1 DEF ComputedTo
  <2>6. Fused(Lowering[i], i)
    BY <2>1, <2>2, <2>3, <2>4, <2>5, FusedStep
  <2>7. QED
    BY <2>1, <2>6 DEF i
<1>4. 0 .. Len(body) \subseteq S
  <2> HIDE DEF S
  <2>1. QED
    BY <1>1, <1>2, <1>3, Induct
<1>5. QED
  BY <1>4

\* The tables of a function that may fuse.
LEMMA MayFuseIs ==
    ASSUME Function, NEW r \in Defined, MayFuse(V, Len(args), body, r), NEW g, g = Lowered
    PROVE  /\ g \in Tables /\ LoweredTo(g, Len(body)) /\ Fused(g, Len(body))
           /\ ComputedTo(Len(body)) = ComputedIn(V, Len(args), body)
<1>1. ComputedTo(Len(body)) = ComputedIn(V, Len(args), body)
  BY ComputedToIs
<1>2. /\ Cardinality(ComputedTo(Len(body))) <= GraphCap
      /\ \A i \in ComputedTo(Len(body)) : Takes(V, Len(args) + i, body[i])
  BY <1>1, Zenon DEF MayFuse
<1>3. Len(body) \in 0 .. Len(body) /\ g = Lowering[Len(body)]
  BY FunctionIs, LoweringIs
<1>4. Fused(g, Len(body))
  BY <1>2, <1>3, LoweringFuses
<1>5. g \in Tables /\ LoweredTo(g, Len(body))
  BY <1>3, <1>4, LoweredIs DEF Fused
<1>6. QED
  BY <1>1, <1>4, <1>5

LEMMA MayFuseGraph ==
    ASSUME Function, NEW r \in Defined, MayFuse(V, Len(args), body, r), NEW g, g = Lowered,
           IsMixed(V, Len(args), body)
    PROVE  IsGraph(g, r)
<1> DEFINE n == Len(body)
           C == ComputedTo(n)
<1>1. /\ g \in Tables /\ LoweredTo(g, n) /\ Fused(g, n)
      /\ C = ComputedIn(V, Len(args), body)
  BY MayFuseIs
<1>2. /\ Len(args) \in Nat /\ n \in Nat /\ Defined = 1 .. Last /\ Last = Len(args) + n
      /\ \A i \in 1 .. n : LegalOp(body[i], Len(args) + i)
  BY FunctionIs
<1>3. /\ g.ok /\ Len(g.ops) = Cardinality(C)
      /\ \A v \in Defined : Matches(g, v)
  BY <1>1, <1>2 DEF Fused
<1>4. r - Len(args) \in C /\ n <= BodyCap
  BY <1>1, Zenon DEF MayFuse
<1>5. n \in 1 .. BodyCap
  <2>1. r - Len(args) \in 1 .. n /\ BodyCap \in Nat
    BY <1>4, ProgramAssumption DEF ComputedTo
  <2>2. QED
    BY <1>2, <1>4, <2>1
<1>6. g.gop[r] # 0
  <2>1. r \in Nat /\ r - Len(args) \in 1 .. n /\ ~ ConstantIn(V, Len(args) + (r - Len(args)))
    BY <1>2, <1>4 DEF ComputedTo
  <2>2. Len(args) + (r - Len(args)) = r /\ ~ (r <= Len(args))
    BY <1>2, <2>1
  <2>3. Data(g, r)
    BY <1>3, <2>1, <2>2, MatchIs
  <2>4. QED
    BY <2>2, <2>3 DEF Data, Readable
<1>7. Len(g.ops) >= 2 \/ g.hasConst
  <2>1. CASE Cardinality(C) >= 2
    BY <1>3, <2>1
  <2>2. CASE \E i \in C : /\ body[i].op \in Binary
                          /\ ConstantIn(V, body[i].src[1]) \/ ConstantIn(V, body[i].src[2])
    <3>1. PICK i \in C : /\ body[i].op \in Binary
                         /\ ConstantIn(V, body[i].src[1]) \/ ConstantIn(V, body[i].src[2])
      BY <2>2
    <3> DEFINE o == body[i]
    <3>2. i \in 1 .. n
      BY <3>1 DEF ComputedTo
    <3>3. LegalOp(o, Len(args) + i) /\ Len(args) + i \in Defined
      BY <1>2, <3>2
    <3>4. Takes(V, Len(args) + i, o)
      BY <1>1, <3>1, Zenon DEF MayFuse
    <3> HIDE DEF o
    <3>5. \A j \in 1 .. 2 : o.src[j] \in Defined
      BY <1>2, <3>1, <3>2, <3>3 DEF LegalOp, Earlier, Binary, Unary, o
    <3>6. "table" \notin {V[o.src[1]][1][1], V[o.src[2]][1][1]}
      BY <3>1, <3>4, Zenon DEF Takes, Binary, o
    <3>7. PICK j \in 1 .. 2 : ConstantIn(V, o.src[j])
      BY <3>1 DEF o
    <3>8. V[o.src[j]][1][1] # "table"
      BY <3>6
    <3>9. Baked(g, o.src[j])
      BY <1>3, <3>5, <3>7, <3>8, MatchIs
    <3>10. ReadsConst(g, body[i])
      BY <3>1, <3>9 DEF ReadsConst, o
    <3>11. g.hasConst
      BY <1>1, <3>2, <3>10 DEF LoweredTo
    <3>12. QED
      BY <3>11
  <2>3. QED
    BY <1>1, <2>1, <2>2, Zenon DEF IsMixed
<1>8. QED
  BY <1>3, <1>5, <1>6, <1>7 DEF IsGraph

\* An operation of the graph is one of the function.
LEMMA TypeFrom ==
    ASSUME Function, NEW g \in Tables, LoweredTo(g, Len(body)), Fused(g, Len(body)),
           NEW m \in DOMAIN g.ops
    PROVE  \E i \in ComputedTo(Len(body)) :
              /\ g.ops[m].t = "relu" => body[i].op = "maximum"
              /\ g.ops[m].t = "tanh" => body[i].op = "tanh"
<1>1. m \in 1 .. Len(g.ops) /\ Len(args) \in Nat /\ Len(body) \in Nat /\ Defined = 1 .. Last
      /\ Last = Len(args) + Len(body)
  BY FunctionIs DEF Tables
<1>2. PICK v \in Defined : g.gop[v] = m
  BY <1>1 DEF LoweredTo, Numbered
<1>3. /\ v - Len(args) \in 1 .. Len(body) /\ g.cval[v] = "none" /\ Computes(g, v)
  BY <1>1, <1>2, GraphOpIs
<1>4. Len(args) + (v - Len(args)) = v /\ Matches(g, v)
  BY <1>1, <1>3 DEF Fused
<1>5. v - Len(args) \in ComputedTo(Len(body))
  BY <1>3, <1>4, MatchIs DEF ComputedTo
<1>6. /\ g.ops[m].t = "relu" => body[v - Len(args)].op = "maximum"
      /\ g.ops[m].t = "tanh" => body[v - Len(args)].op = "tanh"
  BY <1>2, <1>3 DEF Computes, ComputesAs, OpOf, Binary
<1>7. QED
  BY <1>5, <1>6

\* JAX leaves no value unused: the last operation is the one that is returned,
\* and the others are operands of one that comes after them.
LEMMA UsedLater ==
    ASSUME Function, NEW r \in Defined, AllUsed(r), NEW m \in 1 .. Len(body), Len(args) + m # r
    PROVE  \E i \in m + 1 .. Len(body) : \E j \in DOMAIN body[i].src : body[i].src[j] = Len(args) + m
<1>1. /\ Len(args) \in Nat /\ Len(body) \in Nat /\ Defined = 1 .. Last /\ Last = Len(args) + Len(body)
      /\ \A i \in 1 .. Len(body) : LegalOp(body[i], Len(args) + i)
  BY FunctionIs
<1>2. Len(args) + m \in Defined \ {r}
  BY <1>1
<1>3. PICK i \in DOMAIN body : \E j \in DOMAIN body[i].src : body[i].src[j] = Len(args) + m
  BY <1>2 DEF AllUsed
<1>4. PICK j \in DOMAIN body[i].src : body[i].src[j] = Len(args) + m
  BY <1>3
<1>5. i \in 1 .. Len(body)
  <2>1. body \in Seq(Op)
    BY DEF Function
  <2>. QED
    BY <1>3, <2>1
<1>6. \A h \in DOMAIN body[i].src : body[i].src[h] \in 1 .. Len(args) + i - 1
  <2>1. LegalOp(body[i], Len(args) + i)
    BY <1>1, <1>5
  <2>. QED
    BY <2>1 DEF LegalOp, Earlier, Binary, Unary
<1>7. Len(args) + m \in 1 .. Len(args) + i - 1
  BY <1>4, <1>6
<1>8. i \in m + 1 .. Len(body)
  BY <1>1, <1>5, <1>7
<1>. QED
  BY <1>4, <1>8

\* One plain operation that is not a maximum is the whole function.
LEMMA PlainAlone ==
    ASSUME Function, NEW r \in Defined, AllUsed(r), MayFuse(V, Len(args), body, r),
           ~ IsMixed(V, Len(args), body), ~ LoneMaximum
    PROVE  Len(body) = 1 /\ body[1].op \in Binary \cup {"tanh", "dot_general"}
<1> DEFINE n == Len(body)
           C == ComputedTo(n)
<1>1. /\ Len(args) \in Nat /\ n \in Nat /\ Defined = 1 .. Last /\ Last = Len(args) + n
      /\ \A i \in 1 .. n : LegalOp(body[i], Len(args) + i)
      /\ DOMAIN body = 1 .. n
  <2>1. body \in Seq(Op)
    BY DEF Function
  <2>. QED
    BY <2>1, FunctionIs
<1>2. /\ C = ComputedIn(V, Len(args), body) /\ IsFiniteSet(C) /\ Cardinality(C) \in Nat
  BY <1>1, ComputedToIs
<1>3. /\ r - Len(args) \in C /\ r - Len(args) \in 1 .. n
      /\ \A i \in C : Takes(V, Len(args) + i, body[i])
  <2>1. /\ r - Len(args) \in C /\ \A i \in C : Takes(V, Len(args) + i, body[i])
    BY <1>2, Zenon DEF MayFuse
  <2>. QED
    BY <2>1 DEF ComputedTo
<1>4. ~ (Cardinality(C) >= 2)
  BY <1>2, Zenon DEF IsMixed
<1>5. C = {r - Len(args)}
  <2>1. ASSUME NEW j \in C, j # r - Len(args) PROVE FALSE
    <3>1. {j, r - Len(args)} \subseteq C
      BY <1>3
    <3>2. Cardinality({j, r - Len(args)}) <= Cardinality(C)
      BY <1>2, <3>1, FS_Subset
    <3>3. Cardinality({r - Len(args)}) = 1 /\ IsFiniteSet({r - Len(args)})
      BY FS_Singleton
    <3>4. Cardinality({r - Len(args)} \cup {j}) = 2
      <4>1. j \notin {r - Len(args)}
        BY <2>1
      <4>2. Cardinality({r - Len(args)} \cup {j}) = Cardinality({r - Len(args)}) + 1
        BY <3>3, <4>1, FS_AddElement, Zenon
      <4>3. 1 + 1 = 2
        OBVIOUS
      <4>. QED
        BY <3>3, <4>2, <4>3, Zenon
    <3>5. {r - Len(args)} \cup {j} = {j, r - Len(args)}
      OBVIOUS
    <3>. QED
      BY <1>2, <1>4, <3>2, <3>4, <3>5
  <2>. QED
    BY <1>3, <2>1
<1>6. r = Len(args) + n
  <2>1. ASSUME r # Len(args) + n PROVE FALSE
    <3>1. n \in 1 .. Len(body)
      BY <1>1, <1>3
    <3>2. \E i \in n + 1 .. Len(body) : TRUE
      BY <2>1, <3>1, UsedLater
    <3>. QED
      BY <1>1, <3>2
  <2>. QED
    BY <2>1
<1>7. C = {n} /\ n \in 1 .. n
  BY <1>1, <1>3, <1>5, <1>6
<1>8. Takes(V, Len(args) + n, body[n]) /\ LegalOp(body[n], Len(args) + n)
  BY <1>1, <1>3, <1>7
<1>9. ASSUME NEW j \in 1 .. n, j # n PROVE ConstantIn(V, Len(args) + j)
  BY <1>7, <1>9 DEF ComputedTo
<1>10. body[n].op # "maximum"
  <2>1. ASSUME body[n].op = "maximum" PROVE FALSE
    <3>1. ASSUME NEW j \in 1 .. n, j # n
          PROVE  body[j].op \in {"constant", "broadcast_in_dim"}
      <4>1. Len(args) + j \in Defined /\ Len(args) + j > Len(args) /\ Len(args) + j - Len(args) = j
        BY <1>1
      <4>2. OpOf(Len(args) + j) = body[j]
        BY <4>1 DEF OpOf
      <4>. QED
        BY <1>9, <3>1, <4>1, <4>2, FirstChunk
    <3>. QED
      BY <1>1, <1>7, <2>1, <3>1 DEF LoneMaximum
  <2>. QED
    BY <2>1
<1>11. body[n].op \in Binary \cup {"tanh", "dot_general"}
  BY <1>8, <1>10, Zenon DEF Takes
<1>12. \A j \in DOMAIN body[n].src : ~ ConstantIn(V, body[n].src[j])
  <2>1. CASE body[n].op \in Binary
    <3>1. ~ ConstantIn(V, body[n].src[1]) /\ ~ ConstantIn(V, body[n].src[2])
      BY <1>2, <1>7, <2>1, Zenon DEF IsMixed
    <3>2. DOMAIN body[n].src = 1 .. 2
      BY <1>8, <2>1 DEF LegalOp, Earlier, Binary, Unary
    <3>. QED
      BY <3>1, <3>2
  <2>2. CASE body[n].op \in {"tanh", "dot_general"}
    BY <1>8, <2>2 DEF Takes, Binary
  <2>. QED
    BY <1>11, <2>1, <2>2
<1>13. n = 1
  <2>1. ASSUME n # 1 PROVE FALSE
    <3>1. n - 1 \in 1 .. Len(body) /\ n - 1 # n /\ Len(args) + (n - 1) # r
      <4>1. \A a, m \in Nat : m \in 1 .. m /\ m # 1 =>
               m - 1 \in 1 .. m /\ m - 1 # m /\ a + (m - 1) # a + m
        OBVIOUS
      <4>2. n \in Nat /\ Len(args) \in Nat /\ n \in 1 .. n
        BY <1>1, <1>7
      <4>. QED
        BY <1>6, <2>1, <4>1, <4>2, Zenon
    <3>2. ConstantIn(V, Len(args) + (n - 1))
      BY <1>9, <3>1
    <3>3. \E i \in (n - 1) + 1 .. Len(body) :
             \E j \in DOMAIN body[i].src : body[i].src[j] = Len(args) + (n - 1)
      BY <3>1, UsedLater
    <3>4. \A i \in (n - 1) + 1 .. Len(body) : i = n
      <4>1. \A m \in Nat : \A i \in (m - 1) + 1 .. m : i = m
        OBVIOUS
      <4>. QED
        BY <1>1, <4>1, Zenon
    <3>5. \E j \in DOMAIN body[n].src : body[n].src[j] = Len(args) + (n - 1)
      BY <3>3, <3>4
    <3>. QED
      BY <1>12, <3>2, <3>5
  <2>. QED
    BY <2>1
<1>. QED
  BY <1>11, <1>13

\* The search finds each of these names.
LEMMA NameFound ==
    ASSUME Len(body) = 1, body[1].op \in Binary \cup {"tanh", "dot_general"}, Function
    PROVE  \E i \in DOMAIN SearchOrder : SearchOrder[i] \in ModuleNames
<1>1. 1 \in DOMAIN body
  <2>1. body \in Seq(Op)
    BY DEF Function
  <2>. QED
    BY <2>1
<1>2. body[1].op \in ModuleNames
  BY <1>1 DEF ModuleNames
<1>3. \E i \in DOMAIN SearchOrder : SearchOrder[i] = body[1].op
  <2>1. DOMAIN SearchOrder = 1 .. 7
    BY DEF SearchOrder
  <2>2. /\ SearchOrder[1] = "subtract" /\ SearchOrder[2] = "multiply" /\ SearchOrder[3] = "divide"
        /\ SearchOrder[5] = "tanh" /\ SearchOrder[6] = "add" /\ SearchOrder[7] = "dot_general"
    BY DEF SearchOrder
  <2>3. body[1].op \in {"add", "subtract", "multiply", "divide", "tanh", "dot_general"}
    BY DEF Binary
  <2>. QED
    BY <2>1, <2>2, <2>3
<1>. QED
  BY <1>2, <1>3

LEMMA MayFuseCompiles ==
    ASSUME Function, NEW r \in Defined, AllUsed(r), MayFuse(V, Len(args), body, r), ~ LoneMaximum
    PROVE  Executable(r) # {}
<1>1. PICK g : g = Lowered
  OBVIOUS
<1>2. /\ g \in Tables /\ LoweredTo(g, Len(body)) /\ Fused(g, Len(body))
      /\ ComputedTo(Len(body)) = ComputedIn(V, Len(args), body)
  BY <1>1, MayFuseIs
<1> DEFINE types == {g.ops[i].t : i \in DOMAIN g.ops}
<1>3. ASSUME {"relu", "tanh"} \subseteq types PROVE FALSE
  <2>1. PICK m1 \in DOMAIN g.ops : g.ops[m1].t = "relu"
    BY <1>3
  <2>2. PICK m2 \in DOMAIN g.ops : g.ops[m2].t = "tanh"
    BY <1>3
  <2>3. \E i \in ComputedTo(Len(body)) : body[i].op = "maximum"
    BY <1>2, <2>1, TypeFrom
  <2>4. \E i \in ComputedTo(Len(body)) : body[i].op = "tanh"
    BY <1>2, <2>2, TypeFrom
  <2>5. QED
    BY <1>2, <2>3, <2>4, Zenon DEF MayFuse
<1>4. CASE IsGraph(g, r)
  <2>1. Executable(r) = {[graph |-> TRUE, op |-> "none", ops |-> g.ops, out |-> g.gop[r]]}
    BY <1>1, <1>3, <1>4 DEF Executable
  <2>. QED
    BY <2>1
<1>5. CASE ~ IsGraph(g, r)
  <2>1. ~ IsMixed(V, Len(args), body)
    BY <1>1, <1>5, MayFuseGraph
  <2>2. /\ Len(body) <= 1
        /\ \E i \in DOMAIN SearchOrder : SearchOrder[i] \in ModuleNames
    <3>1. Len(body) = 1 /\ body[1].op \in Binary \cup {"tanh", "dot_general"}
      BY <2>1, PlainAlone
    <3>. QED
      BY <3>1, NameFound
  <2>3. Executable(r) = IF "npu_cached_mm" \in ModuleNames THEN {Single("npu_cached_mm")}
                        ELSE {Single(FirstFound)}
    BY <1>1, <1>5, <2>2 DEF Executable
  <2>. QED
    BY <2>3
<1>. QED
  BY <1>4, <1>5

RefusesNone == pc = "refused" /\ MayFuse(V, Len(args), body, ret) => LoneMaximum

LEMMA RefusesNoneStep == Function /\ RefusesNone /\ [Next]_vars => RefusesNone'
<1> SUFFICES ASSUME Function, RefusesNone, [Next]_vars PROVE RefusesNone'
  OBVIOUS
<1>1. CASE Compile
  <2>1. PICK r \in Defined : /\ AllUsed(r) /\ ret' = r
                             /\ Executable(r) = {} \/ pc' = "ready"
    BY <1>1 DEF Compile
  <2>2. args' = args /\ body' = body
    BY <1>1 DEF Compile
  <2>3. V' = V /\ LoneMaximum' = LoneMaximum
    BY <2>2 DEF V, LoneMaximum
  <2>4. ASSUME MayFuse(V, Len(args), body, r), ~ LoneMaximum PROVE pc' = "ready"
    <3>1. Executable(r) # {}
      BY <2>1, <2>4, MayFuseCompiles
    <3>2. QED
      BY <2>1, <3>1
  <2>5. QED
    BY <2>1, <2>2, <2>3, <2>4 DEF RefusesNone
<1>2. CASE UNCHANGED vars
  <2>1. pc' = pc /\ args' = args /\ body' = body /\ ret' = ret
    BY <1>2 DEF vars
  <2>2. V' = V /\ LoneMaximum' = LoneMaximum
    BY <2>1 DEF V, LoneMaximum
  <2>3. QED
    BY <2>1, <2>2 DEF RefusesNone
<1>3. CASE Trace \/ Execute \/ SubmitFails \/ Drop
  <2>1. pc' # "refused"
    BY <1>3 DEF Trace, Execute, SubmitFails, Drop
  <2>2. QED
    BY <2>1 DEF RefusesNone
<1>4. CASE DeviceOp \/ HostOp \/ SingleOp
  <2>1. DeviceOp => pc = "run" /\ pc' \in {pc, "done"}
    BY DEF DeviceOp
  <2>2. HostOp => pc = "run" /\ pc' \in {pc, "done"}
    <3>1. HostOp => pc = "run" /\ (pc' = "done" \/ UNCHANGED <<pc, out>>)
      BY Zenon DEF HostOp
    <3>2. QED
      BY <3>1
  <2>3. SingleOp => pc = "run" /\ pc' \in {pc, "done"}
    BY DEF SingleOp
  <2>4. QED
    BY <1>4, <2>1, <2>2, <2>3 DEF RefusesNone
<1>5. QED
  BY <1>1, <1>2, <1>3, <1>4 DEF Next

\* FusableAccepted: Compile refuses no function that the graph executors can
\* take, a lone maximum with zero excepted: for every DAG of the operations they
\* have, within their capacities, npu_parse_graph gives up on no operation, and
\* one plain operation is found by its name.
THEOREM FusableCompiles == Spec => []FusableAccepted
<1>1. Init => RefusesNone
  BY DEF Init, RefusesNone
<1>2. RefusesNone => FusableAccepted
  BY FusableIs DEF RefusesNone, FusableAccepted
<1>3. QED
  BY <1>1, <1>2, FunctionInit, FunctionStep, RefusesNoneStep, PTL DEF Spec

==============================================================================
