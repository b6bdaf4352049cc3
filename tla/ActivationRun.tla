----------------------------- MODULE ActivationRun -----------------------------
(***************************************************************************)
(* The element-wise executors of the PJRT plugin on the client's fd: relu  *)
(* (op 4) and tanh (op 5), whose kernel BOs are created at compile time    *)
(* and patched by patch_regcmd_tmpl, and the binary operations (op 0..3),  *)
(* whose kernel BOs live for one call and are patched entry by entry.      *)
(*                                                                         *)
(* A kernel works on one chunk of KELEM = 49152 halfwords; a call runs it  *)
(* once per chunk of its operand.  A chunk is two halves here, so that an  *)
(* operand of three halves ends in the middle of its second chunk.         *)
(***************************************************************************)
EXTENDS ActivationTemplates, FiniteSetsExt

CONSTANTS
    Ops,       \* the operations compiled: relu, tanh, add, sub, ...
    Inputs,    \* operands: [of: name, n: halves]
    MaxCalls,  \* calls that create BOs, all together
    FailAt,    \* how many kernel BOs stay behind when a BO cannot be had
    LeakFrom   \* sizes from which on the IOVAs of a freed BO may not come back

ASSUME BoundAssumption ==
    /\ MaxCalls \in Nat /\ FailAt \subseteq 0 .. 5 /\ LeakFrom \subseteq Nat
    /\ "none" \notin Ops /\ "failed" \notin Ops
    /\ \A x \in Inputs : x.n \in Nat \ {0}

VARIABLES
    exes,    \* executables: the operation and dma_addr of the BOs made for it
    bufs,    \* device buffers: address, halves, content
    leaked,  \* regions that never come back: of BOs nobody frees, and of freed ones
    run,     \* the call in progress, or NoRun
    rc, tk,  \* its regcmd and task BO
    mem,     \* the chunks written to its kernel BOs
    npu,     \* the NPU: next block, blocks left, is the lookup table tanh's?
    answer,  \* what the last call returned
    calls    \* the bound MaxCalls counts them
heap == <<exes, bufs, leaked>>
vars == <<heap, run, rc, tk, mem, npu, answer, calls>>

Counted == calls < MaxCalls /\ calls' = calls + 1

Output == ""   \* what an output holds: no operand of these calls
NoRun == [exe |-> 0]
NoAnswer == [op |-> "none"]
Failed == [op |-> "failed"]
Idle == run = NoRun
HalfBytes == ChunkBytes \div 2
Captured(op) == op \in DOMAIN Activations

(***************************************************************************)
(* IOVAs of the fd: the highest gap below 4 GB that fits (external).       *)
(***************************************************************************)
Region(lo, size) == [lo |-> lo, size |-> size]
Regions(lo, sz) == {Region(lo[i], sz[i]) : i \in DOMAIN lo}
KernelSizes(op) == IF Captured(op) THEN Activations[op].sz ELSE add_sz

Held == (UNION {Regions(exes[e].lo, KernelSizes(exes[e].op)) : e \in DOMAIN exes})
        \cup {Region(bufs[b].lo, bufs[b].n * HalfBytes) : b \in DOMAIN bufs}
        \cup leaked
        \cup IF Idle THEN {} ELSE Regions(run.own, add_sz)

Apart(p, q) == p.lo + p.size <= q.lo \/ q.lo + q.size <= p.lo
Gap(used, size) ==
    Max({a \in {top - size : top \in {0} \cup {q.lo : q \in used}} :
            \A q \in used : Apart(Region(a, size), q)})
\* BOs created one after the other.
Create(used, sz) ==
    LET lo[i \in 0 .. Len(sz)] ==
            IF i = 0 THEN <<>>
            ELSE Append(lo[i - 1],
                        Gap(used \cup Regions(lo[i - 1], sz), sz[i]))
    IN  lo[Len(sz)]

\* BOs freed one by one: "freeing individual BOs" leaks the large IOVAs
\* (pjrt_npu_impl.c:1139, 1512), from a size nobody states.
Freed(gone) == \E large \in LeakFrom : leaked' = leaked \cup {q \in gone : q.size >= large}

(***************************************************************************)
(* Halves of chunks and what the units make of them.                       *)
(***************************************************************************)
Half(f, of, at) == [f |-> f, of |-> of, at |-> at]
Zero == Half("id", <<>>, 0)
Bad == Half("garbage", <<>>, 0)
Filled(h) == <<h, h>>
Apply(f, x) == [i \in 1 .. 2 |-> IF x[i].f = "id" THEN [x[i] EXCEPT !.f = f] ELSE Bad]
Combine(f, x, y) == [i \in 1 .. 2 |->
    IF x[i].f = "id" /\ y[i].f = "id" /\ x[i].at = y[i].at
    THEN Half(f, x[i].of \o y[i].of, x[i].at) ELSE Bad]

Chunks(n) == (n + 1) \div 2
\* Mutant: every chunk is the first one.
FirstChunkOf(b, c) == [i \in 1 .. 2 |-> IF i <= b.n THEN Half("id", <<b.of>>, i) ELSE Zero]

\* The c-th chunk of a buffer, filled up with zeros.
ChunkOf(b, c) == [i \in 1 .. 2 |-> LET at == 2 * (c - 1) + i
                                   IN  IF at <= b.n THEN Half("id", <<b.of>>, at) ELSE Zero]

Overlaps(a, b) == a < b + ChunkBytes /\ b < a + ChunkBytes
Store(m, at, x) == {w \in m : ~Overlaps(w.at, at)} \cup {[at |-> at, x |-> x]}
Inside(a, lo, size) == lo <= a /\ a + ChunkBytes <= lo + size
Scratch == Region(run.lo[SCRATCH], KernelSizes(run.op)[SCRATCH])

\* A read of a chunk: what was written there as a whole, zeros of a scratch
\* nobody wrote, or neither.
Fetch(a) ==
    LET at == {w \in mem : w.at = a}
        near == {w \in mem : Overlaps(w.at, a)}
    IN  CASE at # {} -> (CHOOSE w \in at : TRUE).x
          [] near = {} /\ Inside(a, Scratch.lo, Scratch.size) -> Filled(Zero)
          [] OTHER -> Filled(Bad)

(***************************************************************************)
(* Client calls.                                                           *)
(***************************************************************************)
NewId(m) == Min({i \in 1 .. MaxCalls : i \notin DOMAIN m})
Without(m, i) == [j \in DOMAIN m \ {i} |-> m[j]]

\* An executable of op whose kernel BOs lie at lo.
Compiled(op, lo) == exes' = Over([i \in {NewId(exes)} |-> [op |-> op, lo |-> lo]], exes)

\* Mutant: the kernel BOs are created in reverse order.
CompileInReverse(op) ==
    LET sz == KernelSizes(op)
        n == Len(sz)
        lo == Create(Held, [i \in 1 .. n |-> sz[n + 1 - i]])
    IN  /\ Idle /\ Counted
        /\ Compiled(op, IF Captured(op) THEN [i \in 1 .. n |-> lo[n + 1 - i]] ELSE <<>>)
        /\ answer' = NoAnswer
        /\ UNCHANGED <<bufs, leaked, run, rc, tk, mem, npu>>

Client_Compile(op) ==
    /\ Idle /\ Counted
    /\ Compiled(op, IF Captured(op) THEN Create(Held, KernelSizes(op)) ELSE <<>>)
    /\ answer' = NoAnswer
    /\ UNCHANGED <<bufs, leaked, run, rc, tk, mem, npu>>

LoadedExecutable_Destroy(e) ==
    /\ Idle /\ exes' = Without(exes, e)
    /\ Freed(Regions(exes[e].lo, KernelSizes(exes[e].op)))
    /\ answer' = NoAnswer
    /\ UNCHANGED <<bufs, run, rc, tk, mem, npu, calls>>

NewBuffer(used, n, of) ==
    bufs' = Over([i \in {NewId(bufs)} |-> [lo |-> Gap(used, n * HalfBytes), n |-> n, of |-> of]], bufs)

BufferFromHostBuffer(x) ==
    /\ Idle /\ Counted
    /\ NewBuffer(Held, x.n, x.of)
    /\ answer' = NoAnswer
    /\ UNCHANGED <<exes, leaked, run, rc, tk, mem, npu>>

Buffer_Destroy(b) ==
    /\ Idle /\ bufs' = Without(bufs, b)
    /\ Freed({Region(bufs[b].lo, bufs[b].n * HalfBytes)})
    /\ answer' = NoAnswer
    /\ UNCHANGED <<exes, run, rc, tk, mem, npu, calls>>

(***************************************************************************)
(* A binary operation patches its template entry by entry: PDMA, PCHAIN    *)
(* and SETALU.  No other word moves.                                       *)
(***************************************************************************)
blk_off == <<0, \h280, \h500, \h780>>
IN1_OFF == \h18000
IN2_OFF == 0
RES_OFF == \h30000
In1(lo) == lo[4]
In2(lo) == lo[5]
Result(lo) == lo[6]
PatchAdd(op, lo) ==
    LET rcb == lo[REGCMD] + \hC0
        scr == lo[SCRATCH]
        Entry(i, src, dst) == Over([src |-> src, dst |-> dst],
            IF i < 4 THEN [next |-> rcb + blk_off[i + 1]] ELSE [r \in {} |-> 0])
        patch == <<Entry(1, scr + IN1_OFF, In1(lo)), Entry(2, scr + IN2_OFF, In2(lo)),
                   Over([src2 |-> In2(lo), alu |-> op], Entry(3, In1(lo), scr + RES_OFF)),
                   Entry(4, scr + RES_OFF, Result(lo))>>
    IN  [i \in 1 .. 4 |-> Over(patch[i], g_regcmd_tmpl[i].words)]

\* Mutant: the header of the regcmd BO is forgotten.
TaskAddFromZero(lo) == [t \in 1 .. 12 |-> lo[REGCMD] + blk_off[1 + ((t - 1) % 4)]]

TaskAdd(lo) == [t \in 1 .. 12 |-> lo[REGCMD] + \hC0 + blk_off[1 + ((t - 1) % 4)]]

(***************************************************************************)
(* LoadedExecutable_Execute.                                               *)
(***************************************************************************)
Execute(e, ins) ==
    LET op == exes[e].op
        own == IF Captured(op) THEN <<>> ELSE Create(Held, add_sz)
        n == bufs[ins[1]].n
    IN  /\ Idle /\ Counted
        /\ Len(ins) = IF Captured(op) THEN 1 ELSE 2
        /\ \A i \in DOMAIN ins : bufs[ins[i]].of # Output /\ bufs[ins[i]].n = n
        /\ NewBuffer(Held \cup Regions(own, add_sz), n, Output)
        /\ run' = [exe |-> e, op |-> op, ins |-> ins, own |-> own,
                   lo |-> IF Captured(op) THEN exes[e].lo ELSE own,
                   n |-> n, chunk |-> 1, submit |-> 1, sent |-> FALSE, halves |-> <<>>]
        /\ rc' = IF Captured(op) THEN <<>> ELSE PatchAdd(op, own)
        /\ tk' = IF Captured(op) THEN <<>> ELSE TaskAdd(own)
        /\ mem' = {} /\ answer' = NoAnswer
        /\ UNCHANGED <<exes, leaked, npu>>

\* A kernel BO of a binary operation cannot be had: the k made before it stay.
\* Or the output BO cannot, which frees what the call made.
ExecuteFails(e, k) ==
    LET made == IF Captured(exes[e].op) THEN <<>> ELSE add_sz
        sz == SubSeq(add_sz, 1, k)
    IN  /\ Idle /\ Counted
        /\ answer' = Failed
        /\ \/ made # <<>> /\ leaked' = leaked \cup Regions(Create(Held, sz), sz)
           \/ Freed(Regions(Create(Held, made), made))
        /\ UNCHANGED <<exes, bufs, run, rc, tk, mem, npu>>

Operand(i, c) == ChunkOf(bufs[run.ins[i]], c)

\* What a chunk starts from: the operands, zeroed output, and zeroed scratch
\* (relu zeroes it once a call only).
ChunkSetUp ==
    CASE run.op = "relu" -> Store(Store(mem, run.lo[INPUT], Operand(1, run.chunk)),
                                  run.lo[OUT], Filled(Zero))
      [] run.op = "tanh" -> {[at |-> run.lo[INPUT], x |-> Operand(1, run.chunk)],
                             [at |-> run.lo[OUT], x |-> Filled(Zero)]}
      [] OTHER -> Store(Store(mem, run.lo[SCRATCH] + IN1_OFF, Operand(1, run.chunk)),
                        run.lo[SCRATCH] + IN2_OFF, Operand(2, run.chunk))

Blocks(op, d) == IF Captured(op) THEN Activations[op].regcmd[d] ELSE g_regcmd_tmpl
Submits(op) == IF Captured(op) THEN Activations[op].submits ELSE <<[start |-> 0, count |-> 4]>>
Words(op, d) == [b \in DOMAIN Blocks(op, d) |-> Blocks(op, d)[b].words]

Submit ==
    LET p == Activations[run.op]
        s == Submits(run.op)[run.submit]
    IN  /\ ~Idle /\ ~run.sent
        /\ IF Captured(run.op)
           THEN /\ rc' = patch_regcmd_tmpl(Words(run.op, run.submit), p.cap, run.lo, p.sz)
                /\ tk' = patch_task_tmpl(p.task[run.submit], p.cap, run.lo, p.sz)
           ELSE UNCHANGED <<rc, tk>>
        /\ mem' = IF run.submit = 1 THEN ChunkSetUp ELSE mem
        /\ npu' = [npu EXCEPT !.at = tk'[s.start + 1], !.left = s.count]
        /\ run' = [run EXCEPT !.sent = TRUE]
        /\ UNCHANGED <<heap, answer, calls>>

(***************************************************************************)
(* The NPU (external).                                                     *)
(***************************************************************************)
Running == ~Idle /\ run.sent /\ npu.left > 0
Current == CHOOSE b \in DOMAIN rc : run.lo[REGCMD] + Blocks(run.op, run.submit)[b].at = npu.at
Kind == Blocks(run.op, run.submit)[Current].kind
Drifts(f) == "notch" \in DOMAIN f /\ f.notch + (f.rows - 1) * f.line # 0
TanhTable(f) == \A r \in {"lut1", "lut2", "lut3"} : f[r] = tanh_table.words[r]

Made(f) ==
    LET x == Fetch(f.src)
    IN  CASE Kind = "reader" -> IF Drifts(f) THEN Filled(Bad) ELSE x
          [] Kind = "relu" -> Apply("relu", x)
          [] Kind = "lookup" -> IF npu.table /\ f.bias = tanh_lookup.words.bias
                                THEN Apply("tanh", x) ELSE Filled(Bad)
          [] Kind = "alu" -> Combine(f.alu, x, Fetch(f.src2))
          [] Kind = "writer" -> x

NpuBlock ==
    LET f == rc[Current]
    IN  /\ Running
        /\ npu' = [at |-> IF "next" \in DOMAIN f THEN f.next ELSE 0,
                   left |-> npu.left - 1,
                   table |-> IF Kind = "table" THEN TanhTable(f) ELSE npu.table]
        /\ mem' = IF Kind = "table" THEN mem ELSE Store(mem, f.dst, Made(f))
        /\ UNCHANGED <<heap, run, rc, tk, answer, calls>>

\* The right answer depends on the addresses of a captured program only as far
\* as it holds words that look like addresses: the notch of relu's reader looks
\* like scratch, tanh's table like its task table, commands and scratch.
InPlace(op, lo) ==
    LET At(r) == lo[r] = Activations[op].cap[r]
    IN  CASE op = "relu" -> At(SCRATCH)
          [] op = "tanh" -> At(TASK) /\ At(REGCMD) /\ At(SCRATCH)
          [] OTHER -> TRUE

Finish(result) == run' = NoRun /\ rc' = <<>> /\ tk' = <<>> /\ mem' = {} /\ answer' = result

\* A submit returned 0: the next one, the next chunk, or the answer.
SubmitReturns ==
    LET result == Fetch(run.lo[IF Captured(run.op) THEN OUT ELSE 6])
        valid == Min({2, run.n - 2 * (run.chunk - 1)})
        halves == run.halves \o SubSeq(result, 1, valid)
    IN  /\ ~Idle /\ run.sent /\ npu.left = 0
        /\ CASE run.submit < Len(Submits(run.op)) ->
                  /\ run' = [run EXCEPT !.submit = @ + 1, !.sent = FALSE]
                  /\ UNCHANGED <<leaked, rc, tk, mem, answer>>
             [] run.submit = Len(Submits(run.op)) /\ run.chunk < Chunks(run.n) ->
                  /\ run' = [run EXCEPT !.submit = 1, !.sent = FALSE, !.chunk = @ + 1,
                                        !.halves = halves]
                  /\ UNCHANGED <<leaked, rc, tk, mem, answer>>
             [] OTHER ->
                  /\ Finish([op |-> run.op, halves |-> halves, n |-> run.n,
                             of |-> [i \in DOMAIN run.ins |-> bufs[run.ins[i]].of],
                             placed |-> InPlace(run.op, run.lo)])
                  /\ Freed(Regions(run.own, add_sz))
        /\ UNCHANGED <<exes, bufs, npu, calls>>

\* A submit failed: the call frees its kernel BOs and returns an error; its output
\* buffer stays.
SubmitFails ==
    /\ Running
    /\ Finish(Failed) /\ npu' = [npu EXCEPT !.at = 0, !.left = 0]
    /\ Freed(Regions(run.own, add_sz))
    /\ UNCHANGED <<exes, bufs, calls>>

Init == /\ exes = <<>> /\ bufs = <<>> /\ leaked = {} /\ run = NoRun
        /\ rc = <<>> /\ tk = <<>> /\ mem = {} /\ answer = NoAnswer /\ calls = 0
        /\ npu = [at |-> 0, left |-> 0, table |-> FALSE]

Next == \/ \E op \in Ops : Client_Compile(op)
        \/ \E e \in DOMAIN exes : LoadedExecutable_Destroy(e)
        \/ \E x \in Inputs : BufferFromHostBuffer(x)
        \/ \E b \in DOMAIN bufs : Buffer_Destroy(b)
        \/ \E e \in DOMAIN exes, b \in DOMAIN bufs : Execute(e, <<b>>)
        \/ \E e \in DOMAIN exes, b, c \in DOMAIN bufs : Execute(e, <<b, c>>)
        \/ \E e \in DOMAIN exes, k \in FailAt : ExecuteFails(e, k)
        \/ Submit \/ NpuBlock \/ SubmitReturns \/ SubmitFails

Spec == Init /\ [][Next]_vars

(***************************************************************************)
(* Properties.                                                             *)
(***************************************************************************)
Patched == ~Idle /\ rc # <<>>

\* Type invariant: ids in range; a call in progress belongs to a live executable
\* and live operands, its task table names blocks that exist, and the NPU is
\* at one of them as long as blocks are left.
TypeOK ==
    /\ DOMAIN exes \subseteq 1 .. calls /\ DOMAIN bufs \subseteq 1 .. calls
    /\ \A e \in DOMAIN exes : exes[e].op \in Ops
    /\ ~Idle => /\ run.exe \in DOMAIN exes /\ run.op = exes[run.exe].op
                /\ \A i \in DOMAIN run.ins : run.ins[i] \in DOMAIN bufs
                /\ run.chunk \in 1 .. Chunks(run.n)
    /\ Patched => LET heads == {run.lo[REGCMD] + Blocks(run.op, run.submit)[b].at :
                                    b \in DOMAIN rc}
                  IN  /\ \A t \in DOMAIN tk : tk[t] \in heads
                      /\ Running => npu.at \in heads
    /\ answer.op \in Ops \cup {"none", "failed"}

\* A call answers its operation applied to its own operands, half by half, the
\* last partial chunk included and nothing beyond it, whatever an earlier chunk,
\* call or operation left in the kernel BOs or in the lookup table.  For relu
\* and tanh when their program lies where it was captured (pjrt_npu_impl.c:1008,
\* "IOVA-position-sensitive"); a binary operation wherever its BOs lie.
ResultRight ==
    answer.op \in Ops /\ answer.placed =>
        answer.halves = [i \in 1 .. answer.n |-> Half(answer.op, answer.of, i)]

\* No block of a running kernel writes outside the BOs made for it, wherever they
\* lie: not a device buffer, not the BOs of another executable.  The upload of
\* the lookup table writes no memory.
WritesOwnBOs ==
    Running =>
        \/ Kind = "table"
        \/ \E r \in DOMAIN run.lo : Inside(rc[Current].dst, run.lo[r], KernelSizes(run.op)[r])

\* "Pre-allocate the activation kernel BOs NOW ... so they are the FIRST
\* allocation" (pjrt_npu_impl.c:1006): an executable compiled while no IOVA of the
\* fd is taken, by a BO or by one that leaked, lies where its program was captured.
CompileFirstInPlace ==
    [][Held = {} => \A e \in DOMAIN exes' \ DOMAIN exes :
            Captured(exes'[e].op) => InPlace(exes'[e].op, exes'[e].lo)]_vars
==============================================================================
