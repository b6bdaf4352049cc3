------------------------- MODULE ActivationRunProofs -------------------------
(***************************************************************************)
(* Theorems about ActivationRun: the single element-wise and activation    *)
(* paths of the plugin, down to the blocks the NPU runs, for any inputs,   *)
(* any number of calls and any submits that fail.                          *)
(*                                                                         *)
(* The invariant relates four things: where the kernel BOs lie (HeapInv),  *)
(* the call that runs (CallInv), the commands and the task table it has    *)
(* loaded (PatchInv, NpuInv), and which chunk lies where after each block  *)
(* (DataInv, by way of Stage).  The first part of the module works out     *)
(* what the patched commands of add, relu and tanh make each block do, for *)
(* every place the kernel BOs can lie at.                                  *)
(***************************************************************************)
EXTENDS ActivationRun, FiniteSetTheorems, SequenceTheorems, WellFoundedInduction, TLAPS

(***************************************************************************)
(* The program of an operation: its commands and task table are the same   *)
(* for each of its submits.                                                *)
(***************************************************************************)
Prog(op) == IF Captured(op) THEN Activations[op].regcmd[1] ELSE g_regcmd_tmpl
Commands(op, lo) ==
    IF Captured(op)
    THEN patch_regcmd_tmpl([b \in DOMAIN Prog(op) |-> Prog(op)[b].words],
                           Activations[op].cap, lo, Activations[op].sz)
    ELSE PatchAdd(op, lo)
Table(op, lo) ==
    IF Captured(op) THEN patch_task_tmpl(Activations[op].task[1], Activations[op].cap, lo, Activations[op].sz)
    ELSE TaskAdd(lo)

\* What the blocks of a call do, one after the other: with BOs at lo.
Column(lo) == lo[SCRATCH] + \h30000
Does(kind, src, dst) == [kind |-> kind, src |-> src, dst |-> dst]
\* How many blocks a chunk takes.
BlockCount(op) == IF op = "relu" THEN 3 ELSE 4
Steps(op, lo) ==
    CASE op = "relu" -> <<Does("reader", lo[INPUT], Column(lo)), Does("relu", Column(lo), Column(lo)),
                          Does("writer", Column(lo), lo[OUT])>>
      [] op = "tanh" -> <<Does("reader", lo[INPUT], Column(lo)),
                          Does("table", lo[REGCMD] + \h2300, lo[REGCMD] + \h2300),
                          Does("lookup", Column(lo), lo[SCRATCH]), Does("writer", lo[SCRATCH], lo[OUT])>>
      [] OTHER -> <<Does("reader", lo[SCRATCH] + IN1_OFF, In1(lo)),
                    Does("reader", lo[SCRATCH] + IN2_OFF, In2(lo)),
                    Does("alu", In1(lo), lo[SCRATCH] + RES_OFF),
                    Does("writer", lo[SCRATCH] + RES_OFF, Result(lo))>>

(***************************************************************************)
(* The invariant.                                                          *)
(***************************************************************************)

\* The kernel BOs of an operation, apart.
Places(op) == IF Captured(op) THEN 5 ELSE 6
Laid(op, lo) == lo \in [1 .. Places(op) -> Int] /\ Disjoint(lo, KernelSizes(op))

\* Regions below 4 GB, and not without end.
Roomy(used) == /\ \A q \in used : q.lo \in Int /\ q.size \in Nat /\ q.lo <= 0
               /\ \E low \in Int : \A q \in used : low <= q.lo

HeapInv ==
    /\ calls \in 0 .. MaxCalls
    /\ DOMAIN exes \subseteq 1 .. calls /\ DOMAIN bufs \subseteq 1 .. calls
    /\ \A e \in DOMAIN exes : /\ exes[e].op \in Ops
                              /\ IF Captured(exes[e].op) THEN Laid(exes[e].op, exes[e].lo)
                                                         ELSE exes[e].lo = <<>>
    /\ \A b \in DOMAIN bufs : bufs[b].n \in Nat \ {0}
    /\ Roomy(Held)

\* The call in progress.
CallInv ==
    ~Idle =>
        /\ run = [exe |-> run.exe, op |-> run.op, ins |-> run.ins, own |-> run.own, lo |-> run.lo,
                  n |-> run.n, chunk |-> run.chunk, submit |-> run.submit, sent |-> run.sent,
                  halves |-> run.halves]
        /\ run.exe \in DOMAIN exes /\ run.op = exes[run.exe].op /\ Laid(run.op, run.lo)
        /\ run.ins \in [1 .. IF Captured(run.op) THEN 1 ELSE 2 -> DOMAIN bufs]
        /\ \A i \in DOMAIN run.ins : bufs[run.ins[i]].n = run.n
        /\ run.n \in Nat \ {0} /\ run.chunk \in 1 .. Chunks(run.n)
        /\ run.submit \in 1 .. Len(Submits(run.op)) /\ run.sent \in BOOLEAN

\* Its commands and its task table, from the first submit on.
Loaded == rc = Commands(run.op, run.lo) /\ tk = Table(run.op, run.lo)
PatchInv ==
    IF Idle THEN rc = <<>> ELSE
        \/ Loaded
        \/ rc = <<>> /\ Captured(run.op) /\ ~run.sent /\ run.submit = 1

\* How many blocks of the chunk have run, and the block the NPU is at.
Done == LET s == Submits(run.op)[run.submit]
        IN  s.start + IF run.sent THEN s.count - npu.left ELSE 0
NpuInv ==
    ~Idle /\ run.sent =>
        /\ Loaded /\ npu.left \in 0 .. Submits(run.op)[run.submit].count
        /\ npu.left > 0 => npu.at = run.lo[REGCMD] + Prog(run.op)[Done + 1].at

\* The chunk at a, as a whole.
Holds(m, a, x) == (\E w \in m : w.at = a) /\ \A w \in m : w.at = a => w.x = x

\* The kernel BOs after j blocks, with the chunks x and y.
Stage(op, lo, m, table, j, x, y) ==
    LET z == IF Captured(op) THEN Apply(op, x) ELSE Combine(op, x, y)
    IN  IF j = BlockCount(op) THEN Holds(m, Steps(op, lo)[j].dst, z)
        ELSE CASE op = "relu" -> Holds(m, Steps(op, lo)[j + 1].src, IF j < 2 THEN x ELSE z)
               [] op = "tanh" -> IF j = 1 THEN Holds(m, Column(lo), x)
                                 ELSE /\ Holds(m, Steps(op, lo)[j + 1].src, IF j < 3 THEN x ELSE z)
                                      /\ j = 2 => table
               [] OTHER -> CASE j = 0 -> Holds(m, lo[SCRATCH] + IN1_OFF, x) /\ Holds(m, lo[SCRATCH] + IN2_OFF, y)
                             [] j = 1 -> Holds(m, In1(lo), x) /\ Holds(m, lo[SCRATCH] + IN2_OFF, y)
                             [] j = 2 -> Holds(m, In1(lo), x) /\ Holds(m, In2(lo), y)
                             [] OTHER -> Holds(m, lo[SCRATCH] + RES_OFF, z)

\* What the call has read back, and what the kernel BOs hold of this chunk.
Names(ins) == [i \in DOMAIN ins |-> bufs[ins[i]].of]
Second == IF Captured(run.op) THEN <<>> ELSE Operand(2, run.chunk)
DataInv ==
    ~Idle /\ InPlace(run.op, run.lo) =>
        /\ run.halves = [i \in 1 .. 2 * (run.chunk - 1) |-> Half(run.op, Names(run.ins), i)]
        /\ run.sent \/ run.submit > 1 =>
               Stage(run.op, run.lo, mem, npu.table, Done, Operand(1, run.chunk), Second)

AnswerInv == answer.op \in Ops \cup {"none", "failed"} /\ ResultRight

NpuShape == npu = [at |-> npu.at, left |-> npu.left, table |-> npu.table]
Inv == HeapInv /\ CallInv /\ PatchInv /\ NpuInv /\ DataInv /\ AnswerInv /\ NpuShape

(***************************************************************************)
(* The patchers, and the words of the captured programs.                   *)
(***************************************************************************)

\* A word of the capture that lies in the window of the role r goes with it.
LEMMA RepointIn ==
    ASSUME NEW a \in Int, NEW cap, NEW sz, NEW my, NEW r \in DOMAIN cap,
           \A q \in DOMAIN cap : q \in Int /\ cap[q] \in Int /\ sz[q] \in Int,
           Disjoint(cap, sz), Within(a, cap[r], sz[r])
    PROVE  Repoint(a, cap, my, sz) = my[r] + (a - cap[r])
<1>1. ASSUME NEW q \in DOMAIN cap, q # r PROVE ~Within(a, cap[q], sz[q])
  <2>1. cap[q] + sz[q] <= cap[r] \/ cap[r] + sz[r] <= cap[q]
    BY <1>1 DEF Disjoint
  <2>2. QED
    BY <2>1 DEF Within
<1>2. Windows(a, cap, sz) = {r}
  BY <1>1 DEF Windows
<1>3. FirstWindow(a, cap, sz) = r
  <2>1. r <= r
    OBVIOUS
  <2>2. QED
    BY <1>2, <2>1 DEF FirstWindow
<1>4. QED
  BY <1>2, <1>3 DEF Repoint

LEMMA RepointOut ==
    ASSUME NEW a, NEW cap, NEW sz, NEW my, \A q \in DOMAIN cap : ~Within(a, cap[q], sz[q])
    PROVE  Repoint(a, cap, my, sz) = a
<1>1. Windows(a, cap, sz) = {}
  BY DEF Windows
<1>2. QED
  BY <1>1 DEF Repoint

LEMMA RoleNumbers ==
    TASK = 1 /\ REGCMD = 2 /\ SCRATCH = 3 /\ INPUT = 4 /\ OUT = 5
  BY DEF TASK, REGCMD, SCRATCH, INPUT, OUT

LEMMA CapturedAre == DOMAIN Activations = {"relu", "tanh"} /\ \A op : Captured(op) <=> op \in {"relu", "tanh"}
  BY DEF Captured, Activations

LEMMA ReluPlaces ==
    /\ Activations["relu"].cap = <<-4096, -12288, -307200, -405504, -503808>>
    /\ Activations["relu"].sz = <<4096, 8192, 294912, 98304, 98304>>
    /\ Activations["relu"].submits = <<[start |-> 0, count |-> 3]>>
    /\ Activations["relu"].regcmd = <<g_relu_regcmd>> /\ Activations["relu"].task = <<g_relu_task>>
  BY DEF Activations, Program, relu_cap, relu_sz, relu_submits, ChunkBytes

LEMMA TanhPlaces ==
    /\ Activations["tanh"].cap = <<-4096, -24576, -417792, -516096, -614400>>
    /\ Activations["tanh"].sz = <<4096, 20480, 393216, 98304, 98304>>
    /\ Activations["tanh"].submits = <<[start |-> 0, count |-> 1], [start |-> 1, count |-> 2],
                                       [start |-> 3, count |-> 1]>>
    /\ Activations["tanh"].regcmd = <<g_tanh_regcmd0, g_tanh_regcmd1, g_tanh_regcmd2>>
    /\ Activations["tanh"].task = <<g_tanh_task0, g_tanh_task1, g_tanh_task2>>
  BY DEF Activations, Program, tanh_cap, tanh_sz, tanh_submits, ChunkBytes

LEMMA CaptureIs ==
    ASSUME NEW op, Captured(op), NEW cap, cap = Activations[op].cap, NEW sz, sz = Activations[op].sz
    PROVE  /\ cap \in [1 .. 5 -> Int] /\ sz \in [1 .. 5 -> Nat \ {0}] /\ Disjoint(cap, sz)
           /\ sz = KernelSizes(op)
<1>0. sz = KernelSizes(op)
  BY DEF KernelSizes
<1>1. CASE op = "relu"
  <2>1. cap = <<-4096, -12288, -307200, -405504, -503808>> /\ sz = <<4096, 8192, 294912, 98304, 98304>>
    BY <1>1, ReluPlaces
  <2>2. cap \in [1 .. 5 -> Int] /\ sz \in [1 .. 5 -> Nat \ {0}]
    BY <2>1
  <2>3. Disjoint(cap, sz)
    BY <2>1 DEF Disjoint
  <2>4. QED
    BY <1>0, <2>2, <2>3
<1>2. CASE op = "tanh"
  <2>1. cap = <<-4096, -24576, -417792, -516096, -614400>> /\ sz = <<4096, 20480, 393216, 98304, 98304>>
    BY <1>2, TanhPlaces
  <2>2. cap \in [1 .. 5 -> Int] /\ sz \in [1 .. 5 -> Nat \ {0}]
    BY <2>1
  <2>3. Disjoint(cap, sz)
    BY <2>1 DEF Disjoint
  <2>4. QED
    BY <1>0, <2>2, <2>3
<1>3. QED
  BY <1>1, <1>2, CapturedAre

LEMMA BinarySizes == ASSUME NEW op, ~Captured(op)
                     PROVE  /\ KernelSizes(op) = <<4096, 8192, 393216, 98304, 98304, 98304>>
                            /\ add_sz = <<4096, 8192, 393216, 98304, 98304, 98304>>
  BY DEF KernelSizes, add_sz, ChunkBytes

LEMMA SizesAre ==
    ASSUME NEW op
    PROVE  KernelSizes(op) \in [1 .. Places(op) -> Nat \ {0}] /\ Places(op) \in {5, 6}
<1>1. CASE Captured(op)
  BY <1>1, CaptureIs DEF Places
<1>2. CASE ~Captured(op)
  BY <1>2, BinarySizes DEF Places
<1>3. QED
  BY <1>1, <1>2

(****************************************************************************)
(* The commands of each operation, block by block.                           *)
(****************************************************************************)

\* The commands of a captured program, word by word.
LEMMA MovedWord ==
    ASSUME NEW op, Captured(op), NEW lo, Laid(op, lo), NEW b \in DOMAIN Prog(op),
           NEW r \in DOMAIN Prog(op)[b].words, NEW a \in Int, a = Prog(op)[b].words[r],
           NEW cap, cap = Activations[op].cap, NEW sz, sz = Activations[op].sz,
           NEW f, f = Commands(op, lo)[b]
    PROVE  /\ r \in DOMAIN f
           /\ r = "next" /\ Within(a, cap[2], sz[2]) => f[r] = lo[2] + (a - cap[2])
           /\ r # "next" => \A q \in 1 .. 5 : Within(a, cap[q], sz[q]) => f[r] = lo[q] + (a - cap[q])
           /\ r # "next" /\ (\A q \in 1 .. 5 : ~Within(a, cap[q], sz[q])) => f[r] = a
<1>1. f = PatchBlock(Prog(op)[b].words, cap, lo, sz)
  BY DEF Commands, patch_regcmd_tmpl
<1>2. DOMAIN f = DOMAIN Prog(op)[b].words
      /\ f[r] = IF r = "next" THEN Rechain(a, cap, lo, sz) ELSE Repoint(a, cap, lo, sz)
  BY <1>1 DEF PatchBlock
<1>3. cap \in [1 .. 5 -> Int] /\ sz \in [1 .. 5 -> Nat \ {0}] /\ Disjoint(cap, sz)
  BY CaptureIs
<1>4. r = "next" /\ Within(a, cap[2], sz[2]) => f[r] = lo[2] + (a - cap[2])
  BY <1>2, RoleNumbers DEF Rechain
<1>5. ASSUME r # "next", NEW q \in 1 .. 5, Within(a, cap[q], sz[q]) PROVE f[r] = lo[q] + (a - cap[q])
  <2>1. q \in DOMAIN cap /\ \A z \in DOMAIN cap : z \in Int /\ cap[z] \in Int /\ sz[z] \in Int
    BY <1>3
  <2>2. QED
    BY <1>2, <1>3, <1>5, <2>1, RepointIn
<1>6. r # "next" /\ (\A q \in 1 .. 5 : ~Within(a, cap[q], sz[q])) => f[r] = a
  BY <1>2, <1>3, RepointOut
<1>7. QED
  BY <1>2, <1>4, <1>5, <1>6

\* What the b-th block of a call does, with the words f and BOs at lo.
Runs(op, lo, f, kind, s) ==
    /\ kind = s.kind /\ f.src = s.src /\ f.dst = s.dst
    /\ kind = "reader" /\ InPlace(op, lo) => ~Drifts(f)
    /\ kind = "table" /\ InPlace(op, lo) => TanhTable(f)
    /\ kind = "lookup" /\ InPlace(op, lo) => f.bias = tanh_lookup.words.bias
    /\ kind = "alu" => f.alu = op /\ f.src2 = In2(lo)
Leads(f, to) == "next" \in DOMAIN f /\ f.next = to
BlockDoes(op, lo, b) ==
    /\ b \in DOMAIN Commands(op, lo) /\ b \in DOMAIN Prog(op)
    /\ Runs(op, lo, Commands(op, lo)[b], Prog(op)[b].kind, Steps(op, lo)[b])
    /\ b < BlockCount(op) => Leads(Commands(op, lo)[b], lo[REGCMD] + Prog(op)[b + 1].at)

LEMMA ReluProg ==
    LET p == g_relu_regcmd
    IN  /\ DOMAIN p = 1 .. 8
        /\ p[1].at = 128 /\ p[2].at = 768 /\ p[3].at = 1408 /\ p[4].at = 2048
        /\ p[5].at = 2688 /\ p[6].at = 3328 /\ p[7].at = 3968 /\ p[8].at = 4608
        /\ p[1].kind = "reader" /\ p[2].kind = "relu" /\ p[3].kind = "writer"
        /\ DOMAIN p[1].words = {"src", "dst", "rows", "line", "notch", "next"}
        /\ p[1].words["src"] = -405504 /\ p[1].words["dst"] = -110592 /\ p[1].words["rows"] = 64
        /\ p[1].words["line"] = 1536 /\ p[1].words["notch"] = -96768 /\ p[1].words["next"] = -11520
        /\ DOMAIN p[2].words = {"src", "dst", "next"}
        /\ p[2].words["src"] = -110592 /\ p[2].words["dst"] = -110592 /\ p[2].words["next"] = -10880
        /\ DOMAIN p[3].words = {"src", "dst"}
        /\ p[3].words["src"] = -110592 /\ p[3].words["dst"] = -503808
<1> DEFINE c == relu_cap
<1>1. c = <<-4096, -12288, -307200, -405504, -503808>>
  BY DEF relu_cap
<1>2. c[REGCMD] = -12288 /\ c[SCRATCH] = -307200 /\ c[INPUT] = -405504 /\ c[OUT] = -503808
  BY <1>1, RoleNumbers
<1> HIDE DEF c
<1>3. QED
  BY <1>2 DEF g_relu_regcmd, g_relu_chain, g_relu_split, With, Copy, Block, Over, c

LEMMA TanhProg ==
    LET p == g_tanh_regcmd0
    IN  /\ DOMAIN p = 1 .. 4 /\ g_tanh_regcmd1 = p /\ g_tanh_regcmd2 = p
        /\ p[1].at = 8960 /\ p[2].at = 9600 /\ p[3].at = 18432 /\ p[4].at = 19072
        /\ p[1].kind = "reader" /\ p[2].kind = "table" /\ p[3].kind = "lookup" /\ p[4].kind = "writer"
        /\ DOMAIN p[1].words = {"src", "dst", "next"}
        /\ p[1].words["src"] = -516096 /\ p[1].words["dst"] = -221184 /\ p[1].words["next"] = -14976
        /\ p[2].words = tanh_table.words
        /\ DOMAIN p[2].words = {"src", "dst", "next", "lut1", "lut2", "lut3"}
        /\ p[2].words["src"] = -15616 /\ p[2].words["dst"] = -15616 /\ p[2].words["next"] = -6144
        /\ p[2].words["lut1"] = -32611 /\ p[2].words["lut2"] = -24494 /\ p[2].words["lut3"] = -4038
        /\ p[3].words = tanh_lookup.words
        /\ DOMAIN p[3].words = {"src", "dst", "next", "bias"}
        /\ p[3].words["src"] = -221184 /\ p[3].words["dst"] = -417792 /\ p[3].words["next"] = -5504
        /\ p[3].words["bias"] = -16384
        /\ DOMAIN p[4].words = {"src", "dst"}
        /\ p[4].words["src"] = -417792 /\ p[4].words["dst"] = -614400
<1> DEFINE c == tanh_cap
<1>1. c = <<-4096, -24576, -417792, -516096, -614400>>
  BY DEF tanh_cap
<1>2. c[REGCMD] = -24576 /\ c[SCRATCH] = -417792 /\ c[INPUT] = -516096 /\ c[OUT] = -614400
  BY <1>1, RoleNumbers
<1> HIDE DEF c
<1>3. QED
  BY <1>2 DEF g_tanh_regcmd0, g_tanh_regcmd1, g_tanh_regcmd2, tanh_reader, tanh_table, tanh_lookup,
              tanh_writer, With, Copy, Block, Over, c

\* The same with the numbers of relu and of tanh.
ReluMoved(f, r, a, lo) ==
    /\ r \in DOMAIN f
    /\ r = "next" /\ -12288 <= a /\ a < -4096 => f[r] = lo[2] + (a + 12288)
    /\ r # "next" => /\ -307200 <= a /\ a < -12288 => f[r] = lo[3] + (a + 307200)
                     /\ -405504 <= a /\ a < -307200 => f[r] = lo[4] + (a + 405504)
                     /\ -503808 <= a /\ a < -405504 => f[r] = lo[5] + (a + 503808)
                     /\ a >= 0 => f[r] = a
TanhMoved(f, r, a, lo) ==
    /\ r \in DOMAIN f
    /\ r = "next" /\ -24576 <= a /\ a < -4096 => f[r] = lo[2] + (a + 24576)
    /\ r # "next" => /\ -4096 <= a /\ a < 0 => f[r] = lo[1] + (a + 4096)
                     /\ -24576 <= a /\ a < -4096 => f[r] = lo[2] + (a + 24576)
                     /\ -417792 <= a /\ a < -24576 => f[r] = lo[3] + (a + 417792)
                     /\ -516096 <= a /\ a < -417792 => f[r] = lo[4] + (a + 516096)
                     /\ -614400 <= a /\ a < -516096 => f[r] = lo[5] + (a + 614400)

LEMMA ReluMoves ==
    ASSUME NEW lo, Laid("relu", lo), NEW b \in 1 .. 8, NEW r \in DOMAIN g_relu_regcmd[b].words,
           g_relu_regcmd[b].words[r] \in Int
    PROVE  ReluMoved(Commands("relu", lo)[b], r, g_relu_regcmd[b].words[r], lo)
<1>1. PICK a \in Int : a = g_relu_regcmd[b].words[r]
  OBVIOUS
<1>2. PICK f : f = Commands("relu", lo)[b]
  OBVIOUS
<1>3. Captured("relu") /\ Prog("relu") = g_relu_regcmd
  BY CapturedAre, ReluPlaces DEF Prog
<1>4. b \in DOMAIN Prog("relu") /\ r \in DOMAIN Prog("relu")[b].words /\ a = Prog("relu")[b].words[r]
  BY <1>1, <1>3, ReluProg
<1>5. PICK cap, sz : cap = Activations["relu"].cap /\ sz = Activations["relu"].sz
  OBVIOUS
<1>6. /\ r \in DOMAIN f
      /\ r = "next" /\ Within(a, cap[2], sz[2]) => f[r] = lo[2] + (a - cap[2])
      /\ r # "next" => \A q \in 1 .. 5 : Within(a, cap[q], sz[q]) => f[r] = lo[q] + (a - cap[q])
      /\ r # "next" /\ (\A q \in 1 .. 5 : ~Within(a, cap[q], sz[q])) => f[r] = a
  BY <1>2, <1>3, <1>4, <1>5, MovedWord
<1>7. cap = <<-4096, -12288, -307200, -405504, -503808>> /\ sz = <<4096, 8192, 294912, 98304, 98304>>
  BY <1>5, ReluPlaces
<1>8. r = "next" /\ -12288 <= a /\ a < -4096 => f[r] = lo[2] + (a + 12288)
  BY <1>6, <1>7 DEF Within
<1>9. r # "next" /\ -307200 <= a /\ a < -12288 => f[r] = lo[3] + (a + 307200)
  BY <1>6, <1>7 DEF Within
<1>10. r # "next" /\ -405504 <= a /\ a < -307200 => f[r] = lo[4] + (a + 405504)
  BY <1>6, <1>7 DEF Within
<1>11. r # "next" /\ -503808 <= a /\ a < -405504 => f[r] = lo[5] + (a + 503808)
  BY <1>6, <1>7 DEF Within
<1>12. r # "next" /\ a >= 0 => f[r] = a
  <2> SUFFICES ASSUME r # "next", a >= 0 PROVE f[r] = a
    OBVIOUS
  <2>1. \A q \in 1 .. 5 : ~Within(a, cap[q], sz[q])
    BY <1>7 DEF Within
  <2>2. QED
    BY <1>6, <2>1
<1>13. QED
  BY <1>1, <1>2, <1>6, <1>8, <1>9, <1>10, <1>11, <1>12 DEF ReluMoved

LEMMA TanhMoves ==
    ASSUME NEW lo, Laid("tanh", lo), NEW b \in 1 .. 4, NEW r \in DOMAIN g_tanh_regcmd0[b].words,
           g_tanh_regcmd0[b].words[r] \in Int
    PROVE  TanhMoved(Commands("tanh", lo)[b], r, g_tanh_regcmd0[b].words[r], lo)
<1>1. PICK a \in Int : a = g_tanh_regcmd0[b].words[r]
  OBVIOUS
<1>2. PICK f : f = Commands("tanh", lo)[b]
  OBVIOUS
<1>3. Captured("tanh") /\ Prog("tanh") = g_tanh_regcmd0
  BY CapturedAre, TanhPlaces DEF Prog
<1>4. b \in DOMAIN Prog("tanh") /\ r \in DOMAIN Prog("tanh")[b].words /\ a = Prog("tanh")[b].words[r]
  BY <1>1, <1>3, TanhProg
<1>5. PICK cap, sz : cap = Activations["tanh"].cap /\ sz = Activations["tanh"].sz
  OBVIOUS
<1>6. /\ r \in DOMAIN f
      /\ r = "next" /\ Within(a, cap[2], sz[2]) => f[r] = lo[2] + (a - cap[2])
      /\ r # "next" => \A q \in 1 .. 5 : Within(a, cap[q], sz[q]) => f[r] = lo[q] + (a - cap[q])
  BY <1>2, <1>3, <1>4, <1>5, MovedWord
<1>7. cap = <<-4096, -24576, -417792, -516096, -614400>> /\ sz = <<4096, 20480, 393216, 98304, 98304>>
  BY <1>5, TanhPlaces
<1>8. r = "next" /\ -24576 <= a /\ a < -4096 => f[r] = lo[2] + (a + 24576)
  BY <1>6, <1>7 DEF Within
<1>9. /\ r # "next" /\ -4096 <= a /\ a < 0 => f[r] = lo[1] + (a + 4096)
      /\ r # "next" /\ -24576 <= a /\ a < -4096 => f[r] = lo[2] + (a + 24576)
  BY <1>6, <1>7 DEF Within
<1>10. /\ r # "next" /\ -417792 <= a /\ a < -24576 => f[r] = lo[3] + (a + 417792)
       /\ r # "next" /\ -516096 <= a /\ a < -417792 => f[r] = lo[4] + (a + 516096)
  BY <1>6, <1>7 DEF Within
<1>11. r # "next" /\ -614400 <= a /\ a < -516096 => f[r] = lo[5] + (a + 614400)
  BY <1>6, <1>7 DEF Within
<1>12. QED
  BY <1>1, <1>2, <1>6, <1>8, <1>9, <1>10, <1>11 DEF TanhMoved

LEMMA ReluDoes ==
    ASSUME NEW lo, Laid("relu", lo), NEW b \in 1 .. 3
    PROVE  BlockDoes("relu", lo, b)
<1>1. lo \in [1 .. 5 -> Int] /\ Prog("relu") = g_relu_regcmd /\ Captured("relu") /\ DOMAIN Commands("relu", lo) = 1 .. 8
  <2>1. Captured("relu") /\ Prog("relu") = g_relu_regcmd
    BY CapturedAre, ReluPlaces DEF Prog
  <2>2. DOMAIN Commands("relu", lo) = DOMAIN g_relu_regcmd
    BY <2>1 DEF Commands, patch_regcmd_tmpl
  <2>3. QED
    BY <2>1, <2>2, ReluProg DEF Laid, Places
<1>0. BlockCount("relu") = 3
  BY DEF BlockCount
<1>2. Steps("relu", lo) = <<Does("reader", lo[4], lo[3] + 196608), Does("relu", lo[3] + 196608, lo[3] + 196608),
                            Does("writer", lo[3] + 196608, lo[5])>>
  BY RoleNumbers DEF Steps, Column
<1>3. InPlace("relu", lo) <=> lo[3] = -307200
  BY ReluPlaces, RoleNumbers DEF InPlace
<1>4. PICK f1, f2, f3 : f1 = Commands("relu", lo)[1] /\ f2 = Commands("relu", lo)[2] /\ f3 = Commands("relu", lo)[3]
  OBVIOUS
<1>5. \A r \in {"src", "dst", "rows", "line", "notch", "next"} : ReluMoved(f1, r, g_relu_regcmd[1].words[r], lo)
  <2>1. \A r \in {"src", "dst", "rows", "line", "notch", "next"} :
            r \in DOMAIN g_relu_regcmd[1].words /\ g_relu_regcmd[1].words[r] \in Int
    BY ReluProg
  <2>2. QED
    BY <1>4, <2>1, ReluMoves
<1>6. \A r \in {"src", "dst", "next"} : ReluMoved(f2, r, g_relu_regcmd[2].words[r], lo)
  <2>1. \A r \in {"src", "dst", "next"} : r \in DOMAIN g_relu_regcmd[2].words /\ g_relu_regcmd[2].words[r] \in Int
    BY ReluProg
  <2>2. QED
    BY <1>4, <2>1, ReluMoves
<1>7. \A r \in {"src", "dst"} : ReluMoved(f3, r, g_relu_regcmd[3].words[r], lo)
  <2>1. \A r \in {"src", "dst"} : r \in DOMAIN g_relu_regcmd[3].words /\ g_relu_regcmd[3].words[r] \in Int
    BY ReluProg
  <2>2. QED
    BY <1>4, <2>1, ReluMoves
<1>8. /\ f1["src"] = lo[4] /\ f1["dst"] = lo[3] + 196608 /\ "next" \in DOMAIN f1 /\ f1["next"] = lo[2] + 768
      /\ f1["rows"] = 64 /\ f1["line"] = 1536 /\ f1["notch"] = lo[3] + 210432
  BY <1>1, <1>5, ReluProg DEF ReluMoved
<1>9. f2["src"] = lo[3] + 196608 /\ f2["dst"] = lo[3] + 196608 /\ "next" \in DOMAIN f2 /\ f2["next"] = lo[2] + 1408
  BY <1>1, <1>6, ReluProg DEF ReluMoved
<1>10. f3["src"] = lo[3] + 196608 /\ f3["dst"] = lo[5]
  BY <1>1, <1>7, ReluProg DEF ReluMoved
<1>11. InPlace("relu", lo) => ~Drifts(f1)
  BY <1>3, <1>8 DEF Drifts
<1>12. Runs("relu", lo, f1, "reader", Does("reader", lo[4], lo[3] + 196608))
  BY <1>8, <1>11 DEF Runs, Does
<1>13. Runs("relu", lo, f2, "relu", Does("relu", lo[3] + 196608, lo[3] + 196608))
  BY <1>9 DEF Runs, Does
<1>14. Runs("relu", lo, f3, "writer", Does("writer", lo[3] + 196608, lo[5]))
  BY <1>10 DEF Runs, Does
<1>15. Leads(f1, lo[REGCMD] + Prog("relu")[2].at) /\ Leads(f2, lo[REGCMD] + Prog("relu")[3].at)
  BY <1>1, <1>8, <1>9, ReluProg, RoleNumbers DEF Leads
<1>16. /\ Prog("relu")[1].kind = "reader" /\ Prog("relu")[2].kind = "relu" /\ Prog("relu")[3].kind = "writer"
       /\ DOMAIN Prog("relu") = 1 .. 8
  BY <1>1, ReluProg
<1>17. /\ Steps("relu", lo)[1] = Does("reader", lo[4], lo[3] + 196608)
       /\ Steps("relu", lo)[2] = Does("relu", lo[3] + 196608, lo[3] + 196608)
       /\ Steps("relu", lo)[3] = Does("writer", lo[3] + 196608, lo[5])
  BY <1>2
<1>18. BlockDoes("relu", lo, 1)
  BY <1>0, <1>1, <1>4, <1>12, <1>15, <1>16, <1>17 DEF BlockDoes
<1>19. BlockDoes("relu", lo, 2)
  BY <1>0, <1>1, <1>4, <1>13, <1>15, <1>16, <1>17 DEF BlockDoes
<1>20. BlockDoes("relu", lo, 3)
  BY <1>0, <1>1, <1>4, <1>14, <1>16, <1>17 DEF BlockDoes
<1>21. QED
  BY <1>18, <1>19, <1>20

LEMMA TanhDoes ==
    ASSUME NEW lo, Laid("tanh", lo), NEW b \in 1 .. 4
    PROVE  BlockDoes("tanh", lo, b)
<1>0. BlockCount("tanh") = 4
  BY DEF BlockCount
<1>1. lo \in [1 .. 5 -> Int] /\ Prog("tanh") = g_tanh_regcmd0 /\ Captured("tanh") /\ DOMAIN Commands("tanh", lo) = 1 .. 4
  <2>1. Captured("tanh") /\ Prog("tanh") = g_tanh_regcmd0
    BY CapturedAre, TanhPlaces DEF Prog
  <2>2. DOMAIN Commands("tanh", lo) = DOMAIN g_tanh_regcmd0
    BY <2>1 DEF Commands, patch_regcmd_tmpl
  <2>3. QED
    BY <2>1, <2>2, TanhProg DEF Laid, Places
<1>2. Steps("tanh", lo) = <<Does("reader", lo[4], lo[3] + 196608), Does("table", lo[2] + 8960, lo[2] + 8960),
                            Does("lookup", lo[3] + 196608, lo[3]), Does("writer", lo[3], lo[5])>>
  BY RoleNumbers DEF Steps, Column
<1>3. InPlace("tanh", lo) <=> lo[1] = -4096 /\ lo[2] = -24576 /\ lo[3] = -417792
  BY TanhPlaces, RoleNumbers DEF InPlace
<1>4. PICK f1, f2, f3, f4 : /\ f1 = Commands("tanh", lo)[1] /\ f2 = Commands("tanh", lo)[2]
                            /\ f3 = Commands("tanh", lo)[3] /\ f4 = Commands("tanh", lo)[4]
  OBVIOUS
<1>5. \A r \in {"src", "dst", "next"} : TanhMoved(f1, r, g_tanh_regcmd0[1].words[r], lo)
  <2>1. \A r \in {"src", "dst", "next"} : r \in DOMAIN g_tanh_regcmd0[1].words /\ g_tanh_regcmd0[1].words[r] \in Int
    BY TanhProg
  <2>2. QED
    BY <1>4, <2>1, TanhMoves
<1>6. \A r \in {"src", "dst", "next", "lut1", "lut2", "lut3"} : TanhMoved(f2, r, g_tanh_regcmd0[2].words[r], lo)
  <2>1. \A r \in {"src", "dst", "next", "lut1", "lut2", "lut3"} :
            r \in DOMAIN g_tanh_regcmd0[2].words /\ g_tanh_regcmd0[2].words[r] \in Int
    BY TanhProg
  <2>2. QED
    BY <1>4, <2>1, TanhMoves
<1>7. \A r \in {"src", "dst", "next", "bias"} : TanhMoved(f3, r, g_tanh_regcmd0[3].words[r], lo)
  <2>1. \A r \in {"src", "dst", "next", "bias"} :
            r \in DOMAIN g_tanh_regcmd0[3].words /\ g_tanh_regcmd0[3].words[r] \in Int
    BY TanhProg
  <2>2. QED
    BY <1>4, <2>1, TanhMoves
<1>8. \A r \in {"src", "dst"} : TanhMoved(f4, r, g_tanh_regcmd0[4].words[r], lo)
  <2>1. \A r \in {"src", "dst"} : r \in DOMAIN g_tanh_regcmd0[4].words /\ g_tanh_regcmd0[4].words[r] \in Int
    BY TanhProg
  <2>2. QED
    BY <1>4, <2>1, TanhMoves
<1>9. f1["src"] = lo[4] /\ f1["dst"] = lo[3] + 196608 /\ "next" \in DOMAIN f1 /\ f1["next"] = lo[2] + 9600
  BY <1>1, <1>5, TanhProg DEF TanhMoved
<1>10. /\ f2["src"] = lo[2] + 8960 /\ f2["dst"] = lo[2] + 8960 /\ "next" \in DOMAIN f2 /\ f2["next"] = lo[2] + 18432
       /\ f2["lut1"] = lo[3] + 385181 /\ f2["lut2"] = lo[2] + 82 /\ f2["lut3"] = lo[1] + 58
  BY <1>1, <1>6, TanhProg DEF TanhMoved
<1>11. /\ f3["src"] = lo[3] + 196608 /\ f3["dst"] = lo[3] /\ "next" \in DOMAIN f3 /\ f3["next"] = lo[2] + 19072
       /\ f3["bias"] = lo[2] + 8192
  BY <1>1, <1>7, TanhProg DEF TanhMoved
<1>12. f4["src"] = lo[3] /\ f4["dst"] = lo[5]
  BY <1>1, <1>8, TanhProg DEF TanhMoved
<1>13. Runs("tanh", lo, f1, "reader", Does("reader", lo[4], lo[3] + 196608))
  <2>1. DOMAIN f1 = {"src", "dst", "next"}
    <3>1. f1 = PatchBlock(g_tanh_regcmd0[1].words, Activations["tanh"].cap, lo, Activations["tanh"].sz)
      BY <1>1, <1>4, TanhProg DEF Commands, patch_regcmd_tmpl
    <3>2. QED
      BY <3>1, TanhProg DEF PatchBlock
  <2>2. ~Drifts(f1)
    BY <2>1 DEF Drifts
  <2>3. QED
    BY <1>9, <2>2 DEF Runs, Does
<1>14. Runs("tanh", lo, f2, "table", Does("table", lo[2] + 8960, lo[2] + 8960))
  <2>1. InPlace("tanh", lo) => TanhTable(f2)
    BY <1>3, <1>10, TanhProg DEF TanhTable
  <2>2. QED
    BY <1>10, <2>1 DEF Runs, Does
<1>15. Runs("tanh", lo, f3, "lookup", Does("lookup", lo[3] + 196608, lo[3]))
  <2>1. InPlace("tanh", lo) => f3.bias = tanh_lookup.words.bias
    <3>1. tanh_lookup.words["bias"] = -16384
      BY TanhProg
    <3>2. QED
      BY <1>3, <1>11, <3>1
  <2>2. QED
    BY <1>11, <2>1 DEF Runs, Does
<1>16. Runs("tanh", lo, f4, "writer", Does("writer", lo[3], lo[5]))
  BY <1>12 DEF Runs, Does
<1>17. /\ Leads(f1, lo[REGCMD] + Prog("tanh")[2].at) /\ Leads(f2, lo[REGCMD] + Prog("tanh")[3].at)
       /\ Leads(f3, lo[REGCMD] + Prog("tanh")[4].at)
  BY <1>1, <1>9, <1>10, <1>11, TanhProg, RoleNumbers DEF Leads
<1>18. /\ Prog("tanh")[1].kind = "reader" /\ Prog("tanh")[2].kind = "table" /\ Prog("tanh")[3].kind = "lookup"
       /\ Prog("tanh")[4].kind = "writer" /\ DOMAIN Prog("tanh") = 1 .. 4
  BY <1>1, TanhProg
<1>19. /\ Steps("tanh", lo)[1] = Does("reader", lo[4], lo[3] + 196608)
       /\ Steps("tanh", lo)[2] = Does("table", lo[2] + 8960, lo[2] + 8960)
       /\ Steps("tanh", lo)[3] = Does("lookup", lo[3] + 196608, lo[3])
       /\ Steps("tanh", lo)[4] = Does("writer", lo[3], lo[5])
  BY <1>2
<1>20. BlockDoes("tanh", lo, 1)
  BY <1>0, <1>1, <1>4, <1>13, <1>17, <1>18, <1>19 DEF BlockDoes
<1>21. BlockDoes("tanh", lo, 2)
  BY <1>0, <1>1, <1>4, <1>14, <1>17, <1>18, <1>19 DEF BlockDoes
<1>22. BlockDoes("tanh", lo, 3)
  BY <1>0, <1>1, <1>4, <1>15, <1>17, <1>18, <1>19 DEF BlockDoes
<1>23. BlockDoes("tanh", lo, 4)
  BY <1>0, <1>1, <1>4, <1>16, <1>18, <1>19 DEF BlockDoes
<1>24. QED
  BY <1>20, <1>21, <1>22, <1>23

LEMMA AddProg ==
    LET p == g_regcmd_tmpl
    IN  /\ DOMAIN p = 1 .. 4
        /\ p[1].at = 192 /\ p[2].at = 832 /\ p[3].at = 1472 /\ p[4].at = 2112
        /\ p[1].kind = "reader" /\ p[2].kind = "reader" /\ p[3].kind = "alu" /\ p[4].kind = "writer"
        /\ DOMAIN p[1].words = {"src", "dst", "rows", "line", "notch", "next"} /\ p[2].words = p[1].words
        /\ p[1].words["rows"] = 64 /\ p[1].words["line"] = 1536 /\ p[1].words["notch"] = -96768
        /\ DOMAIN p[3].words = {"src", "dst", "src2", "alu", "next"} /\ DOMAIN p[4].words = {"src", "dst"}
<1>1. PICK w : w = Over([src |-> 0, dst |-> 0], [rows |-> 64, line |-> 1536, notch |-> -96768, next |-> 0])
  OBVIOUS
<1>2. /\ DOMAIN w = {"src", "dst", "rows", "line", "notch", "next"}
      /\ w["rows"] = 64 /\ w["line"] = 1536 /\ w["notch"] = -96768
  BY <1>1 DEF Over
<1>3. add_reader1 = [at |-> 192, kind |-> "reader", words |-> w]
  BY <1>1 DEF add_reader1, With, Copy, Block
<1>4. add_reader2 = [at |-> 832, kind |-> "reader", words |-> w]
  BY <1>3 DEF add_reader2
<1>5. PICK v : v = Over([src |-> 0, dst |-> 0], [src2 |-> 0, alu |-> "add", next |-> 0])
  OBVIOUS
<1>6. DOMAIN v = {"src", "dst", "src2", "alu", "next"}
  BY <1>5 DEF Over
<1>7. add_alu = [at |-> 1472, kind |-> "alu", words |-> v]
  BY <1>5 DEF add_alu, With, Copy, Block
<1>8. add_writer = [at |-> 2112, kind |-> "writer", words |-> [src |-> 0, dst |-> 0]]
  BY DEF add_writer, Copy, Block
<1>9. PICK p : p = g_regcmd_tmpl
  OBVIOUS
<1>10. DOMAIN p = 1 .. 4 /\ p[1] = add_reader1 /\ p[2] = add_reader2 /\ p[3] = add_alu /\ p[4] = add_writer
  BY <1>9 DEF g_regcmd_tmpl
<1>11. /\ p[1].at = 192 /\ p[2].at = 832 /\ p[3].at = 1472 /\ p[4].at = 2112
       /\ p[1].kind = "reader" /\ p[2].kind = "reader" /\ p[3].kind = "alu" /\ p[4].kind = "writer"
       /\ p[1].words = w /\ p[2].words = w /\ p[3].words = v /\ DOMAIN p[4].words = {"src", "dst"}
  BY <1>10, <1>3, <1>4, <1>7, <1>8
<1>12. QED
  BY <1>2, <1>6, <1>9, <1>10, <1>11

LEMMA AddDoes ==
    ASSUME NEW op, ~Captured(op), NEW lo, Laid(op, lo), NEW b \in 1 .. 4
    PROVE  BlockDoes(op, lo, b)
<1>0. BlockCount(op) = 4 /\ op # "relu" /\ op # "tanh" /\ Prog(op) = g_regcmd_tmpl
  BY CapturedAre DEF BlockCount, Prog
<1>1. lo \in [1 .. 6 -> Int]
  BY DEF Laid, Places
<1>2. Steps(op, lo) = <<Does("reader", lo[3] + 98304, lo[4]), Does("reader", lo[3] + 0, lo[5]),
                        Does("alu", lo[4], lo[3] + 196608), Does("writer", lo[3] + 196608, lo[6])>>
  BY <1>0, RoleNumbers DEF Steps, In1, In2, Result, IN1_OFF, IN2_OFF, RES_OFF
<1>3. PICK f1, f2, f3, f4 : /\ f1 = Commands(op, lo)[1] /\ f2 = Commands(op, lo)[2]
                            /\ f3 = Commands(op, lo)[3] /\ f4 = Commands(op, lo)[4]
  OBVIOUS
<1>4. DOMAIN Commands(op, lo) = 1 .. 4
  BY <1>0 DEF Commands, PatchAdd
<1>5. /\ DOMAIN f1 = {"src", "dst", "rows", "line", "notch", "next"} /\ f1["src"] = lo[3] + 98304 /\ f1["dst"] = lo[4]
      /\ f1["rows"] = 64 /\ f1["line"] = 1536 /\ f1["notch"] = -96768 /\ f1["next"] = lo[2] + 832
  <2>1. f1 = Over(Over([src |-> lo[SCRATCH] + IN1_OFF, dst |-> In1(lo)], [next |-> lo[REGCMD] + \hC0 + blk_off[2]]),
                  g_regcmd_tmpl[1].words)
    BY <1>0, <1>3 DEF Commands, PatchAdd
  <2>2. QED
    BY <1>1, <2>1, AddProg, RoleNumbers DEF Over, blk_off, IN1_OFF, In1
<1>6. /\ DOMAIN f2 = {"src", "dst", "rows", "line", "notch", "next"} /\ f2["src"] = lo[3] + 0 /\ f2["dst"] = lo[5]
      /\ f2["rows"] = 64 /\ f2["line"] = 1536 /\ f2["notch"] = -96768 /\ f2["next"] = lo[2] + 1472
  <2>1. f2 = Over(Over([src |-> lo[SCRATCH] + IN2_OFF, dst |-> In2(lo)], [next |-> lo[REGCMD] + \hC0 + blk_off[3]]),
                  g_regcmd_tmpl[2].words)
    BY <1>0, <1>3 DEF Commands, PatchAdd
  <2>2. QED
    BY <1>1, <2>1, AddProg, RoleNumbers DEF Over, blk_off, IN2_OFF, In2
<1>7. /\ DOMAIN f3 = {"src", "dst", "src2", "alu", "next"} /\ f3["src"] = lo[4] /\ f3["dst"] = lo[3] + 196608
      /\ f3["src2"] = lo[5] /\ f3["alu"] = op /\ f3["next"] = lo[2] + 2112
  <2>1. f3 = Over(Over([src2 |-> In2(lo), alu |-> op],
                       Over([src |-> In1(lo), dst |-> lo[SCRATCH] + RES_OFF], [next |-> lo[REGCMD] + \hC0 + blk_off[4]])),
                  g_regcmd_tmpl[3].words)
    BY <1>0, <1>3 DEF Commands, PatchAdd
  <2>2. QED
    BY <1>1, <2>1, AddProg, RoleNumbers DEF Over, blk_off, RES_OFF, In1, In2
<1>8. f4["src"] = lo[3] + 196608 /\ f4["dst"] = lo[6]
  <2>1. f4 = Over(Over([src |-> lo[SCRATCH] + RES_OFF, dst |-> Result(lo)], [r \in {} |-> 0]), g_regcmd_tmpl[4].words)
    BY <1>0, <1>3 DEF Commands, PatchAdd
  <2>2. QED
    BY <1>1, <2>1, AddProg, RoleNumbers DEF Over, RES_OFF, Result
<1>9. ~Drifts(f1) /\ ~Drifts(f2)
  BY <1>5, <1>6 DEF Drifts
<1>10. Runs(op, lo, f1, "reader", Does("reader", lo[3] + 98304, lo[4]))
  BY <1>5, <1>9 DEF Runs, Does
<1>11. Runs(op, lo, f2, "reader", Does("reader", lo[3] + 0, lo[5]))
  BY <1>6, <1>9 DEF Runs, Does
<1>12. Runs(op, lo, f3, "alu", Does("alu", lo[4], lo[3] + 196608))
  BY <1>7 DEF Runs, Does, In2
<1>13. Runs(op, lo, f4, "writer", Does("writer", lo[3] + 196608, lo[6]))
  BY <1>8 DEF Runs, Does
<1>14. /\ Leads(f1, lo[REGCMD] + Prog(op)[2].at) /\ Leads(f2, lo[REGCMD] + Prog(op)[3].at)
       /\ Leads(f3, lo[REGCMD] + Prog(op)[4].at)
  BY <1>0, <1>5, <1>6, <1>7, AddProg, RoleNumbers DEF Leads
<1>15. /\ Prog(op)[1].kind = "reader" /\ Prog(op)[2].kind = "reader" /\ Prog(op)[3].kind = "alu"
       /\ Prog(op)[4].kind = "writer" /\ DOMAIN Prog(op) = 1 .. 4
  BY <1>0, AddProg
<1>16. /\ Steps(op, lo)[1] = Does("reader", lo[3] + 98304, lo[4])
       /\ Steps(op, lo)[2] = Does("reader", lo[3] + 0, lo[5])
       /\ Steps(op, lo)[3] = Does("alu", lo[4], lo[3] + 196608)
       /\ Steps(op, lo)[4] = Does("writer", lo[3] + 196608, lo[6])
  BY <1>2
<1>17. BlockDoes(op, lo, 1)
  BY <1>0, <1>3, <1>4, <1>10, <1>14, <1>15, <1>16 DEF BlockDoes
<1>18. BlockDoes(op, lo, 2)
  BY <1>0, <1>3, <1>4, <1>11, <1>14, <1>15, <1>16 DEF BlockDoes
<1>19. BlockDoes(op, lo, 3)
  BY <1>0, <1>3, <1>4, <1>12, <1>14, <1>15, <1>16 DEF BlockDoes
<1>20. BlockDoes(op, lo, 4)
  BY <1>0, <1>3, <1>4, <1>13, <1>15, <1>16 DEF BlockDoes
<1>21. QED
  BY <1>17, <1>18, <1>19, <1>20

LEMMA EveryBlock ==
    ASSUME NEW op, NEW lo, Laid(op, lo), NEW b \in 1 .. BlockCount(op)
    PROVE  BlockDoes(op, lo, b)
<1>1. CASE op = "relu"
  <2>1. b \in 1 .. 3 /\ Laid("relu", lo)
    BY <1>1 DEF BlockCount
  <2>2. QED
    BY <1>1, <2>1, ReluDoes
<1>2. CASE op = "tanh"
  <2>1. b \in 1 .. 4 /\ Laid("tanh", lo)
    BY <1>2 DEF BlockCount
  <2>2. QED
    BY <1>2, <2>1, TanhDoes
<1>3. CASE ~Captured(op)
  <2>1. b \in 1 .. 4
    BY <1>3, CapturedAre DEF BlockCount
  <2>2. QED
    BY <1>3, <2>1, AddDoes
<1>4. QED
  BY <1>1, <1>2, <1>3, CapturedAre

(***************************************************************************)
(* The submits of an operation, and the blocks their task tables name.     *)
(***************************************************************************)
\* One submit takes up the blocks where the one before it stopped.
SubmitFits(op, d) ==
    LET s == Submits(op)[d]
    IN  /\ s.start \in Nat /\ s.count \in Nat \ {0} /\ s.start + s.count <= BlockCount(op)
        /\ d = 1 => s.start = 0
        /\ d < Len(Submits(op)) => Submits(op)[d + 1].start = s.start + s.count
        /\ d = Len(Submits(op)) => s.start + s.count = BlockCount(op)
        /\ Blocks(op, d) = Prog(op)
        /\ Captured(op) => Activations[op].task[d] = Activations[op].task[1]

LEMMA SubmitsFit ==
    ASSUME NEW op
    PROVE  /\ Len(Submits(op)) \in Nat \ {0}
           /\ \A d \in 1 .. Len(Submits(op)) : SubmitFits(op, d)
<1>1. CASE op = "relu"
  <2>1. /\ Submits(op) = <<[start |-> 0, count |-> 3]>> /\ BlockCount(op) = 3 /\ Captured(op)
        /\ Blocks(op, 1) = Prog(op)
    BY <1>1, ReluPlaces, CapturedAre DEF Submits, BlockCount, Blocks, Prog
  <2>2. Len(Submits(op)) = 1 /\ Submits(op)[1] = [start |-> 0, count |-> 3]
    BY <2>1
  <2>3. SubmitFits(op, 1)
    BY <2>1, <2>2 DEF SubmitFits
  <2>4. QED
    BY <2>2, <2>3
<1>2. CASE op = "tanh"
  <2>1. Captured(op) /\ BlockCount(op) = 4
    BY <1>2, CapturedAre DEF BlockCount
  <2>2. Submits(op) = <<[start |-> 0, count |-> 1], [start |-> 1, count |-> 2], [start |-> 3, count |-> 1]>>
    BY <1>2, <2>1, TanhPlaces DEF Submits
  <2>3. /\ Len(Submits(op)) = 3 /\ Submits(op)[1] = [start |-> 0, count |-> 1]
        /\ Submits(op)[2] = [start |-> 1, count |-> 2] /\ Submits(op)[3] = [start |-> 3, count |-> 1]
    BY <2>2
  <2>4. Blocks(op, 1) = Prog(op) /\ Blocks(op, 2) = Prog(op) /\ Blocks(op, 3) = Prog(op)
    BY <1>2, <2>1, TanhPlaces, TanhProg DEF Blocks, Prog
  <2>5. Activations[op].task[2] = Activations[op].task[1] /\ Activations[op].task[3] = Activations[op].task[1]
    BY <1>2, TanhPlaces DEF g_tanh_task1, g_tanh_task2
  <2>6. SubmitFits(op, 1)
    BY <2>1, <2>3, <2>4, <2>5 DEF SubmitFits
  <2>7. SubmitFits(op, 2)
    BY <2>1, <2>3, <2>4, <2>5 DEF SubmitFits
  <2>8. SubmitFits(op, 3)
    BY <2>1, <2>3, <2>4, <2>5 DEF SubmitFits
  <2>9. QED
    BY <2>3, <2>6, <2>7, <2>8
<1>3. CASE ~Captured(op)
  <2>1. /\ Submits(op) = <<[start |-> 0, count |-> 4]>> /\ BlockCount(op) = 4
        /\ Blocks(op, 1) = Prog(op)
    BY <1>3, CapturedAre DEF Submits, BlockCount, Blocks, Prog
  <2>2. Len(Submits(op)) = 1 /\ Submits(op)[1] = [start |-> 0, count |-> 4]
    BY <2>1
  <2>3. SubmitFits(op, 1)
    BY <1>3, <2>1, <2>2 DEF SubmitFits
  <2>4. QED
    BY <2>2, <2>3
<1>4. QED
  BY <1>1, <1>2, <1>3, CapturedAre

\* The blocks of a program begin at offsets of their own.
LEMMA BlocksApart ==
    ASSUME NEW op
    PROVE  /\ DOMAIN Prog(op) \in {1 .. 4, 1 .. 8} /\ 1 .. BlockCount(op) \subseteq DOMAIN Prog(op)
           /\ \A b \in DOMAIN Prog(op) : Prog(op)[b].at \in Nat
           /\ \A a, b \in DOMAIN Prog(op) : Prog(op)[a].at = Prog(op)[b].at => a = b
<1>1. CASE op = "relu"
  <2>1. Prog(op) = g_relu_regcmd /\ BlockCount(op) = 3
    BY <1>1, CapturedAre, ReluPlaces DEF Prog, BlockCount
  <2>2. PICK p : p = g_relu_regcmd
    OBVIOUS
  <2>3. /\ DOMAIN p = 1 .. 8
        /\ p[1].at = 128 /\ p[2].at = 768 /\ p[3].at = 1408 /\ p[4].at = 2048
        /\ p[5].at = 2688 /\ p[6].at = 3328 /\ p[7].at = 3968 /\ p[8].at = 4608
    BY <2>2, ReluProg
  <2>4. \A b \in 1 .. 8 : p[b].at = 640 * b - 512
    BY <2>3
  <2>5. QED
    BY <2>1, <2>2, <2>3, <2>4
<1>2. CASE op = "tanh"
  <2>1. Prog(op) = g_tanh_regcmd0 /\ BlockCount(op) = 4
    BY <1>2, CapturedAre, TanhPlaces DEF Prog, BlockCount
  <2>2. QED
    BY <2>1, TanhProg
<1>3. CASE ~Captured(op)
  <2>1. Prog(op) = g_regcmd_tmpl /\ BlockCount(op) = 4
    BY <1>3, CapturedAre DEF Prog, BlockCount
  <2>2. QED
    BY <2>1, AddProg
<1>4. QED
  BY <1>1, <1>2, <1>3, CapturedAre

LEMMA CommandsIs ==
    ASSUME NEW op, NEW lo
    PROVE  DOMAIN Commands(op, lo) = DOMAIN Prog(op) /\ Commands(op, lo) # <<>>
<1>1. DOMAIN Commands(op, lo) = DOMAIN Prog(op)
  <2>1. CASE Captured(op)
    BY <2>1 DEF Commands, patch_regcmd_tmpl
  <2>2. CASE ~Captured(op)
    BY <2>2, AddProg DEF Commands, PatchAdd, Prog
  <2>3. QED
    BY <2>1, <2>2
<1>2. 1 \in DOMAIN Prog(op)
  BY BlocksApart
<1>3. DOMAIN <<>> = {}
  OBVIOUS
<1>4. QED
  BY <1>1, <1>2, <1>3

\* Entry t of a task table names block At(t) of the program.
Entry(op, t) ==
    IF op = "relu" THEN <<1, 2, 3, 1, 4, 3, 5, 1, 6, 3, 7, 8>>[t] ELSE 1 + ((t - 1) % 4)

Off(op, b) == Prog(op)[b].at
TanhAt == <<8960, 9600, 18432, 19072>>
AddAt == <<0, 640, 1280, 1920>>

LEMMA ReluAts == \A b \in 1 .. 8 : Off("relu", b) = 640 * b - 512
<1>1. PICK p : p = g_relu_regcmd
  OBVIOUS
<1>2. /\ p[1].at = 128 /\ p[2].at = 768 /\ p[3].at = 1408 /\ p[4].at = 2048
      /\ p[5].at = 2688 /\ p[6].at = 3328 /\ p[7].at = 3968 /\ p[8].at = 4608
  BY <1>1, ReluProg
<1>3. Prog("relu") = p
  BY <1>1, CapturedAre, ReluPlaces DEF Prog
<1>4. QED
  BY <1>2, <1>3 DEF Off

LEMMA TanhAts == \A b \in 1 .. 4 : Off("tanh", b) = TanhAt[b] /\ TanhAt[b] \in Nat /\ TanhAt[b] < 20480
<1>1. PICK p : p = g_tanh_regcmd0
  OBVIOUS
<1>2. p[1].at = 8960 /\ p[2].at = 9600 /\ p[3].at = 18432 /\ p[4].at = 19072
  BY <1>1, TanhProg
<1>3. Prog("tanh") = p
  BY <1>1, CapturedAre, TanhPlaces DEF Prog
<1>4. TanhAt[1] = 8960 /\ TanhAt[2] = 9600 /\ TanhAt[3] = 18432 /\ TanhAt[4] = 19072
  BY DEF TanhAt
<1>5. QED
  BY <1>2, <1>3, <1>4 DEF Off

LEMMA AddAts ==
    ASSUME NEW op, ~Captured(op)
    PROVE  \A b \in 1 .. 4 : Off(op, b) = 192 + AddAt[b] /\ AddAt[b] \in Int
<1>1. PICK p : p = g_regcmd_tmpl
  OBVIOUS
<1>2. p[1].at = 192 /\ p[2].at = 832 /\ p[3].at = 1472 /\ p[4].at = 2112
  BY <1>1, AddProg
<1>3. Prog(op) = p
  BY <1>1 DEF Prog
<1>4. AddAt[1] = 0 /\ AddAt[2] = 640 /\ AddAt[3] = 1280 /\ AddAt[4] = 1920
  BY DEF AddAt
<1>5. QED
  BY <1>2, <1>3, <1>4 DEF Off

LEMMA ReluEntries ==
    ASSUME NEW lo, NEW to \in Int, lo[REGCMD] = to
    PROVE  /\ DOMAIN Table("relu", lo) = 1 .. 12
           /\ \A t \in 1 .. 12 : Entry("relu", t) \in 1 .. 8 /\ Table("relu", lo)[t] = to + Off("relu", Entry("relu", t))
<1>1. Table("relu", lo) = [t \in DOMAIN g_relu_task |-> Rechain(g_relu_task[t], relu_cap, lo, relu_sz)]
  BY CapturedAre DEF Table, patch_task_tmpl, Activations, Program
<1>2. relu_cap[REGCMD] = -12288 /\ relu_sz[REGCMD] = 8192
  BY RoleNumbers DEF relu_cap, relu_sz
<1> DEFINE at == <<128, 768, 1408, 128, 2048, 1408, 2688, 128, 3328, 1408, 3968, 4608>>
<1>3. g_relu_task = [t \in 1 .. 12 |-> -12288 + at[t]]
  BY <1>2 DEF g_relu_task
<1>4. \A t \in 1 .. 12 : at[t] = 640 * Entry("relu", t) - 512
  BY DEF Entry
<1>5. \A t \in 1 .. 12 : Entry("relu", t) \in 1 .. 8
  BY DEF Entry
<1> HIDE DEF at
<1>6. ASSUME NEW t \in 1 .. 12 PROVE Table("relu", lo)[t] = to + Off("relu", Entry("relu", t))
  <2> DEFINE v == at[t]
  <2>1. PICK b \in 1 .. 8 : b = Entry("relu", t) /\ v = 640 * b - 512
    BY <1>4, <1>5
  <2>2. v \in Nat /\ v < 8192 /\ v = Off("relu", Entry("relu", t))
    BY <2>1, ReluAts
  <2>3. Table("relu", lo)[t] = Rechain(-12288 + v, relu_cap, lo, relu_sz)
    BY <1>1, <1>3
  <2> HIDE DEF v
  <2>4. -12288 \in Int /\ 8192 \in Int /\ v \in Nat /\ v < 8192
    BY <2>2
  <2>5. Rechain(-12288 + v, relu_cap, lo, relu_sz) = to + v
    BY <1>2, <2>4 DEF Rechain, Within
  <2>6. QED
    BY <2>2, <2>3, <2>5
<1>7. DOMAIN Table("relu", lo) = 1 .. 12
  BY <1>1, <1>3
<1>8. QED
  BY <1>5, <1>6, <1>7

LEMMA TanhEntries ==
    ASSUME NEW lo, NEW to \in Int, lo[REGCMD] = to
    PROVE  /\ DOMAIN Table("tanh", lo) = 1 .. 12
           /\ \A t \in 1 .. 12 : Entry("tanh", t) \in 1 .. 4 /\ Table("tanh", lo)[t] = to + Off("tanh", Entry("tanh", t))
<1>1. Table("tanh", lo) = [t \in DOMAIN g_tanh_task0 |-> Rechain(g_tanh_task0[t], tanh_cap, lo, tanh_sz)]
  BY CapturedAre DEF Table, patch_task_tmpl, Activations, Program
<1>2. tanh_cap[REGCMD] = -24576 /\ tanh_sz[REGCMD] = 20480
  BY RoleNumbers DEF tanh_cap, tanh_sz
<1>3. g_tanh_task0 = [t \in 1 .. 12 |-> -24576 + TanhAt[1 + ((t - 1) % 4)]]
  BY <1>2 DEF g_tanh_task0, Thrice4, TanhAt
<1>4. \A t \in 1 .. 12 : Entry("tanh", t) = 1 + ((t - 1) % 4) /\ Entry("tanh", t) \in 1 .. 4
  BY DEF Entry
<1>5. ASSUME NEW t \in 1 .. 12 PROVE Table("tanh", lo)[t] = to + Off("tanh", Entry("tanh", t))
  <2> DEFINE e == Entry("tanh", t)
             v == TanhAt[e]
  <2>1. e \in 1 .. 4
    BY <1>4
  <2>2. v \in Nat /\ v < 20480 /\ v = Off("tanh", e)
    <3> HIDE DEF e
    <3>1. QED
      BY <2>1, TanhAts
  <2>3. Table("tanh", lo)[t] = Rechain(-24576 + v, tanh_cap, lo, tanh_sz)
    BY <1>1, <1>3, <1>4
  <2> HIDE DEF v
  <2>4. -24576 \in Int /\ 20480 \in Int /\ v \in Nat /\ v < 20480
    BY <2>2
  <2>5. Rechain(-24576 + v, tanh_cap, lo, tanh_sz) = to + v
    BY <1>2, <2>4 DEF Rechain, Within
  <2>6. QED
    BY <2>2, <2>3, <2>5
<1>6. DOMAIN Table("tanh", lo) = 1 .. 12
  BY <1>1, <1>3
<1>7. QED
  BY <1>4, <1>5, <1>6

LEMMA AddEntries ==
    ASSUME NEW op, ~Captured(op), NEW lo, NEW to \in Int, lo[REGCMD] = to
    PROVE  /\ DOMAIN Table(op, lo) = 1 .. 12
           /\ \A t \in 1 .. 12 : Entry(op, t) \in 1 .. 4 /\ Table(op, lo)[t] = to + Off(op, Entry(op, t))
<1>1. \A t \in 1 .. 12 : Entry(op, t) = 1 + ((t - 1) % 4) /\ Entry(op, t) \in 1 .. 4
  BY CapturedAre DEF Entry
<1>2. Table(op, lo) = [t \in 1 .. 12 |-> to + 192 + AddAt[1 + ((t - 1) % 4)]]
  BY DEF Table, TaskAdd, blk_off, AddAt
<1>3. ASSUME NEW t \in 1 .. 12 PROVE Table(op, lo)[t] = to + Off(op, Entry(op, t))
  <2>1. PICK v : v = AddAt[Entry(op, t)]
    OBVIOUS
  <2>2. v \in Int /\ 192 + v = Off(op, Entry(op, t))
    BY <2>1, <1>1, AddAts
  <2>3. Table(op, lo)[t] = to + 192 + v
    BY <1>1, <1>2, <2>1
  <2>4. QED
    BY <2>2, <2>3
<1>4. QED
  BY <1>1, <1>2, <1>3

LEMMA TaskEntries ==
    ASSUME NEW op, NEW lo, Laid(op, lo)
    PROVE  /\ DOMAIN Table(op, lo) = 1 .. 12
           /\ \A t \in 1 .. 12 : Entry(op, t) \in DOMAIN Prog(op) /\ Table(op, lo)[t] = lo[REGCMD] + Off(op, Entry(op, t))
<1>0. PICK to \in Int : to = lo[REGCMD]
  BY RoleNumbers DEF Laid, Places
<1>1. CASE op = "relu"
  <2>1. DOMAIN Prog("relu") = 1 .. 8
    BY CapturedAre, ReluPlaces, ReluProg DEF Prog
  <2>2. QED
    BY <1>0, <1>1, <2>1, ReluEntries
<1>2. CASE op = "tanh"
  <2>1. DOMAIN Prog("tanh") = 1 .. 4
    BY CapturedAre, TanhPlaces, TanhProg DEF Prog
  <2>2. QED
    BY <1>0, <1>2, <2>1, TanhEntries
<1>3. CASE ~Captured(op)
  <2>1. DOMAIN Prog(op) = 1 .. 4
    BY <1>3, AddProg DEF Prog
  <2>2. QED
    BY <1>0, <1>3, <2>1, AddEntries
<1>4. QED
  BY <1>1, <1>2, <1>3, CapturedAre

\* The entry a submit begins with names its first block.
LEMMA SubmitEntry ==
    ASSUME NEW op, NEW lo, Laid(op, lo), NEW d \in 1 .. Len(Submits(op)), NEW s, s = Submits(op)[d]
    PROVE  Table(op, lo)[s.start + 1] = lo[REGCMD] + Off(op, s.start + 1)
<1>1. s.start \in Nat /\ s.start < BlockCount(op)
  <2>1. SubmitFits(op, d) /\ BlockCount(op) \in {3, 4}
    BY SubmitsFit DEF BlockCount
  <2>2. QED
    BY <2>1 DEF SubmitFits
<1>2. s.start + 1 \in 1 .. 12 /\ Entry(op, s.start + 1) = s.start + 1
  <2>1. CASE op = "relu"
    <3>1. s.start + 1 \in {1, 2, 3}
      BY <1>1, <2>1 DEF BlockCount
    <3>2. QED
      BY <2>1, <3>1 DEF Entry
  <2>2. CASE op # "relu"
    <3>1. s.start + 1 \in {1, 2, 3, 4}
      BY <1>1, <2>2 DEF BlockCount
    <3>2. QED
      BY <2>2, <3>1 DEF Entry
  <2>3. QED
    BY <2>1, <2>2
<1>3. QED
  BY <1>2, TaskEntries

(****************************************************************************)
(* Least elements, and induction over the numbers up to n.                   *)
(****************************************************************************)

LEMMA Least ==
    ASSUME NEW S, S \in SUBSET Nat, S # {}
    PROVE  \E x \in S : \A y \in S : x <= y
<1> DEFINE R == OpToRel(<, Nat)
<1>1. IsWellFoundedOn(R, Nat)
  BY NatLessThanWellFounded
<1>2. R = {ss \in Nat \X Nat : ss[1] < ss[2]}
  BY DEF OpToRel
<1> HIDE DEF R
<1>3. PICK x \in S : \A y \in S : ~ (<<y, x>> \in R)
  BY <1>1, WFMin
<1>4. ASSUME NEW y \in S PROVE x <= y
  <2>1. x \in Nat /\ y \in Nat
    OBVIOUS
  <2>2. ~(y < x)
    BY <1>2, <1>3, <2>1
  <2>3. QED
    BY <2>1, <2>2
<1>5. QED
  BY <1>4

LEMMA Induct ==
    ASSUME NEW n \in Nat, NEW S, 0 \in S, \A i \in 0 .. n - 1 : i \in S => i + 1 \in S
    PROVE  n \in S
<1> DEFINE R == {i \in 0 .. n : i \notin S}
<1>1. R \in SUBSET Nat
  OBVIOUS
<1>2. ASSUME R # {} PROVE FALSE
  <2>1. PICK x \in R : \A y \in R : x <= y
    BY <1>1, <1>2, Least
  <2>2. x # 0 /\ x \in 0 .. n /\ x \notin S
    OBVIOUS
  <2>3. x - 1 \in S
    BY <2>1, <2>2
  <2>4. QED
    BY <2>2, <2>3, <2>1
<1>3. QED
  BY <1>2

\* A set of integers with a lower bound has a least element, and dually.
LEMMA Lowest ==
    ASSUME NEW S, S \in SUBSET Int, S # {}, NEW low \in Int, \A x \in S : low <= x
    PROVE  /\ \E x \in S : \A y \in S : x <= y
           /\ Min(S) \in S /\ \A y \in S : Min(S) <= y
<1> DEFINE N == {x - low : x \in S}
<1>1. N \in SUBSET Nat /\ N # {}
  <2>1. \A x \in S : x \in Int /\ x - low \in Nat
    OBVIOUS
  <2>2. QED
    BY <2>1
<1>2. PICK k \in N : \A y \in N : k <= y
  BY <1>1, Least
<1>3. PICK x \in S : k = x - low
  OBVIOUS
<1>4. \A y \in S : x <= y
  <2> TAKE y \in S
  <2>1. x - low <= y - low
    BY <1>2, <1>3
  <2>2. x \in Int /\ y \in Int
    OBVIOUS
  <2>3. QED
    BY <2>1, <2>2
<1>5. Min(S) \in S /\ \A y \in S : Min(S) <= y
  BY <1>4 DEF Min
<1>6. QED
  BY <1>4, <1>5

LEMMA Highest ==
    ASSUME NEW S, S \in SUBSET Int, S # {}, NEW high \in Int, \A x \in S : x <= high
    PROVE  Max(S) \in S /\ \A y \in S : y <= Max(S)
<1> DEFINE N == {high - x : x \in S}
<1>1. N \in SUBSET Nat /\ N # {}
  <2>1. \A x \in S : x \in Int /\ high - x \in Nat
    OBVIOUS
  <2>2. QED
    BY <2>1
<1>2. PICK k \in N : \A y \in N : k <= y
  BY <1>1, Least
<1>3. PICK x \in S : k = high - x
  OBVIOUS
<1>4. \A y \in S : x >= y
  <2> TAKE y \in S
  <2>1. high - x <= high - y
    BY <1>2, <1>3
  <2>2. x \in Int /\ y \in Int
    OBVIOUS
  <2>3. QED
    BY <2>1, <2>2
<1>5. Max(S) \in S /\ \A y \in S : Max(S) >= y
  BY <1>4 DEF Max
<1>6. QED
  <2>1. \A y \in S : y \in Int /\ Max(S) \in Int
    BY <1>5
  <2>2. QED
    BY <1>5, <2>1

(***************************************************************************)
(* The addresses of fresh BOs.                                             *)
(***************************************************************************)
Tops(used) == {0} \cup {q.lo : q \in used}
Fits(used, size) == {a \in {top - size : top \in Tops(used)} : \A q \in used : Apart(Region(a, size), q)}

LEMMA GapFits ==
    ASSUME NEW used, Roomy(used), NEW size \in Nat, NEW a, a = Gap(used, size)
    PROVE  /\ a \in Int /\ a <= 0 - size /\ a \in Fits(used, size)
           /\ \A b \in Fits(used, size) : b <= a
           /\ \A q \in used : Apart(Region(a, size), q)
           /\ Roomy(used \cup {Region(a, size)})
<1> DEFINE T == Tops(used)
           S == Fits(used, size)
<1>1. PICK low \in Int : \A q \in used : low <= q.lo
  BY DEF Roomy
<1>2. T \in SUBSET Int /\ T # {} /\ \A t \in T : t <= 0
  BY DEF Roomy, Tops
<1>3. PICK m \in T : \A t \in T : m <= t
  <2>1. PICK l \in Int : \A t \in T : l <= t
    <3>1. CASE low <= 0
      BY <1>1, <3>1 DEF Tops
    <3>2. CASE low > 0
      <4>1. \A t \in T : 0 <= t
        BY <1>1, <3>2 DEF Tops, Roomy
      <4>2. QED
        BY <4>1
    <3>3. QED
      BY <3>1, <3>2
  <2> HIDE DEF T
  <2>2. QED
    BY <1>2, <2>1, Lowest
<1>4. m - size \in S
  <2>1. ASSUME NEW q \in used PROVE Apart(Region(m - size, size), q)
    <3>1. m \in Int /\ q.lo \in Int /\ m <= q.lo
      BY <1>2, <1>3 DEF Tops
    <3>2. QED
      BY <3>1 DEF Apart, Region
  <2>2. QED
    BY <2>1 DEF Fits
<1>5. S \in SUBSET Int /\ \A x \in S : x <= 0 - size
  BY <1>2 DEF Fits
<1>6. a = Max(S)
  BY DEF Gap, Fits, Tops
<1>7. a \in S /\ \A b \in S : b <= a
  <2> HIDE DEF S
  <2>1. 0 - size \in Int
    OBVIOUS
  <2>2. QED
    BY <1>4, <1>5, <1>6, <2>1, Highest
<1>8. a \in Int /\ a <= 0 - size /\ \A q \in used : Apart(Region(a, size), q)
  BY <1>5, <1>7 DEF Fits
<1>9. Roomy(used \cup {Region(a, size)})
  <2>1. Region(a, size).lo = a /\ Region(a, size).size = size
    BY DEF Region
  <2>2. \A q \in used \cup {Region(a, size)} : q.lo \in Int /\ q.size \in Nat /\ q.lo <= 0
    BY <1>8, <2>1 DEF Roomy
  <2>3. \E l \in Int : \A q \in used \cup {Region(a, size)} : l <= q.lo
    <3>1. CASE low <= a
      BY <1>1, <2>1, <3>1
    <3>2. CASE a < low
      <4>1. \A q \in used : a <= q.lo
        BY <1>1, <1>8, <2>2, <3>2
      <4>2. \A q \in used \cup {Region(a, size)} : a <= q.lo
        BY <1>8, <2>1, <4>1
      <4>3. QED
        BY <1>8, <4>2
    <3>3. QED
      BY <1>8, <3>1, <3>2
  <2>4. QED
    BY <2>2, <2>3 DEF Roomy
<1>10. QED
  BY <1>7, <1>8, <1>9

LEMMA RoomyLess == ASSUME NEW used, Roomy(used), NEW less, less \subseteq used PROVE Roomy(less)
  BY DEF Roomy

(***************************************************************************)
(* BOs created one after the other.                                        *)
(***************************************************************************)
Growing(used, sz, n, lo) ==
    lo = [i \in 0 .. n |-> IF i = 0 THEN <<>>
                           ELSE Append(lo[i - 1], Gap(used \cup Regions(lo[i - 1], sz), sz[i]))]

LEMMA GrowingExists ==
    ASSUME NEW used, NEW sz, NEW n \in Nat
    PROVE  \E lo : Growing(used, sz, n, lo)
<1> DEFINE Good == {i \in Nat : \E lo : Growing(used, sz, i, lo)}
           More(lo, i) == Append(lo, Gap(used \cup Regions(lo, sz), sz[i]))
<1>1. 0 \in Good
  <2>1. Growing(used, sz, 0, [i \in 0 .. 0 |-> <<>>])
    BY DEF Growing
  <2>2. QED
    BY <2>1
<1>2. ASSUME NEW j \in 0 .. n - 1, j \in Good PROVE j + 1 \in Good
  <2>1. PICK old : Growing(used, sz, j, old)
    BY <1>2
  <2> DEFINE new == [k \in 0 .. j + 1 |-> IF k <= j THEN old[k] ELSE More(old[j], j + 1)]
  <2>2. \A k \in 0 .. j : old[k] = IF k = 0 THEN <<>> ELSE More(old[k - 1], k)
    BY <2>1 DEF Growing
  <2> HIDE DEF More
  <2>3. ASSUME NEW k \in 0 .. j + 1
        PROVE  new[k] = IF k = 0 THEN <<>> ELSE More(new[k - 1], k)
    <3>1. CASE k = 0
      BY <2>2, <3>1
    <3>2. CASE k # 0 /\ k <= j
      <4>1. k \in 0 .. j /\ k - 1 \in 0 .. j + 1 /\ k - 1 <= j
        BY <3>2
      <4>2. new[k] = old[k] /\ new[k - 1] = old[k - 1]
        BY <3>2, <4>1
      <4>3. QED
        BY <2>2, <3>2, <4>1, <4>2
    <3>3. CASE ~ (k <= j)
      <4>1. k = j + 1 /\ k # 0 /\ k - 1 = j /\ j \in 0 .. j + 1 /\ j <= j
        BY <3>3
      <4>2. new[k] = More(old[j], j + 1) /\ new[j] = old[j]
        BY <3>3, <4>1
      <4>3. QED
        BY <4>1, <4>2
    <3>4. QED
      BY <3>1, <3>2, <3>3
  <2>4. Growing(used, sz, j + 1, new)
    <3>1. new = [k \in 0 .. j + 1 |-> new[k]]
      OBVIOUS
    <3> HIDE DEF new
    <3>2. QED
      BY <2>3, <3>1 DEF Growing, More
  <2>5. QED
    BY <2>4
<1> HIDE DEF Good
<1>3. n \in Good
  BY <1>1, <1>2, Induct
<1>4. QED
  BY <1>3 DEF Good

Grown(used, sz, n, lo) ==
    /\ Create(used, sz) = lo[n] /\ lo[0] = <<>>
    /\ \A i \in 1 .. n : lo[i] = Append(lo[i - 1], Gap(used \cup Regions(lo[i - 1], sz), sz[i]))

LEMMA CreateGrows ==
    ASSUME NEW used, NEW sz, NEW n \in Nat, Len(sz) = n
    PROVE  \E lo : Grown(used, sz, n, lo)
<1> DEFINE lo == CHOOSE z : Growing(used, sz, n, z)
<1>1. Growing(used, sz, n, lo)
  BY GrowingExists, Zenon
<1>2. Create(used, sz) = lo[n]
  <2>1. Create(used, sz) = (CHOOSE z : z = [i \in 0 .. n |-> IF i = 0 THEN <<>>
                           ELSE Append(z[i - 1], Gap(used \cup Regions(z[i - 1], sz), sz[i]))])[n]
    BY Zenon DEF Create
  <2>2. QED
    BY <2>1, Zenon DEF Growing
<1>3. lo = [i \in 0 .. n |-> IF i = 0 THEN <<>>
                             ELSE Append(lo[i - 1], Gap(used \cup Regions(lo[i - 1], sz), sz[i]))]
  BY <1>1 DEF Growing
<1> HIDE DEF lo
<1>4. lo[0] = <<>>
  BY <1>3
<1>5. \A i \in 1 .. n : lo[i] = Append(lo[i - 1], Gap(used \cup Regions(lo[i - 1], sz), sz[i]))
  <2> TAKE i \in 1 .. n
  <2>1. i \in 0 .. n /\ i # 0
    OBVIOUS
  <2>2. QED
    BY <1>3, <2>1
<1>6. Grown(used, sz, n, lo)
  BY <1>2, <1>4, <1>5 DEF Grown
<1>7. QED
  BY <1>6

Longer(t, s, i, e) == t \in [1 .. i + 1 -> Int] /\ t[i + 1] = e /\ \A j \in 1 .. i : t[j] = s[j]

LEMMA AppendIs ==
    ASSUME NEW i \in Nat, NEW s \in Seq(Int), Len(s) = i, NEW e \in Int
    PROVE  Longer(Append(s, e), s, i, e)
<1>1. PICK t : t = Append(s, e)
  OBVIOUS
<1>2. t \in Seq(Int) /\ Len(t) = i + 1 /\ (\A j \in 1 .. i : t[j] = s[j]) /\ t[i + 1] = e
  BY <1>1, AppendProperties
<1>3. t \in [1 .. i + 1 -> Int]
  BY <1>2
<1>4. QED
  BY <1>1, <1>2, <1>3 DEF Longer

LEMMA RegionsGrow ==
    ASSUME NEW i \in Nat, NEW s \in Seq(Int), Len(s) = i, NEW e \in Int, NEW sz
    PROVE  Regions(Append(s, e), sz) = Regions(s, sz) \cup {Region(e, sz[i + 1])}
<1> DEFINE t == Append(s, e)
<1>1. DOMAIN t = 1 .. i + 1 /\ t[i + 1] = e /\ \A j \in 1 .. i : t[j] = s[j]
  BY AppendIs DEF Longer
<1> HIDE DEF t
<1>2. Regions(t, sz) = {Region(t[j], sz[j]) : j \in 1 .. i + 1}
  BY <1>1 DEF Regions
<1>3. Regions(s, sz) = {Region(s[j], sz[j]) : j \in 1 .. i}
  BY DEF Regions
<1>4. Regions(t, sz) \subseteq Regions(s, sz) \cup {Region(e, sz[i + 1])}
  <2> SUFFICES ASSUME NEW j \in 1 .. i + 1
               PROVE  Region(t[j], sz[j]) \in Regions(s, sz) \cup {Region(e, sz[i + 1])}
    BY <1>2
  <2>1. CASE j = i + 1
    BY <1>1, <2>1
  <2>2. CASE j # i + 1
    <3>1. j \in 1 .. i
      BY <2>2
    <3>2. QED
      BY <1>1, <1>3, <3>1
  <2>3. QED
    BY <2>1, <2>2
<1>5. Regions(s, sz) \subseteq Regions(t, sz)
  <2> SUFFICES ASSUME NEW j \in 1 .. i PROVE Region(s[j], sz[j]) \in Regions(t, sz)
    BY <1>3
  <2>1. j \in 1 .. i + 1
    OBVIOUS
  <2>2. QED
    BY <1>1, <1>2, <2>1
<1>6. Region(e, sz[i + 1]) \in Regions(t, sz)
  <2>1. i + 1 \in 1 .. i + 1
    OBVIOUS
  <2>2. QED
    BY <1>1, <1>2, <2>1
<1>7. QED
  BY <1>4, <1>5, <1>6 DEF t

LEMMA CreateFits ==
    ASSUME NEW used, Roomy(used), NEW n \in Nat, NEW sz, sz \in [1 .. n -> Nat \ {0}], Len(sz) = n,
           NEW made, made = Create(used, sz)
    PROVE  /\ made \in [1 .. n -> Int] /\ Disjoint(made, sz)
           /\ Roomy(used \cup Regions(made, sz))
<1>1. PICK lo : /\ made = lo[n] /\ lo[0] = <<>>
                /\ \A i \in 1 .. n : lo[i] = Append(lo[i - 1], Gap(used \cup Regions(lo[i - 1], sz), sz[i]))
  <2>1. PICK lo : Grown(used, sz, n, lo)
    BY CreateGrows
  <2>2. QED
    BY <2>1, Zenon DEF Grown
<1> DEFINE Good == {i \in 0 .. n : /\ lo[i] \in [1 .. i -> Int] /\ Disjoint(lo[i], sz)
                                   /\ Roomy(used \cup Regions(lo[i], sz))}
<1>2. 0 \in Good
  <2>1. lo[0] \in [1 .. 0 -> Int] /\ DOMAIN lo[0] = {}
    BY <1>1
  <2>2. Disjoint(lo[0], sz) /\ Regions(lo[0], sz) = {}
    BY <2>1 DEF Disjoint, Regions
  <2>3. used \cup Regions(lo[0], sz) = used
    BY <2>2
  <2>4. 0 \in 0 .. n
    OBVIOUS
  <2>5. Roomy(used \cup Regions(lo[0], sz))
    BY <2>3
  <2>6. QED
    BY <2>1, <2>2, <2>4, <2>5
<1>3. ASSUME NEW i \in 0 .. n - 1, i \in Good PROVE i + 1 \in Good
  <2>1. PICK s : s = lo[i]
    OBVIOUS
  <2>2. i \in Nat /\ i + 1 \in 1 .. n /\ i + 1 \in 0 .. n /\ (i + 1) - 1 = i
    OBVIOUS
  <2>3. s \in [1 .. i -> Int] /\ Disjoint(s, sz) /\ Roomy(used \cup Regions(s, sz))
    BY <1>3, <2>1
  <2>4. PICK g : g = Gap(used \cup Regions(s, sz), sz[i + 1])
    OBVIOUS
  <2>5. sz[i + 1] \in Nat
    BY <2>2
  <2>6. /\ g \in Int /\ \A q \in used \cup Regions(s, sz) : Apart(Region(g, sz[i + 1]), q)
        /\ Roomy((used \cup Regions(s, sz)) \cup {Region(g, sz[i + 1])})
    <3>1. PICK here, size : here = used \cup Regions(s, sz) /\ size = sz[i + 1]
      OBVIOUS
    <3>2. Roomy(here) /\ size \in Nat /\ g = Gap(here, size)
      BY <2>3, <2>4, <2>5, <3>1
    <3>3. g \in Int /\ (\A q \in here : Apart(Region(g, size), q)) /\ Roomy(here \cup {Region(g, size)})
      BY <3>2, GapFits
    <3>4. QED
      BY <3>1, <3>3
  <2>7. PICK t : t = Append(s, g)
    OBVIOUS
  <2>8. t = lo[i + 1]
    BY <1>1, <2>1, <2>2, <2>4, <2>7
  <2>9. t \in [1 .. i + 1 -> Int] /\ t[i + 1] = g /\ \A j \in 1 .. i : t[j] = s[j]
    <3>1. i \in Nat /\ g \in Int /\ s \in Seq(Int) /\ Len(s) = i
      BY <2>2, <2>3, <2>6
    <3>2. Longer(t, s, i, g)
      BY <2>7, <3>1, AppendIs
    <3>3. QED
      BY <3>2 DEF Longer
  <2>10. Regions(t, sz) = Regions(s, sz) \cup {Region(g, sz[i + 1])}
    <3>1. i \in Nat /\ g \in Int /\ s \in Seq(Int) /\ Len(s) = i
      BY <2>2, <2>3, <2>6
    <3>2. QED
      BY <2>7, <3>1, RegionsGrow
  <2>11. Roomy(used \cup Regions(t, sz))
    <3>1. used \cup Regions(t, sz) = (used \cup Regions(s, sz)) \cup {Region(g, sz[i + 1])}
      BY <2>10
    <3>2. QED
      BY <2>6, <3>1
  <2>12. ASSUME NEW j \in 1 .. i PROVE g + sz[i + 1] <= s[j] \/ s[j] + sz[j] <= g
    <3>1. Region(s[j], sz[j]) \in Regions(s, sz)
      BY <2>3 DEF Regions
    <3>2. Apart(Region(g, sz[i + 1]), Region(s[j], sz[j]))
      BY <2>6, <3>1
    <3>3. QED
      BY <3>2 DEF Apart, Region
  <2>13. Disjoint(t, sz)
    <3> SUFFICES ASSUME NEW q \in 1 .. i + 1, NEW r \in 1 .. i + 1, q # r
                 PROVE  t[q] + sz[q] <= t[r] \/ t[r] + sz[r] <= t[q]
      BY <2>9 DEF Disjoint
    <3>1. CASE q = i + 1
      <4>1. r \in 1 .. i
        BY <3>1
      <4>2. QED
        BY <2>9, <2>12, <3>1, <4>1
    <3>2. CASE r = i + 1
      <4>1. q \in 1 .. i
        BY <3>2
      <4>2. QED
        BY <2>9, <2>12, <3>2, <4>1
    <3>3. CASE q # i + 1 /\ r # i + 1
      <4>1. q \in 1 .. i /\ r \in 1 .. i
        BY <3>3
      <4>2. t[q] = s[q] /\ t[r] = s[r]
        BY <2>9, <4>1
      <4>3. s[q] + sz[q] <= s[r] \/ s[r] + sz[r] <= s[q]
        BY <2>3, <4>1 DEF Disjoint
      <4>4. QED
        BY <4>2, <4>3
    <3>4. QED
      BY <3>1, <3>2, <3>3
  <2>14. QED
    BY <2>2, <2>8, <2>9, <2>11, <2>13
<1> HIDE DEF Good
<1>4. n \in Good
  BY <1>2, <1>3, Induct
<1>5. QED
  BY <1>1, <1>4 DEF Good

(***************************************************************************)
(* The first BOs of an fd: one below the other.                            *)
(***************************************************************************)
\* Without a gap from low up to 4 GB.
Stacked(used, low) ==
    /\ low \in Tops(used)
    /\ \A q \in used : q.lo \in Int /\ q.size \in Nat \ {0} /\ low <= q.lo
    /\ \A t \in Tops(used) : t # low => \E q \in used : q.lo + q.size = t

LEMMA GapBelow ==
    ASSUME NEW used, Roomy(used), NEW low \in Int, Stacked(used, low), NEW size \in Nat \ {0}
    PROVE  Gap(used, size) = low - size /\ Stacked(used \cup {Region(low - size, size)}, low - size)
<1> DEFINE a == Gap(used, size)
<1>1. /\ a \in Int /\ a \in Fits(used, size) /\ \A q \in used : Apart(Region(a, size), q)
  BY GapFits
<1>2. PICK t \in Tops(used) : a = t - size
  BY <1>1 DEF Fits
<1>3. t \in Int
  BY DEF Tops, Roomy
<1>4. ASSUME t # low PROVE FALSE
  <2>1. PICK q \in used : q.lo + q.size = t
    BY <1>4 DEF Stacked
  <2>2. q.lo \in Int /\ q.size \in Nat \ {0}
    BY DEF Stacked
  <2>3. Apart(Region(a, size), q)
    BY <1>1
  <2>4. a + size <= q.lo \/ q.lo + q.size <= a
    BY <2>3 DEF Apart, Region
  <2> HIDE DEF a
  <2>5. QED
    BY <1>2, <1>3, <2>1, <2>2, <2>4
<1>5. a = low - size
  BY <1>2, <1>4
<1> DEFINE r == Region(low - size, size)
<1>6. r.lo = low - size /\ r.size = size
  BY DEF Region
<1> HIDE DEF a, r
<1>7. low - size \in Tops(used \cup {r})
  BY <1>6 DEF Tops
<1>8. \A q \in used \cup {r} : q.lo \in Int /\ q.size \in Nat \ {0} /\ low - size <= q.lo
  BY <1>6 DEF Stacked
<1>9. ASSUME NEW u \in Tops(used \cup {r}), u # low - size PROVE \E q \in used \cup {r} : q.lo + q.size = u
  <2>1. u \in Tops(used)
    BY <1>6, <1>9 DEF Tops
  <2>2. CASE u = low
    BY <1>6, <2>2
  <2>3. CASE u # low
    BY <2>1, <2>3 DEF Stacked
  <2>4. QED
    BY <2>2, <2>3
<1>10. Stacked(used \cup {r}, low - size)
  BY <1>7, <1>8, <1>9 DEF Stacked
<1>11. QED
  BY <1>5, <1>10 DEF a, r

Stack(s, sz, i, low) ==
    s \in Seq(Int) /\ Len(s) = i /\ Roomy(Regions(s, sz)) /\ Stacked(Regions(s, sz), low)
OneMore(t, s, sz, i, j, low) == Stack(t, sz, j, low) /\ t[j] = low /\ \A k \in 1 .. i : t[k] = s[k]

LEMMA StackOne ==
    ASSUME NEW sz, NEW i \in Nat, NEW s, NEW low \in Int, Stack(s, sz, i, low),
           NEW j, j = i + 1, NEW size \in Nat \ {0}, sz[j] = size, NEW down, down = low - size,
           NEW t, t = Append(s, Gap({} \cup Regions(s, sz), sz[j]))
    PROVE  OneMore(t, s, sz, i, j, down)
<1>0. s \in Seq(Int) /\ Len(s) = i /\ Roomy(Regions(s, sz)) /\ Stacked(Regions(s, sz), low)
  BY DEF Stack
<1>1. PICK used : used = Regions(s, sz)
  OBVIOUS
<1>2. {} \cup Regions(s, sz) = used
  BY <1>1
<1>3. Gap(used, size) = low - size /\ Stacked(used \cup {Region(low - size, size)}, low - size)
  BY <1>0, <1>1, GapBelow
<1>4. Roomy(used \cup {Region(low - size, size)})
  <2>1. size \in Nat /\ low - size = Gap(used, size)
    BY <1>3
  <2>2. QED
    BY <1>0, <1>1, <2>1, GapFits
<1>5. t = Append(s, down) /\ down \in Int
  BY <1>2, <1>3
<1>6. Longer(t, s, i, down)
  BY <1>0, <1>5, AppendIs
<1>7. t \in Seq(Int) /\ Len(t) = j
  BY <1>0, <1>5, AppendProperties
<1>8. Regions(t, sz) = used \cup {Region(low - size, size)}
  <2>1. Regions(t, sz) = Regions(s, sz) \cup {Region(down, sz[i + 1])}
    BY <1>0, <1>5, RegionsGrow
  <2>2. QED
    BY <1>1, <2>1
<1>9. QED
  BY <1>3, <1>4, <1>6, <1>7, <1>8 DEF Longer, Stack, OneMore

LEMMA NothingStacked == ASSUME NEW sz PROVE Roomy(Regions(<<>>, sz)) /\ Stacked(Regions(<<>>, sz), 0)
<1>1. Regions(<<>>, sz) = {}
  BY DEF Regions
<1>2. Roomy({})
  BY DEF Roomy
<1>3. Stacked({}, 0)
  BY DEF Stacked, Tops
<1>4. QED
  BY <1>1, <1>2, <1>3

\* The BOs an executable is compiled with on an fresh fd lie where they were captured.
LEMMA CreateFirst ==
    ASSUME NEW op, Captured(op)
    PROVE  InPlace(op, Create({}, KernelSizes(op)))
<1>1. PICK sz : sz = KernelSizes(op)
  OBVIOUS
<1>2. sz \in [1 .. 5 -> Nat \ {0}] /\ Len(sz) = 5
  <2>1. sz \in [1 .. 5 -> Nat \ {0}]
    BY <1>1, SizesAre DEF Places
  <2>2. QED
    BY <2>1
<1>3. PICK lo : Grown({}, sz, 5, lo)
  BY <1>2, CreateGrows
<1>4. /\ Create({}, sz) = lo[5] /\ lo[0] = <<>>
      /\ lo[1] = Append(lo[0], Gap({} \cup Regions(lo[0], sz), sz[1]))
      /\ lo[2] = Append(lo[1], Gap({} \cup Regions(lo[1], sz), sz[2]))
      /\ lo[3] = Append(lo[2], Gap({} \cup Regions(lo[2], sz), sz[3]))
      /\ lo[4] = Append(lo[3], Gap({} \cup Regions(lo[3], sz), sz[4]))
      /\ lo[5] = Append(lo[4], Gap({} \cup Regions(lo[4], sz), sz[5]))
  BY <1>3 DEF Grown
<1> DEFINE a == sz[1]
           b == sz[2]
           c == sz[3]
           d == sz[4]
           e == sz[5]
<1>5. a = sz[1] /\ b = sz[2] /\ c = sz[3] /\ d = sz[4] /\ e = sz[5]
  OBVIOUS
<1>10. a \in Nat \ {0} /\ b \in Nat \ {0} /\ c \in Nat \ {0} /\ d \in Nat \ {0} /\ e \in Nat \ {0}
  BY <1>2
<1> HIDE DEF a, b, c, d, e
<1> DEFINE a1 == 0 - a
           a2 == a1 - b
           a3 == a2 - c
           a4 == a3 - d
           a5 == a4 - e
<1>6. a1 = 0 - a /\ a2 = a1 - b /\ a3 = a2 - c /\ a4 = a3 - d /\ a5 = a4 - e
  OBVIOUS
<1>7. a1 \in Int /\ a2 \in Int /\ a3 \in Int /\ a4 \in Int /\ a5 \in Int
  BY <1>10
<1> HIDE DEF a1, a2, a3, a4, a5
<1>8. 0 \in Nat /\ 1 \in Nat /\ 2 \in Nat /\ 3 \in Nat /\ 4 \in Nat /\ 0 \in Int
  OBVIOUS
<1>9. 1 = 0 + 1 /\ 2 = 1 + 1 /\ 3 = 2 + 1 /\ 4 = 3 + 1 /\ 5 = 4 + 1
  OBVIOUS
<1>17. Stack(lo[0], sz, 0, 0)
  BY <1>4, NothingStacked DEF Stack
<1>18. OneMore(lo[1], lo[0], sz, 0, 1, a1)
  BY <1>4, <1>5, <1>6, <1>10, <1>8, <1>9, <1>17, StackOne
<1>19. OneMore(lo[2], lo[1], sz, 1, 2, a2)
  <2>1. Stack(lo[1], sz, 1, a1)
    BY <1>18 DEF OneMore
  <2>2. QED
    BY <1>4, <1>5, <1>6, <1>10, <1>7, <1>8, <1>9, <2>1, StackOne
<1>20. OneMore(lo[3], lo[2], sz, 2, 3, a3)
  <2>1. Stack(lo[2], sz, 2, a2)
    BY <1>19 DEF OneMore
  <2>2. QED
    BY <1>4, <1>5, <1>6, <1>10, <1>7, <1>8, <1>9, <2>1, StackOne
<1>21. OneMore(lo[4], lo[3], sz, 3, 4, a4)
  <2>1. Stack(lo[3], sz, 3, a3)
    BY <1>20 DEF OneMore
  <2>2. QED
    BY <1>4, <1>5, <1>6, <1>10, <1>7, <1>8, <1>9, <2>1, StackOne
<1>22. OneMore(lo[5], lo[4], sz, 4, 5, a5)
  <2>1. Stack(lo[4], sz, 4, a4)
    BY <1>21 DEF OneMore
  <2>2. QED
    BY <1>4, <1>5, <1>6, <1>10, <1>7, <1>8, <1>9, <2>1, StackOne
<1>12. PICK at : at = Create({}, sz)
  OBVIOUS
<1>13. at[1] = 0 - a /\ at[2] = 0 - a - b /\ at[3] = 0 - a - b - c
  BY <1>4, <1>6, <1>10, <1>12, <1>18, <1>19, <1>20, <1>21, <1>22 DEF OneMore
<1>14. CASE op = "relu"
  <2>1. a = 4096 /\ b = 8192 /\ c = 294912
    BY <1>1, <1>5, <1>14, ReluPlaces DEF KernelSizes
  <2>2. at[3] = -307200
    BY <1>13, <2>1
  <2>3. Activations["relu"].cap[3] = -307200
    BY ReluPlaces
  <2>4. QED
    BY <1>1, <1>12, <1>14, <2>2, <2>3, RoleNumbers DEF InPlace
<1>15. CASE op = "tanh"
  <2>1. a = 4096 /\ b = 20480 /\ c = 393216
    BY <1>1, <1>5, <1>15, TanhPlaces DEF KernelSizes
  <2>2. at[1] = -4096 /\ at[2] = -24576 /\ at[3] = -417792
    BY <1>13, <2>1
  <2>3. /\ Activations["tanh"].cap[1] = -4096 /\ Activations["tanh"].cap[2] = -24576
        /\ Activations["tanh"].cap[3] = -417792
    BY TanhPlaces
  <2>4. QED
    BY <1>1, <1>12, <1>15, <2>2, <2>3, RoleNumbers DEF InPlace
<1>16. QED
  BY <1>14, <1>15, CapturedAre

(***************************************************************************)
(* Heap steps.                                                             *)
(***************************************************************************)
LEMMA NewIdIs ==
    ASSUME calls \in 0 .. MaxCalls, calls < MaxCalls, NEW m, DOMAIN m \subseteq 1 .. calls
    PROVE  NewId(m) \in 1 .. calls + 1 /\ NewId(m) \notin DOMAIN m
<1> DEFINE S == {i \in 1 .. MaxCalls : i \notin DOMAIN m}
<1>1. calls \in Int /\ MaxCalls \in Int /\ calls + 1 \in 1 .. MaxCalls
  BY BoundAssumption DEF BoundAssumption
<1>2. calls + 1 \in S
  BY <1>1
<1>3. S \in SUBSET Int /\ \A x \in S : 1 <= x
  BY <1>1
<1>4. Min(S) \in S /\ \A y \in S : Min(S) <= y
  <2>1. 1 \in Int
    OBVIOUS
  <2> HIDE DEF S
  <2>2. QED
    BY <1>2, <1>3, <2>1, Lowest
<1>5. NewId(m) = Min(S)
  BY DEF NewId
<1>6. QED
  BY <1>1, <1>2, <1>4, <1>5

\* What an executable's BOs are once it is compiled.
ExeBOs(e) == Regions(exes[e].lo, KernelSizes(exes[e].op))
BufBO(b) == Region(bufs[b].lo, bufs[b].n * HalfBytes)

LEMMA HeldIs ==
    /\ \A e \in DOMAIN exes : ExeBOs(e) \subseteq Held
    /\ \A b \in DOMAIN bufs : BufBO(b) \in Held
    /\ leaked \subseteq Held
    /\ ~Idle => Regions(run.own, add_sz) \subseteq Held
<1>1. ASSUME NEW e \in DOMAIN exes PROVE ExeBOs(e) \subseteq Held
  BY DEF Held, ExeBOs
<1>2. ASSUME NEW b \in DOMAIN bufs PROVE BufBO(b) \in Held
  BY DEF Held, BufBO
<1>3. leaked \subseteq Held
  BY DEF Held
<1>4. ~Idle => Regions(run.own, add_sz) \subseteq Held
  BY DEF Held
<1>5. QED
  BY <1>1, <1>2, <1>3, <1>4

LEMMA OwnBOs ==
    ASSUME NEW op, NEW used, Roomy(used), NEW lo, lo = Create(used, KernelSizes(op))
    PROVE  Laid(op, lo) /\ Roomy(used \cup Regions(lo, KernelSizes(op)))
<1>1. PICK sz, n : sz = KernelSizes(op) /\ n = Places(op)
  OBVIOUS
<1>2. sz \in [1 .. n -> Nat \ {0}] /\ n \in Nat
  BY <1>1, SizesAre
<1>3. Len(sz) = n
  BY <1>2
<1>4. lo \in [1 .. n -> Int] /\ Disjoint(lo, sz) /\ Roomy(used \cup Regions(lo, sz))
  BY <1>1, <1>2, <1>3, CreateFits
<1>5. QED
  BY <1>1, <1>4 DEF Laid

LEMMA HalfBytesIs == HalfBytes = 49152 /\ \A n \in Nat : n * HalfBytes \in Nat
<1>1. HalfBytes = 49152
  BY DEF HalfBytes, ChunkBytes
<1>2. QED
  BY <1>1

\* A map with one more entry.
LEMMA OverIs ==
    ASSUME NEW m, NEW i, i \notin DOMAIN m, NEW v, NEW t, t = Over([j \in {i} |-> v], m)
    PROVE  DOMAIN t = DOMAIN m \cup {i} /\ t[i] = v /\ \A j \in DOMAIN m : t[j] = m[j]
  BY DEF Over

\* Who holds the region q.
Holder(q) == \/ \E e \in DOMAIN exes : q \in ExeBOs(e)
             \/ \E b \in DOMAIN bufs : q = BufBO(b)
             \/ q \in leaked
             \/ ~Idle /\ q \in Regions(run.own, add_sz)

LEMMA HeldHas == \A q : q \in Held <=> Holder(q)
  BY DEF Held, Holder, ExeBOs, BufBO

LEMMA HeldHasThen == \A q : q \in Held' <=> Holder(q)'
  BY DEF Held, Holder, ExeBOs, BufBO

\* Of what is freed, only what was held can leak.
LEMMA FreedIs == ASSUME NEW gone, gone \subseteq Held, Freed(gone) PROVE leaked' \subseteq Held
  BY HeldIs DEF Freed

LEMMA NoRegions == ASSUME NEW sz PROVE Regions(<<>>, sz) = {}
  BY DEF Regions

\* An executable, a buffer as the invariant wants them.
ExeOk(x) == x.op \in Ops /\ IF Captured(x.op) THEN Laid(x.op, x.lo) ELSE x.lo = <<>>
BufOk(b) == b.n \in Nat \ {0}

LEMMA HeapThen ==
    ASSUME HeapInv, calls' \in 0 .. MaxCalls, calls <= calls',
           DOMAIN exes' \subseteq 1 .. calls', DOMAIN bufs' \subseteq 1 .. calls',
           \A e \in DOMAIN exes' : ExeOk(exes'[e]), \A b \in DOMAIN bufs' : BufOk(bufs'[b]),
           NEW all, Roomy(all), \A q : Holder(q)' => q \in all
    PROVE  HeapInv'
<1>1. Held' \subseteq all
  BY HeldHasThen
<1>2. Roomy(Held')
  BY <1>1, RoomyLess
<1>3. QED
  BY <1>2 DEF HeapInv, ExeOk, BufOk

LEMMA HeapNow ==
    ASSUME HeapInv
    PROVE  /\ calls \in 0 .. MaxCalls /\ DOMAIN exes \subseteq 1 .. calls /\ DOMAIN bufs \subseteq 1 .. calls
           /\ \A e \in DOMAIN exes : ExeOk(exes[e])
           /\ \A b \in DOMAIN bufs : BufOk(bufs[b])
           /\ Roomy(Held)
  BY DEF HeapInv, ExeOk, BufOk

LEMMA CountedIs ==
    ASSUME HeapInv, Counted
    PROVE  /\ calls \in 0 .. MaxCalls /\ calls < MaxCalls /\ calls' \in 0 .. MaxCalls /\ calls' = calls + 1
           /\ calls \in Nat /\ calls <= calls'
  BY BoundAssumption DEF HeapInv, Counted, BoundAssumption

LEMMA HeapCompile ==
    ASSUME HeapInv, NEW op \in Ops, Client_Compile(op)
    PROVE  HeapInv'
<1>1. Counted /\ UNCHANGED <<bufs, leaked, run>>
  BY DEF Client_Compile
<1>2. PICK i : i = NewId(exes)
  OBVIOUS
<1>3. PICK lo : lo = IF Captured(op) THEN Create(Held, KernelSizes(op)) ELSE <<>>
  OBVIOUS
<1>4. PICK x : x = [op |-> op, lo |-> lo]
  OBVIOUS
<1>5. exes' = Over([j \in {i} |-> x], exes)
  BY <1>2, <1>3, <1>4 DEF Client_Compile, Compiled
<1>6. i \in 1 .. calls + 1 /\ i \notin DOMAIN exes
  <2>1. calls \in 0 .. MaxCalls /\ calls < MaxCalls
    BY <1>1, CountedIs
  <2>2. DOMAIN exes \subseteq 1 .. calls
    BY HeapNow
  <2>3. QED
    BY <1>2, <2>1, <2>2, NewIdIs
<1>7. DOMAIN exes' = DOMAIN exes \cup {i} /\ exes'[i] = x /\ \A j \in DOMAIN exes : exes'[j] = exes[j]
  BY <1>5, <1>6 DEF Over
<1>8. x.op = op /\ x.lo = lo
  BY <1>4
<1>9. PICK all : all = Held \cup Regions(lo, KernelSizes(op))
  OBVIOUS
<1>10. Roomy(all) /\ (IF Captured(op) THEN Laid(op, lo) ELSE lo = <<>>)
  <2>1. CASE Captured(op)
    BY <1>3, <1>9, <2>1, HeapNow, OwnBOs
  <2>2. CASE ~Captured(op)
    <3>1. lo = <<>> /\ Regions(lo, KernelSizes(op)) = {}
      BY <1>3, <2>2, NoRegions
    <3>2. all = Held
      BY <1>9, <3>1
    <3>3. QED
      BY <2>2, <3>1, <3>2, HeapNow
  <2>3. QED
    BY <2>1, <2>2
<1>11. ExeOk(x)
  BY <1>8, <1>10 DEF ExeOk
<1>12. ASSUME NEW q, Holder(q)' PROVE q \in all
  <2>1. CASE q \in ExeBOs(i)' /\ i \in DOMAIN exes'
    <3>1. q \in Regions(exes'[i].lo, KernelSizes(exes'[i].op))
      BY <2>1 DEF ExeBOs
    <3>2. QED
      BY <1>7, <1>8, <1>9, <3>1
  <2>2. ASSUME NEW e \in DOMAIN exes, q \in ExeBOs(e)' PROVE q \in all
    <3>1. q \in ExeBOs(e)
      BY <1>7, <2>2 DEF ExeBOs
    <3>2. QED
      BY <1>9, <3>1, HeldHas DEF Holder
  <2>3. ASSUME ~\E e \in DOMAIN exes' : q \in ExeBOs(e)' PROVE q \in all
    <3>1. Holder(q)
      BY <1>1, <1>12, <2>3 DEF Holder, BufBO, Idle
    <3>2. QED
      BY <1>9, <3>1, HeldHas
  <2>4. QED
    BY <1>7, <2>1, <2>2, <2>3
<1>13. QED
  <2>1. calls' \in 0 .. MaxCalls /\ calls <= calls'
    BY <1>1, CountedIs
  <2>2. DOMAIN exes' \subseteq 1 .. calls' /\ DOMAIN bufs' \subseteq 1 .. calls'
    <3>1. 1 .. calls + 1 = 1 .. calls' /\ 1 .. calls \subseteq 1 .. calls'
      BY <1>1, CountedIs
    <3>2. QED
      BY <1>1, <1>6, <1>7, <3>1, HeapNow
  <2>3. \A e \in DOMAIN exes' : ExeOk(exes'[e])
    BY <1>7, <1>11, HeapNow
  <2>4. \A b \in DOMAIN bufs' : BufOk(bufs'[b])
    BY <1>1, HeapNow
  <2>5. QED
    BY <1>10, <1>12, <2>1, <2>2, <2>3, <2>4, HeapThen

LEMMA HeapDestroyExe ==
    ASSUME HeapInv, NEW e \in DOMAIN exes, LoadedExecutable_Destroy(e)
    PROVE  HeapInv'
<1>1. exes' = Without(exes, e) /\ UNCHANGED <<bufs, run, calls>> /\ leaked' \subseteq Held
  <2>1. ExeBOs(e) \subseteq Held
    BY HeldIs
  <2>2. exes' = Without(exes, e) /\ UNCHANGED <<bufs, run, calls>> /\ Freed(ExeBOs(e))
    BY DEF LoadedExecutable_Destroy, ExeBOs
  <2>3. QED
    BY <2>1, <2>2, FreedIs
<1>2. DOMAIN exes' \subseteq DOMAIN exes /\ \A j \in DOMAIN exes' : exes'[j] = exes[j]
  BY <1>1 DEF Without
<1>3. ASSUME NEW q, Holder(q)' PROVE q \in Held
  <2>1. ASSUME NEW j \in DOMAIN exes', q \in ExeBOs(j)' PROVE j \in DOMAIN exes /\ q \in ExeBOs(j)
    BY <1>2, <2>1 DEF ExeBOs
  <2>2. Holder(q) \/ q \in leaked'
    BY <1>1, <1>3, <2>1 DEF Holder, BufBO, Idle
  <2>3. QED
    BY <1>1, <2>2, HeldHas
<1>4. QED
  <2>1. calls' \in 0 .. MaxCalls /\ calls <= calls'
    BY <1>1, HeapNow, BoundAssumption DEF BoundAssumption
  <2>2. DOMAIN exes' \subseteq 1 .. calls' /\ DOMAIN bufs' \subseteq 1 .. calls'
    BY <1>1, <1>2, HeapNow
  <2>3. \A j \in DOMAIN exes' : ExeOk(exes'[j])
    BY <1>2, HeapNow
  <2>4. \A b \in DOMAIN bufs' : BufOk(bufs'[b])
    BY <1>1, HeapNow
  <2>5. Roomy(Held)
    BY HeapNow
  <2>6. QED
    BY <1>3, <2>1, <2>2, <2>3, <2>4, <2>5, HeapThen

LEMMA HeapDestroyBuffer ==
    ASSUME HeapInv, NEW b \in DOMAIN bufs, Buffer_Destroy(b)
    PROVE  HeapInv'
<1>1. bufs' = Without(bufs, b) /\ UNCHANGED <<exes, run, calls>> /\ leaked' \subseteq Held
  <2>1. {BufBO(b)} \subseteq Held
    BY HeldIs
  <2>2. bufs' = Without(bufs, b) /\ UNCHANGED <<exes, run, calls>> /\ Freed({BufBO(b)})
    BY DEF Buffer_Destroy, BufBO
  <2>3. QED
    BY <2>1, <2>2, FreedIs
<1>2. DOMAIN bufs' \subseteq DOMAIN bufs /\ \A j \in DOMAIN bufs' : bufs'[j] = bufs[j]
  BY <1>1 DEF Without
<1>3. ASSUME NEW q, Holder(q)' PROVE q \in Held
  <2>1. ASSUME NEW j \in DOMAIN bufs', q = BufBO(j)' PROVE j \in DOMAIN bufs /\ q = BufBO(j)
    BY <1>2, <2>1 DEF BufBO
  <2>2. Holder(q) \/ q \in leaked'
    BY <1>1, <1>3, <2>1 DEF Holder, ExeBOs, Idle
  <2>3. QED
    BY <1>1, <2>2, HeldHas
<1>4. QED
  <2>1. calls' \in 0 .. MaxCalls /\ calls <= calls'
    BY <1>1, HeapNow, BoundAssumption DEF BoundAssumption
  <2>2. DOMAIN exes' \subseteq 1 .. calls' /\ DOMAIN bufs' \subseteq 1 .. calls'
    BY <1>1, <1>2, HeapNow
  <2>3. \A j \in DOMAIN exes' : ExeOk(exes'[j])
    BY <1>1, HeapNow
  <2>4. \A j \in DOMAIN bufs' : BufOk(bufs'[j])
    BY <1>2, HeapNow
  <2>5. Roomy(Held)
    BY HeapNow
  <2>6. QED
    BY <1>3, <2>1, <2>2, <2>3, <2>4, <2>5, HeapThen

\* What a new buffer adds.
Added(used, n, of, i, lo, size) ==
    /\ i \in 1 .. calls' /\ i \notin DOMAIN bufs /\ Roomy(used \cup {Region(lo, size)})
    /\ DOMAIN bufs' = DOMAIN bufs \cup {i}
    /\ bufs'[i] = [lo |-> lo, n |-> n, of |-> of] /\ size = n * HalfBytes
    /\ \A j \in DOMAIN bufs : bufs'[j] = bufs[j]

LEMMA NewBufferIs ==
    ASSUME HeapInv, Counted, NEW used, Roomy(used), NEW n \in Nat \ {0}, NEW of, NewBuffer(used, n, of)
    PROVE  \E i, lo, size : Added(used, n, of, i, lo, size)
<1>1. PICK i : i = NewId(bufs)
  OBVIOUS
<1>2. PICK size : size = n * HalfBytes
  OBVIOUS
<1>3. PICK lo : lo = Gap(used, size)
  OBVIOUS
<1>4. PICK x : x = [lo |-> lo, n |-> n, of |-> of]
  OBVIOUS
<1>5. bufs' = Over([j \in {i} |-> x], bufs)
  BY <1>1, <1>2, <1>3, <1>4 DEF NewBuffer
<1>6. i \in 1 .. calls' /\ i \notin DOMAIN bufs
  <2>1. calls \in 0 .. MaxCalls /\ calls < MaxCalls /\ calls' = calls + 1
    BY CountedIs
  <2>2. DOMAIN bufs \subseteq 1 .. calls
    BY HeapNow
  <2>3. i \in 1 .. calls + 1 /\ i \notin DOMAIN bufs
    BY <1>1, <2>1, <2>2, NewIdIs
  <2>4. QED
    BY <2>1, <2>3
<1>7. DOMAIN bufs' = DOMAIN bufs \cup {i} /\ bufs'[i] = x /\ \A j \in DOMAIN bufs : bufs'[j] = bufs[j]
  BY <1>5, <1>6 DEF Over
<1>8. size \in Nat
  BY <1>2, HalfBytesIs
<1>9. Roomy(used \cup {Region(lo, size)})
  BY <1>3, <1>8, GapFits
<1>10. Added(used, n, of, i, lo, size)
  BY <1>2, <1>4, <1>6, <1>7, <1>9 DEF Added
<1>11. QED
  BY <1>10

LEMMA HeapNewBuffer ==
    ASSUME HeapInv, Counted, NEW used, Roomy(used), NEW n \in Nat \ {0}, NEW of, NewBuffer(used, n, of),
           exes' = exes, \A q : q \in leaked' \/ (~Idle' /\ q \in Regions(run'.own, add_sz)) => q \in used,
           Held \subseteq used
    PROVE  HeapInv'
<1>1. PICK i, lo, size : Added(used, n, of, i, lo, size)
  BY NewBufferIs
<1>11. /\ i \in 1 .. calls' /\ i \notin DOMAIN bufs /\ Roomy(used \cup {Region(lo, size)})
       /\ DOMAIN bufs' = DOMAIN bufs \cup {i}
       /\ bufs'[i] = [lo |-> lo, n |-> n, of |-> of] /\ size = n * HalfBytes
       /\ \A j \in DOMAIN bufs : bufs'[j] = bufs[j]
  BY <1>1 DEF Added
<1>2. BufOk(bufs'[i]) /\ BufBO(i)' = Region(lo, size)
  BY <1>11 DEF BufOk, BufBO
<1>3. PICK all : all = used \cup {Region(lo, size)}
  OBVIOUS
<1>4. ASSUME NEW q, Holder(q)' PROVE q \in all
  <2>1. ASSUME NEW e \in DOMAIN exes', q \in ExeBOs(e)' PROVE q \in all
    <3>1. e \in DOMAIN exes /\ q \in ExeBOs(e)
      BY <2>1 DEF ExeBOs
    <3>2. QED
      BY <1>3, <3>1, HeldHas DEF Holder
  <2>2. ASSUME NEW j \in DOMAIN bufs', q = BufBO(j)' PROVE q \in all
    <3>1. CASE j = i
      BY <1>2, <1>3, <2>2, <3>1
    <3>2. CASE j \in DOMAIN bufs
      <4>1. q = BufBO(j)
        BY <1>11, <2>2, <3>2 DEF BufBO
      <4>2. QED
        BY <1>3, <3>2, <4>1, HeldHas DEF Holder
    <3>3. QED
      BY <1>11, <2>2, <3>1, <3>2
  <2>3. QED
    BY <1>3, <1>4, <2>1, <2>2 DEF Holder
<1>5. calls' \in 0 .. MaxCalls /\ calls <= calls'
  BY CountedIs
<1>6. 1 .. calls \subseteq 1 .. calls'
  BY CountedIs
<1>7. DOMAIN exes' \subseteq 1 .. calls' /\ DOMAIN bufs' \subseteq 1 .. calls'
  BY <1>11, <1>6, HeapNow
<1>8. \A j \in DOMAIN exes' : ExeOk(exes'[j])
  BY HeapNow
<1>9. \A j \in DOMAIN bufs' : BufOk(bufs'[j])
  BY <1>11, <1>2, HeapNow
<1>10. QED
  BY <1>11, <1>3, <1>4, <1>5, <1>7, <1>8, <1>9, HeapThen

LEMMA HeapFromHost ==
    ASSUME HeapInv, NEW x \in Inputs, BufferFromHostBuffer(x)
    PROVE  HeapInv'
<1>1. Idle /\ Counted /\ NewBuffer(Held, x.n, x.of) /\ UNCHANGED <<exes, leaked, run>>
  BY DEF BufferFromHostBuffer
<1>2. x.n \in Nat \ {0}
  BY BoundAssumption DEF BoundAssumption
<1>3. Roomy(Held)
  BY HeapNow
<1>4. \A q : q \in leaked' \/ (~Idle' /\ q \in Regions(run'.own, add_sz)) => q \in Held
  BY <1>1, HeldHas DEF Holder, Idle
<1>5. QED
  BY <1>1, <1>2, <1>3, <1>4, HeapNewBuffer

\* The call in progress as Execute begins it.
Begun(e, ins, own) ==
    /\ run' = [exe |-> e, op |-> exes[e].op, ins |-> ins, own |-> own,
               lo |-> IF Captured(exes[e].op) THEN exes[e].lo ELSE own,
               n |-> bufs[ins[1]].n, chunk |-> 1, submit |-> 1, sent |-> FALSE, halves |-> <<>>]
    /\ own = IF Captured(exes[e].op) THEN <<>> ELSE Create(Held, add_sz)
    /\ Roomy(Held \cup Regions(own, add_sz))
    /\ Laid(exes[e].op, IF Captured(exes[e].op) THEN exes[e].lo ELSE own)
    /\ NewBuffer(Held \cup Regions(own, add_sz), bufs[ins[1]].n, Output)

LEMMA ExecuteBegins ==
    ASSUME HeapInv, NEW e \in DOMAIN exes, NEW ins, Execute(e, ins)
    PROVE  \E own : Begun(e, ins, own)
<1>1. PICK op : op = exes[e].op
  OBVIOUS
<1>2. PICK own : own = IF Captured(op) THEN <<>> ELSE Create(Held, add_sz)
  OBVIOUS
<1>3. Roomy(Held) /\ ExeOk(exes[e])
  BY HeapNow
<1>4. Roomy(Held \cup Regions(own, add_sz)) /\ Laid(op, IF Captured(op) THEN exes[e].lo ELSE own)
  <2>1. CASE Captured(op)
    <3>1. Regions(own, add_sz) = {}
      BY <1>2, <2>1, NoRegions
    <3>2. Held \cup Regions(own, add_sz) = Held
      BY <3>1
    <3>3. QED
      BY <1>1, <1>3, <2>1, <3>2 DEF ExeOk
  <2>2. CASE ~Captured(op)
    <3>1. KernelSizes(op) = add_sz
      BY <2>2 DEF KernelSizes
    <3>2. own = Create(Held, KernelSizes(op))
      BY <1>2, <2>2, <3>1
    <3>3. QED
      BY <1>3, <2>2, <3>1, <3>2, OwnBOs
  <2>3. QED
    BY <2>1, <2>2
<1>5. Begun(e, ins, own)
  BY <1>1, <1>2, <1>4 DEF Begun, Execute
<1>6. QED
  BY <1>5

LEMMA HeapExecute ==
    ASSUME HeapInv, NEW e \in DOMAIN exes, NEW ins, Execute(e, ins), ins[1] \in DOMAIN bufs
    PROVE  HeapInv'
<1>1. PICK own : Begun(e, ins, own)
  BY ExecuteBegins
<1>2. PICK used : used = Held \cup Regions(own, add_sz)
  OBVIOUS
<1>3. PICK n : n = bufs[ins[1]].n
  OBVIOUS
<1>4. n \in Nat \ {0}
  BY <1>3, HeapNow DEF BufOk
<1>5. Idle /\ Counted /\ exes' = exes /\ leaked' = leaked
  BY DEF Execute
<1>6. Roomy(used) /\ NewBuffer(used, n, Output) /\ run'.own = own
  BY <1>1, <1>2, <1>3 DEF Begun
<1>7. \A q : q \in leaked' \/ (~Idle' /\ q \in Regions(run'.own, add_sz)) => q \in used
  BY <1>2, <1>5, <1>6, HeldHas DEF Holder
<1>8. Held \subseteq used
  BY <1>2
<1>9. QED
  BY <1>4, <1>5, <1>6, <1>7, <1>8, HeapNewBuffer

\* The first k BOs of a binary operation are made where they fit.
LEMMA SomeBOs ==
    ASSUME NEW used, Roomy(used), NEW k \in 0 .. 5, NEW sz, sz = SubSeq(add_sz, 1, k)
    PROVE  Roomy(used \cup Regions(Create(used, sz), sz))
<1>1. sz \in [1 .. k -> Nat \ {0}] /\ Len(sz) = k
  <2>1. add_sz = <<4096, 8192, 393216, 98304, 98304, 98304>>
    BY DEF add_sz, ChunkBytes
  <2>2. add_sz \in Seq(Nat \ {0}) /\ Len(add_sz) = 6
    BY <2>1
  <2>3. \A i \in 1 .. k : add_sz[i] \in Nat \ {0}
    <3>1. \A i \in 1 .. 6 : add_sz[i] \in Nat \ {0}
      BY <2>2, ElementOfSeq
    <3>2. \A i \in 1 .. k : i \in 1 .. 6
      OBVIOUS
    <3>3. QED
      BY <3>1, <3>2
  <2>4. SubSeq(add_sz, 1, k) \in Seq(Nat \ {0})
        /\ Len(SubSeq(add_sz, 1, k)) = IF 1 <= k THEN k - 1 + 1 ELSE 0
    BY <2>3, SubSeqProperties
  <2>5. Len(sz) = k
    BY <2>4
  <2>6. sz \in Seq(Nat \ {0})
    BY <2>4
  <2>7. sz \in [1 .. Len(sz) -> Nat \ {0}]
    BY <2>6, LenProperties
  <2>8. QED
    BY <2>5, <2>7
<1>2. PICK lo : lo = Create(used, sz)
  OBVIOUS
<1>3. k \in Nat
  OBVIOUS
<1>4. Roomy(used \cup Regions(lo, sz))
  BY <1>1, <1>2, <1>3, CreateFits
<1>5. QED
  BY <1>2, <1>4

LEMMA HeapExecuteFails ==
    ASSUME HeapInv, NEW e \in DOMAIN exes, NEW k \in FailAt, ExecuteFails(e, k)
    PROVE  HeapInv'
<1>1. Idle /\ Counted /\ UNCHANGED <<exes, bufs, run>>
  BY DEF ExecuteFails
<1>2. PICK op : op = exes[e].op
  OBVIOUS
<1>3. Roomy(Held)
  BY HeapNow
<1>4. PICK sz : sz = SubSeq(add_sz, 1, k)
  OBVIOUS
<1>5. PICK made : made = IF Captured(op) THEN <<>> ELSE add_sz
  OBVIOUS
<1>6. PICK bos : bos = Regions(Create(Held, made), made)
  OBVIOUS
<1>7. leaked' = leaked \cup Regions(Create(Held, sz), sz) \/ Freed(bos)
  BY <1>2, <1>4, <1>5, <1>6 DEF ExecuteFails
<1>8. \E all : Roomy(all) /\ Held \subseteq all /\ leaked' \subseteq all
  <2>1. CASE leaked' = leaked \cup Regions(Create(Held, sz), sz)
    <3>1. k \in 0 .. 5
      BY BoundAssumption DEF BoundAssumption
    <3>2. Roomy(Held \cup Regions(Create(Held, sz), sz))
      BY <1>3, <1>4, <3>1, SomeBOs
    <3>3. leaked \subseteq Held
      BY HeldIs
    <3>4. QED
      BY <2>1, <3>2, <3>3
  <2>2. CASE Freed(bos)
    <3>1. leaked' \subseteq Held \cup bos
      BY <2>2, HeldIs DEF Freed
    <3>2. Roomy(Held \cup bos)
      <4>1. CASE Captured(op)
        <5>1. made = <<>>
          BY <1>5, <4>1
        <5>2. PICK none, n : none = <<>> /\ n = 0
          OBVIOUS
        <5>3. none \in [1 .. n -> Nat \ {0}] /\ Len(none) = n /\ n \in Nat
          BY <5>2
        <5>4. PICK lo : lo = Create(Held, none)
          OBVIOUS
        <5>5. Roomy(Held \cup Regions(lo, none))
          BY <1>3, <5>3, <5>4, CreateFits
        <5>6. QED
          BY <1>6, <5>1, <5>2, <5>4, <5>5
      <4>2. CASE ~Captured(op)
        <5>1. made = KernelSizes(op)
          BY <1>5, <4>2 DEF KernelSizes
        <5>2. PICK lo : lo = Create(Held, KernelSizes(op))
          OBVIOUS
        <5>3. Roomy(Held \cup Regions(lo, KernelSizes(op)))
          BY <1>3, <5>2, OwnBOs
        <5>4. QED
          BY <1>6, <5>1, <5>2, <5>3
      <4>3. QED
        BY <4>1, <4>2
    <3>3. QED
      BY <3>1, <3>2
  <2>3. QED
    BY <1>7, <2>1, <2>2
<1>9. PICK all : Roomy(all) /\ Held \subseteq all /\ leaked' \subseteq all
  BY <1>8
<1>10. ASSUME NEW q, Holder(q)' PROVE q \in all
  <2>1. Holder(q) \/ q \in leaked'
    BY <1>1, <1>10 DEF Holder, BufBO, ExeBOs, Idle
  <2>2. QED
    BY <1>9, <2>1, HeldHas
<1>11. calls' \in 0 .. MaxCalls /\ calls <= calls' /\ 1 .. calls \subseteq 1 .. calls'
  BY <1>1, CountedIs
<1>12. DOMAIN exes' \subseteq 1 .. calls' /\ DOMAIN bufs' \subseteq 1 .. calls'
  BY <1>1, <1>11, HeapNow
<1>13. (\A j \in DOMAIN exes' : ExeOk(exes'[j])) /\ (\A j \in DOMAIN bufs' : BufOk(bufs'[j]))
  BY <1>1, HeapNow
<1>14. QED
  BY <1>9, <1>10, <1>11, <1>12, <1>13, HeapThen

\* The steps of a call that make no BO.
LEMMA HeapKeep ==
    ASSUME HeapInv, UNCHANGED <<exes, bufs, calls>>, leaked' \subseteq Held,
           ~Idle' => ~Idle /\ run'.own = run.own
    PROVE  HeapInv'
<1>1. UNCHANGED <<exes, bufs, calls>>
  OBVIOUS
<1>2. ASSUME NEW q, Holder(q)' PROVE q \in Held
  <2>1. Holder(q) \/ q \in leaked'
    BY <1>1, <1>2 DEF Holder, BufBO, ExeBOs
  <2>2. QED
    BY <2>1, HeldHas
<1>3. calls' \in 0 .. MaxCalls /\ calls <= calls'
  BY <1>1, HeapNow, BoundAssumption DEF BoundAssumption
<1>4. DOMAIN exes' \subseteq 1 .. calls' /\ DOMAIN bufs' \subseteq 1 .. calls'
  BY <1>1, HeapNow
<1>5. (\A j \in DOMAIN exes' : ExeOk(exes'[j])) /\ (\A j \in DOMAIN bufs' : BufOk(bufs'[j]))
  BY <1>1, HeapNow
<1>6. Roomy(Held)
  BY HeapNow
<1>7. QED
  BY <1>2, <1>3, <1>4, <1>5, <1>6, HeapThen

\* A step that leaves the heap as it is leaks nothing new.
LEMMA HeapStays == ASSUME UNCHANGED heap PROVE UNCHANGED <<exes, bufs>> /\ leaked' \subseteq Held
<1>1. UNCHANGED <<exes, bufs, leaked>>
  BY DEF heap
<1>2. QED
  BY <1>1, HeldIs

\* The end of a call frees its kernel BOs.
LEMMA EndLeaks == ASSUME ~Idle, Freed(Regions(run.own, add_sz)) PROVE leaked' \subseteq Held
  BY HeldIs, FreedIs

(****************************************************************************)
(* The call: what each step does to it, its patch and the NPU.               *)
(****************************************************************************)

\* Nothing is running: the other parts of the invariant say nothing.
CallParts == CallInv /\ PatchInv /\ NpuInv /\ DataInv /\ AnswerInv

LEMMA IdleAnswers ==
    ASSUME Idle', rc' = <<>>, answer'.op \in {"none", "failed"}
    PROVE  CallParts'
<1>1. CallInv' /\ PatchInv' /\ NpuInv' /\ DataInv'
  BY DEF CallInv, PatchInv, NpuInv, DataInv
<1>2. answer'.op \notin Ops
  BY BoundAssumption DEF BoundAssumption
<1>3. AnswerInv'
  BY <1>2 DEF AnswerInv, ResultRight
<1>4. QED
  BY <1>1, <1>3 DEF CallParts

LEMMA IdleStays ==
    ASSUME Idle, CallParts, run' = run, rc' = rc, answer' = NoAnswer \/ answer' = Failed
    PROVE  CallParts'
<1>1. rc = <<>>
  BY DEF CallParts, PatchInv
<1>2. Idle'
  BY DEF Idle
<1>3. answer'.op \in {"none", "failed"}
  BY DEF NoAnswer, Failed
<1>4. QED
  BY <1>1, <1>2, <1>3, IdleAnswers

\* The fields of the call in progress.
Call(r) == [exe |-> r.exe, op |-> r.op, ins |-> r.ins, own |-> r.own, lo |-> r.lo, n |-> r.n,
            chunk |-> r.chunk, submit |-> r.submit, sent |-> r.sent, halves |-> r.halves]

LEMMA FirstChunk == ASSUME NEW n \in Nat \ {0} PROVE 1 \in 1 .. Chunks(n)
  BY DEF Chunks

LEMMA BegunIs ==
    ASSUME NEW e, NEW ins, NEW own, Begun(e, ins, own)
    PROVE  /\ run' = Call(run') /\ run'.exe = e /\ run'.op = exes[e].op /\ run'.ins = ins /\ run'.own = own
           /\ run'.lo = (IF Captured(exes[e].op) THEN exes[e].lo ELSE own) /\ run'.n = bufs[ins[1]].n
           /\ run'.chunk = 1 /\ run'.submit = 1 /\ run'.sent = FALSE /\ run'.halves = <<>>
           /\ Laid(run'.op, run'.lo)
  BY DEF Begun, Call

LEMMA ExecuteCall ==
    ASSUME HeapInv, NEW e \in DOMAIN exes, NEW k \in {1, 2}, NEW ins, ins \in [1 .. k -> DOMAIN bufs],
           Len(ins) = k, Execute(e, ins)
    PROVE  CallParts'
<1>1. PICK own : Begun(e, ins, own)
  BY ExecuteBegins
<1>2. PICK op : op = exes[e].op
  OBVIOUS
<1>3. PICK n : n = bufs[ins[1]].n
  OBVIOUS
<1>4. ins[1] \in DOMAIN bufs
  OBVIOUS
<1>5. n \in Nat \ {0}
  BY <1>3, <1>4, HeapNow DEF BufOk
<1>6. /\ run' = Call(run') /\ run'.exe = e /\ run'.op = op /\ run'.ins = ins /\ run'.own = own
      /\ run'.n = n /\ run'.chunk = 1 /\ run'.submit = 1 /\ run'.sent = FALSE /\ run'.halves = <<>>
      /\ Laid(run'.op, run'.lo)
  <2>1. /\ run' = Call(run') /\ run'.exe = e /\ run'.op = exes[e].op /\ run'.ins = ins /\ run'.own = own
        /\ run'.n = bufs[ins[1]].n /\ run'.chunk = 1 /\ run'.submit = 1 /\ run'.sent = FALSE
        /\ run'.halves = <<>> /\ Laid(run'.op, run'.lo)
    BY <1>1, BegunIs
  <2>2. QED
    BY <1>2, <1>3, <2>1
<1>7. exes' = exes /\ Counted /\ Len(ins) = (IF Captured(op) THEN 1 ELSE 2)
      /\ \A i \in DOMAIN ins : bufs[ins[i]].n = n
  BY <1>2, <1>3 DEF Execute
<1>8. DOMAIN bufs \subseteq DOMAIN bufs' /\ \A j \in DOMAIN bufs : bufs'[j] = bufs[j]
  <2>1. PICK used : used = Held \cup Regions(own, add_sz)
    OBVIOUS
  <2>2. Roomy(used) /\ NewBuffer(used, n, Output)
    BY <1>1, <1>3, <2>1 DEF Begun
  <2>3. PICK i, lo, size : Added(used, n, Output, i, lo, size)
    BY <1>5, <1>7, <2>2, NewBufferIs
  <2>4. QED
    BY <2>3 DEF Added
<1>9. CallInv'
  <2>1. run'.ins \in [1 .. IF Captured(run'.op) THEN 1 ELSE 2 -> DOMAIN bufs']
    BY <1>6, <1>7, <1>8
  <2>2. \A i \in DOMAIN run'.ins : bufs'[run'.ins[i]].n = run'.n
    BY <1>6, <1>7, <1>8
  <2>3. run'.chunk \in 1 .. Chunks(run'.n)
    BY <1>5, <1>6, FirstChunk
  <2>4. run'.submit \in 1 .. Len(Submits(run'.op))
    <3>1. Len(Submits(run'.op)) \in Nat \ {0}
      BY SubmitsFit
    <3>2. QED
      BY <1>6, <3>1
  <2>5. run'.exe \in DOMAIN exes' /\ run'.op = exes'[run'.exe].op
    BY <1>2, <1>6, <1>7
  <2>6. run'.n \in Nat \ {0} /\ run'.sent \in BOOLEAN
    BY <1>5, <1>6
  <2>7. QED
    BY <1>6, <2>1, <2>2, <2>3, <2>4, <2>5, <2>6 DEF CallInv, Call
<1>10. PatchInv'
  <2>1. CASE Captured(op)
    <3>1. rc' = <<>>
      BY <1>2, <2>1 DEF Execute
    <3>2. QED
      BY <1>6, <2>1, <3>1 DEF PatchInv
  <2>2. CASE ~Captured(op)
    <3>1. run'.lo = own
      BY <1>1, <1>2, <2>2, BegunIs
    <3>2. own = Create(Held, add_sz)
      BY <1>1, <1>2, <2>2 DEF Begun
    <3>3. rc' = PatchAdd(op, own) /\ tk' = TaskAdd(own)
      BY <1>2, <2>2, <3>2 DEF Execute
    <3>4. Loaded'
      BY <1>6, <2>2, <3>1, <3>3 DEF Loaded, Commands, Table
    <3>5. ~Idle'
      <4>1. 1 \in DOMAIN Call(run') \/ "op" \in DOMAIN Call(run')
        BY DEF Call
      <4>2. DOMAIN NoRun = {"exe"}
        BY DEF NoRun
      <4>3. DOMAIN Call(run') # {"exe"}
        BY DEF Call
      <4>4. QED
        BY <1>6, <4>2, <4>3 DEF Idle
    <3>6. QED
      BY <3>4, <3>5 DEF PatchInv
  <2>3. QED
    BY <2>1, <2>2
<1>11. NpuInv'
  BY <1>6 DEF NpuInv
<1>12. DataInv'
  <2>1. run'.halves = [i \in 1 .. 2 * (run'.chunk - 1) |-> Half(run'.op, Names(run.ins)', i)]
    <3>1. 1 .. 2 * (run'.chunk - 1) = {}
      BY <1>6
    <3>2. QED
      BY <1>6, <3>1
  <2>2. ~(run'.sent \/ run'.submit > 1)
    BY <1>6
  <2>3. QED
    BY <2>1, <2>2 DEF DataInv
<1>13. AnswerInv'
  <2>1. answer'.op = "none"
    BY DEF Execute, NoAnswer
  <2>2. "none" \notin Ops
    BY BoundAssumption DEF BoundAssumption
  <2>3. QED
    BY <2>1, <2>2 DEF AnswerInv, ResultRight
<1>14. QED
  BY <1>9, <1>10, <1>11, <1>12, <1>13 DEF CallParts

Begins(op, d) == Submits(op)[d].start
Counts(op, d) == Submits(op)[d].count

LEMMA SubmitIs ==
    ASSUME NEW op, NEW d \in 1 .. Len(Submits(op))
    PROVE  /\ Begins(op, d) \in Nat /\ Counts(op, d) \in Nat \ {0} /\ Begins(op, d) + Counts(op, d) <= BlockCount(op)
           /\ d = 1 => Begins(op, d) = 0
           /\ d < Len(Submits(op)) => Begins(op, d + 1) = Begins(op, d) + Counts(op, d)
           /\ d = Len(Submits(op)) => Begins(op, d) + Counts(op, d) = BlockCount(op)
           /\ BlockCount(op) \in {3, 4} /\ Len(Submits(op)) \in Nat \ {0} /\ Blocks(op, d) = Prog(op)
           /\ Captured(op) => Activations[op].task[d] = Activations[op].task[1]
  BY SubmitsFit DEF SubmitFits, Begins, Counts, BlockCount

LEMMA CallNow ==
    ASSUME CallInv, ~Idle
    PROVE  /\ run = Call(run) /\ run.exe \in DOMAIN exes /\ run.op = exes[run.exe].op /\ Laid(run.op, run.lo)
           /\ run.ins \in [1 .. IF Captured(run.op) THEN 1 ELSE 2 -> DOMAIN bufs]
           /\ \A i \in DOMAIN run.ins : bufs[run.ins[i]].n = run.n
           /\ run.n \in Nat \ {0} /\ run.chunk \in 1 .. Chunks(run.n)
           /\ run.submit \in 1 .. Len(Submits(run.op)) /\ run.sent \in BOOLEAN
  BY DEF CallInv, Call

\* The call goes on: these fields stay.
SameCall == /\ run'.exe = run.exe /\ run'.op = run.op /\ run'.lo = run.lo /\ run'.ins = run.ins
            /\ run'.n = run.n /\ run'.own = run.own

LEMMA GoesOn ==
    ASSUME CallInv, ~Idle, exes' = exes, bufs' = bufs, run' = Call(run'), SameCall,
           run'.chunk \in 1 .. Chunks(run.n), run'.submit \in 1 .. Len(Submits(run.op)), run'.sent \in BOOLEAN
    PROVE  CallInv'
<1>1. /\ run.exe \in DOMAIN exes /\ run.op = exes[run.exe].op /\ Laid(run.op, run.lo)
      /\ run.ins \in [1 .. IF Captured(run.op) THEN 1 ELSE 2 -> DOMAIN bufs]
      /\ \A i \in DOMAIN run.ins : bufs[run.ins[i]].n = run.n
      /\ run.n \in Nat \ {0}
  BY CallNow
<1>2. run'.exe \in DOMAIN exes' /\ run'.op = exes'[run'.exe].op /\ Laid(run'.op, run'.lo)
  BY <1>1 DEF SameCall
<1>3. /\ run'.ins \in [1 .. IF Captured(run'.op) THEN 1 ELSE 2 -> DOMAIN bufs']
      /\ \A i \in DOMAIN run'.ins : bufs'[run'.ins[i]].n = run'.n
  BY <1>1 DEF SameCall
<1>4. run'.chunk \in 1 .. Chunks(run'.n) /\ run'.submit \in 1 .. Len(Submits(run'.op)) /\ run'.n \in Nat \ {0}
  BY <1>1 DEF SameCall
<1>5. QED
  BY <1>2, <1>3, <1>4 DEF CallInv, Call

LEMMA DoneIs ==
    Done = Begins(run.op, run.submit) + IF run.sent THEN Counts(run.op, run.submit) - npu.left ELSE 0
  BY DEF Done, Begins, Counts
LEMMA DoneThen ==
    Done' = Begins(run'.op, run'.submit) + IF run'.sent THEN Counts(run'.op, run'.submit) - npu'.left ELSE 0
  BY DEF Done, Begins, Counts

NpuAt(left, at, d) == left > 0 => at = run.lo[REGCMD] + Off(run.op, d)
LEMMA NpuIs ==
    NpuInv <=> (~Idle /\ run.sent => /\ Loaded /\ npu.left \in 0 .. Counts(run.op, run.submit)
                                     /\ npu.left > 0 => npu.at = run.lo[REGCMD] + Off(run.op, Done + 1))
  BY DEF NpuInv, Counts, Off
LEMMA NpuThen ==
    NpuInv' <=> (~Idle' /\ run'.sent =>
                    /\ Loaded' /\ npu'.left \in 0 .. Counts(run'.op, run'.submit)
                    /\ npu'.left > 0 => npu'.at = run'.lo[REGCMD] + Off(run'.op, Done' + 1))
  BY DEF NpuInv, Counts, Off

LEMMA RunRecord ==
    ASSUME run = Call(run)
    PROVE  /\ run = [exe |-> run.exe, op |-> run.op, ins |-> run.ins, own |-> run.own, lo |-> run.lo,
                     n |-> run.n, chunk |-> run.chunk, submit |-> run.submit, sent |-> run.sent,
                     halves |-> run.halves]
           /\ DOMAIN run = {"exe", "op", "ins", "own", "lo", "n", "chunk", "submit", "sent", "halves"}
  BY DEF Call

\* A submit: the program is patched for the BOs of the call, the NPU stands at
\* the first block of the submit.
Sent == /\ SameCall /\ run' = Call(run') /\ run'.chunk = run.chunk /\ run'.submit = run.submit
        /\ run'.sent = TRUE /\ run'.halves = run.halves

LEMMA SubmitSends ==
    ASSUME CallInv, ~Idle, Submit
    PROVE  Sent
<1>1. run' = [run EXCEPT !.sent = TRUE]
  BY DEF Submit
<1>2. run = Call(run)
  BY CallNow
<1>3. QED
  BY <1>1, <1>2, RunRecord DEF Sent, SameCall, Call

LEMMA SubmitLoads ==
    ASSUME CallInv, PatchInv, Submit
    PROVE  Loaded'
<1>1. ~Idle /\ ~run.sent
  BY DEF Submit
<1>2. run'.op = run.op /\ run'.lo = run.lo
  BY <1>1, SubmitSends DEF Sent, SameCall
<1>3. PICK op, lo, d : op = run.op /\ lo = run.lo /\ d = run.submit
  OBVIOUS
<1>4. CASE ~Captured(op)
  <2>1. Loaded
    BY <1>1, <1>3, <1>4 DEF PatchInv
  <2>2. rc' = rc /\ tk' = tk
    BY <1>3, <1>4 DEF Submit
  <2>3. QED
    BY <1>2, <2>1, <2>2 DEF Loaded
<1>5. CASE Captured(op)
  <2>1. d \in 1 .. Len(Submits(op))
    BY <1>1, <1>3, CallNow
  <2>2. Blocks(op, d) = Prog(op) /\ Activations[op].task[d] = Activations[op].task[1]
    BY <1>5, <2>1, SubmitIs
  <2>3. rc' = patch_regcmd_tmpl(Words(op, d), Activations[op].cap, lo, Activations[op].sz)
    BY <1>3, <1>5 DEF Submit
  <2>4. tk' = patch_task_tmpl(Activations[op].task[d], Activations[op].cap, lo, Activations[op].sz)
    BY <1>3, <1>5 DEF Submit
  <2>5. Words(op, d) = [b \in DOMAIN Prog(op) |-> Prog(op)[b].words]
    BY <2>2 DEF Words
  <2>6. rc' = Commands(op, lo)
    BY <1>5, <2>3, <2>5 DEF Commands
  <2>7. tk' = Table(op, lo)
    BY <1>5, <2>2, <2>4 DEF Table
  <2>8. QED
    BY <1>2, <1>3, <2>6, <2>7 DEF Loaded
<1>6. QED
  BY <1>4, <1>5

LEMMA SubmitCall ==
    ASSUME CallInv, PatchInv, NpuInv, npu = [at |-> npu.at, left |-> npu.left, table |-> npu.table], Submit
    PROVE  /\ CallInv' /\ PatchInv' /\ NpuInv'
           /\ Done' = Begins(run.op, run.submit) /\ npu'.table = npu.table
<1>1. ~Idle /\ ~run.sent /\ UNCHANGED <<exes, bufs>>
  BY DEF Submit, heap
<1>2. Sent
  BY <1>1, SubmitSends
<1>3. CallInv'
  BY <1>1, <1>2, CallNow, GoesOn DEF Sent
<1>4. PatchInv'
  <2>1. ~Idle'
    <3>1. DOMAIN NoRun = {"exe"}
      BY DEF NoRun
    <3>2. DOMAIN Call(run') # {"exe"}
      BY DEF Call
    <3>3. QED
      BY <1>2, <3>1, <3>2 DEF Idle, Sent
  <2>2. QED
    BY <2>1, SubmitLoads DEF PatchInv
<1>5. PICK op, lo, d, s : op = run.op /\ lo = run.lo /\ d = run.submit /\ s = Submits(op)[d]
  OBVIOUS
<1>6. npu' = [npu EXCEPT !.at = tk'[s.start + 1], !.left = s.count]
  BY <1>5 DEF Submit
<1>7. npu'.at = tk'[s.start + 1] /\ npu'.left = s.count /\ npu'.table = npu.table
  BY <1>6
<1>8. d \in 1 .. Len(Submits(op)) /\ Laid(op, lo)
  BY <1>1, <1>5, CallNow
<1>9. tk' = Table(op, lo)
  BY <1>2, <1>5, SubmitLoads DEF Loaded, Sent, SameCall
<1>10. npu'.at = lo[REGCMD] + Off(op, s.start + 1)
  BY <1>5, <1>7, <1>8, <1>9, SubmitEntry
<1>11. run'.op = op /\ run'.lo = lo /\ run'.submit = d /\ run'.sent = TRUE
  BY <1>2, <1>5 DEF Sent, SameCall
<1>12. s.start = Begins(op, d) /\ s.count = Counts(op, d)
  BY <1>5 DEF Begins, Counts
<1>13. Begins(op, d) \in Nat /\ Counts(op, d) \in Nat \ {0}
  BY <1>8, SubmitIs
<1>14. Done' = Begins(op, d)
  BY <1>7, <1>11, <1>12, <1>13, DoneThen
<1>15. NpuInv'
  <2>1. npu'.left \in 0 .. Counts(op, d)
    BY <1>7, <1>12, <1>13
  <2>2. npu'.at = lo[REGCMD] + Off(op, Done' + 1)
    BY <1>10, <1>12, <1>14
  <2>3. QED
    BY <1>11, <2>1, <2>2, SubmitLoads, NpuThen
<1>16. QED
  BY <1>3, <1>4, <1>5, <1>7, <1>14, <1>15

LEMMA OffsApart ==
    ASSUME NEW op
    PROVE  /\ 1 .. BlockCount(op) \subseteq DOMAIN Prog(op)
           /\ \A b \in DOMAIN Prog(op) : Off(op, b) \in Nat
           /\ \A a, b \in DOMAIN Prog(op) : Off(op, a) = Off(op, b) => a = b
  BY BlocksApart DEF Off

LEMMA LaidIs ==
    ASSUME NEW op, NEW lo, Laid(op, lo)
    PROVE  /\ lo \in [1 .. Places(op) -> Int] /\ \A r \in 1 .. 5 : lo[r] \in Int
           /\ ~Captured(op) => lo[6] \in Int
           /\ lo[REGCMD] \in Int /\ DOMAIN lo = 1 .. Places(op) /\ Disjoint(lo, KernelSizes(op))
<1>1. lo \in [1 .. Places(op) -> Int] /\ Disjoint(lo, KernelSizes(op))
  BY DEF Laid
<1>2. Places(op) = IF Captured(op) THEN 5 ELSE 6
  BY DEF Places
<1>3. \A r \in 1 .. 5 : r \in 1 .. Places(op)
  BY <1>2
<1>4. ~Captured(op) => 6 \in 1 .. Places(op)
  BY <1>2
<1>5. \A r \in 1 .. Places(op) : lo[r] \in Int
  BY <1>1
<1>6. REGCMD \in 1 .. 5
  BY DEF REGCMD
<1>7. QED
  BY <1>1, <1>3, <1>4, <1>5, <1>6

\* Where the NPU is: the blocks of a chunk run one after the other.
LEMMA CurrentIs ==
    ASSUME CallInv, NpuInv, Running
    PROVE  /\ Done \in Nat /\ Done + 1 \in 1 .. BlockCount(run.op) /\ Current = Done + 1
           /\ Kind = Prog(run.op)[Done + 1].kind /\ Loaded /\ ~Idle
           /\ npu.left \in 1 .. Counts(run.op, run.submit) /\ run.sent
           /\ BlockCount(run.op) \in {3, 4}
<1>1. ~Idle /\ run.sent /\ npu.left > 0
  BY DEF Running
<1>2. PICK op, lo, d : op = run.op /\ lo = run.lo /\ d = run.submit
  OBVIOUS
<1>3. d \in 1 .. Len(Submits(op)) /\ Laid(op, lo)
  BY <1>1, <1>2, CallNow
<1>4. PICK i, c : i = Begins(op, d) /\ c = Counts(op, d)
  OBVIOUS
<1>5. /\ i \in Nat /\ c \in Nat \ {0} /\ i + c <= BlockCount(op)
      /\ BlockCount(op) \in {3, 4} /\ Blocks(op, d) = Prog(op)
  BY <1>3, <1>4, SubmitIs
<1>6. Loaded /\ npu.left \in 0 .. c /\ npu.at = lo[REGCMD] + Off(op, Done + 1)
  BY <1>1, <1>2, <1>4, NpuIs
<1>7. npu.left \in 1 .. c
  BY <1>1, <1>6
<1>8. Done = i + (c - npu.left)
  BY <1>1, <1>2, <1>4, DoneIs
<1>9. Done \in Nat /\ Done + 1 \in 1 .. BlockCount(op)
  BY <1>5, <1>7, <1>8
<1>10. DOMAIN rc = DOMAIN Prog(op)
  BY <1>2, <1>6, CommandsIs DEF Loaded
<1>11. Current = Done + 1
  <2>1. PICK t : t = lo[REGCMD]
    OBVIOUS
  <2>2. t \in Int
    BY <1>3, <2>1, LaidIs
  <2>3. Done + 1 \in DOMAIN Prog(op)
    BY <1>9, OffsApart
  <2>4. \A b \in DOMAIN rc : run.lo[REGCMD] + Blocks(run.op, run.submit)[b].at = npu.at <=> b = Done + 1
    <3>1. ASSUME NEW b \in DOMAIN rc
          PROVE  run.lo[REGCMD] + Blocks(run.op, run.submit)[b].at = npu.at <=> b = Done + 1
      <4>1. run.lo[REGCMD] + Blocks(run.op, run.submit)[b].at = t + Off(op, b)
        BY <1>2, <1>5, <2>1 DEF Off
      <4>2. npu.at = t + Off(op, Done + 1)
        BY <1>6, <2>1
      <4>3. Off(op, b) \in Nat /\ Off(op, Done + 1) \in Nat
        BY <1>10, <2>3, OffsApart
      <4>4. b \in DOMAIN Prog(op) /\ (Off(op, b) = Off(op, Done + 1) => b = Done + 1)
        BY <1>10, <2>3, OffsApart
      <4>5. QED
        BY <2>2, <4>1, <4>2, <4>3, <4>4
    <3>2. QED
      BY <3>1
  <2>5. Done + 1 \in DOMAIN rc
    BY <1>10, <2>3
  <2>6. QED
    BY <2>4, <2>5 DEF Current
<1>12. Kind = Prog(op)[Done + 1].kind
  BY <1>2, <1>5, <1>11 DEF Kind
<1>13. QED
  BY <1>1, <1>2, <1>4, <1>5, <1>6, <1>7, <1>9, <1>11, <1>12

\* The words of the block the NPU is at.
LEMMA CurrentDoes ==
    ASSUME CallInv, NpuInv, Running
    PROVE  /\ Runs(run.op, run.lo, rc[Current], Kind, Steps(run.op, run.lo)[Done + 1])
           /\ Done + 1 < BlockCount(run.op) => Leads(rc[Current], run.lo[REGCMD] + Off(run.op, Done + 1 + 1))
<1>1. PICK op, lo, b : op = run.op /\ lo = run.lo /\ b = Done + 1
  OBVIOUS
<1>2. Laid(op, lo) /\ b \in 1 .. BlockCount(op)
  BY <1>1, CurrentIs, CallNow
<1>3. BlockDoes(op, lo, b)
  BY <1>2, EveryBlock
<1>4. rc = Commands(op, lo) /\ Current = b /\ Kind = Prog(op)[b].kind
  BY <1>1, CurrentIs DEF Loaded
<1>5. QED
  BY <1>1, <1>3, <1>4 DEF BlockDoes, Off

LEMMA NpuCall ==
    ASSUME CallInv, PatchInv, NpuInv, NpuBlock
    PROVE  /\ CallInv' /\ PatchInv' /\ NpuInv' /\ Done' = Done + 1
           /\ npu' = [at |-> npu'.at, left |-> npu'.left, table |-> npu'.table]
<1>1. Running /\ UNCHANGED <<exes, bufs, run, rc, tk>>
  BY DEF NpuBlock, heap
<1>2. /\ Done \in Nat /\ Done + 1 \in 1 .. BlockCount(run.op) /\ Loaded /\ ~Idle
      /\ npu.left \in 1 .. Counts(run.op, run.submit) /\ run.sent /\ BlockCount(run.op) \in {3, 4}
  BY <1>1, CurrentIs
<1>3. CallInv'
  BY <1>1, <1>2, CallNow, GoesOn DEF SameCall
<1>4. ~Idle' /\ Loaded'
  BY <1>1, <1>2 DEF Idle, Loaded
<1>5. PatchInv'
  BY <1>4 DEF PatchInv
<1>6. PICK f : f = rc[Current]
  OBVIOUS
<1>7. /\ npu'.at = (IF "next" \in DOMAIN f THEN f.next ELSE 0) /\ npu'.left = npu.left - 1
      /\ npu' = [at |-> npu'.at, left |-> npu'.left, table |-> npu'.table]
  BY <1>6 DEF NpuBlock
<1>8. PICK op, lo, d : op = run.op /\ lo = run.lo /\ d = run.submit
  OBVIOUS
<1>9. d \in 1 .. Len(Submits(op))
  BY <1>2, <1>8, CallNow
<1>10. PICK i, c : i = Begins(op, d) /\ c = Counts(op, d)
  OBVIOUS
<1>11. i \in Nat /\ c \in Nat \ {0} /\ i + c <= BlockCount(op)
  BY <1>9, <1>10, SubmitIs
<1>12. Done = i + (c - npu.left) /\ Done' = i + (c - npu'.left)
  BY <1>1, <1>2, <1>8, <1>10, DoneIs, DoneThen
<1>13. npu.left \in 1 .. c
  BY <1>2, <1>8, <1>10
<1>14. Done' = Done + 1
  BY <1>7, <1>11, <1>12, <1>13
<1>15. NpuInv'
  <2>1. npu'.left \in 0 .. c
    BY <1>7, <1>11, <1>13
  <2>2. ASSUME npu'.left > 0 PROVE npu'.at = lo[REGCMD] + Off(op, Done' + 1)
    <3>1. Done + 1 < BlockCount(op)
      BY <1>7, <1>8, <1>11, <1>12, <1>13, <1>2, <2>2
    <3>2. Leads(f, lo[REGCMD] + Off(op, Done + 1 + 1))
      BY <1>1, <1>6, <1>8, <3>1, CurrentDoes
    <3>3. QED
      BY <1>7, <1>14, <3>2 DEF Leads
  <2>3. QED
    BY <1>1, <1>4, <1>8, <1>10, <2>1, <2>2, NpuThen
<1>16. QED
  BY <1>3, <1>5, <1>7, <1>14, <1>15

\* A submit returned: the submit after it begins where it ended.
LEMMA ReturnsKeep ==
    ASSUME CallInv, NpuInv, SubmitReturns
    PROVE  /\ ~Idle /\ run.sent /\ npu.left = 0 /\ Loaded /\ UNCHANGED <<exes, bufs, npu, calls>>
           /\ Done = Begins(run.op, run.submit) + Counts(run.op, run.submit)
<1>1. ~Idle /\ run.sent /\ npu.left = 0 /\ UNCHANGED <<exes, bufs, npu, calls>>
  BY DEF SubmitReturns
<1>2. PICK op, d : op = run.op /\ d = run.submit
  OBVIOUS
<1>3. d \in 1 .. Len(Submits(op))
  BY <1>1, <1>2, CallNow
<1>4. Begins(op, d) \in Nat /\ Counts(op, d) \in Nat \ {0}
  BY <1>3, SubmitIs
<1>5. Done = Begins(op, d) + (Counts(op, d) - 0)
  BY <1>1, <1>2, DoneIs
<1>6. Done = Begins(op, d) + Counts(op, d)
  BY <1>4, <1>5
<1>7. Loaded
  BY <1>1, NpuIs
<1>8. QED
  BY <1>1, <1>2, <1>6, <1>7

\* The next submit of the chunk.
Again == /\ SameCall /\ run' = Call(run') /\ run'.chunk = run.chunk /\ run'.submit = run.submit + 1
         /\ run'.sent = FALSE /\ run'.halves = run.halves
         /\ UNCHANGED <<leaked, rc, tk, mem, answer>>
         /\ run.submit < Len(Submits(run.op))

\* What a chunk added to the halves read back.
Valid == Min({2, run.n - 2 * (run.chunk - 1)})
ReadBack == run.halves \o SubSeq(Fetch(run.lo[IF Captured(run.op) THEN OUT ELSE 6]), 1, Valid)

\* The next chunk of the operand.
Onward == /\ SameCall /\ run' = Call(run') /\ run'.chunk = run.chunk + 1 /\ run'.submit = 1
          /\ run'.sent = FALSE /\ run'.halves = ReadBack
          /\ UNCHANGED <<leaked, rc, tk, mem, answer>>
          /\ run.submit = Len(Submits(run.op)) /\ run.chunk < Chunks(run.n)

\* The answer.
Answers == /\ run.submit = Len(Submits(run.op)) /\ run.chunk = Chunks(run.n)
           /\ run' = NoRun /\ rc' = <<>> /\ Freed(Regions(run.own, add_sz))
           /\ answer'.op = run.op /\ answer'.halves = ReadBack /\ answer'.n = run.n
           /\ answer'.of = Names(run.ins) /\ answer'.placed = InPlace(run.op, run.lo)

LEMMA ChunksIs == ASSUME NEW n \in Nat \ {0} PROVE Chunks(n) \in Nat \ {0} /\ 2 * Chunks(n) \in {n, n + 1}
  BY DEF Chunks

LEMMA ReturnsHow ==
    ASSUME CallInv, NpuInv, SubmitReturns
    PROVE  Again \/ Onward \/ Answers
<1>1. ~Idle /\ run.sent
  BY DEF SubmitReturns
<1>2. run = Call(run) /\ run.n \in Nat \ {0} /\ run.chunk \in 1 .. Chunks(run.n)
      /\ run.submit \in 1 .. Len(Submits(run.op))
  BY <1>1, CallNow
<1>3. Len(Submits(run.op)) \in Nat /\ Chunks(run.n) \in Nat
  BY <1>2, ChunksIs, SubmitsFit
<1>4. CASE run.submit < Len(Submits(run.op))
  <2>1. /\ run' = [run EXCEPT !.submit = @ + 1, !.sent = FALSE]
        /\ UNCHANGED <<leaked, rc, tk, mem, answer>>
    BY <1>4 DEF SubmitReturns
  <2>2. run' = Call(run') /\ SameCall /\ run'.chunk = run.chunk /\ run'.submit = run.submit + 1
         /\ run'.sent = FALSE /\ run'.halves = run.halves
    BY <1>2, <2>1, RunRecord DEF SameCall, Call
  <2>3. QED
    BY <1>4, <2>1, <2>2 DEF Again
<1>5. CASE run.submit = Len(Submits(run.op)) /\ run.chunk < Chunks(run.n)
  <2>0. ~(run.submit < Len(Submits(run.op)))
    BY <1>3, <1>5
  <2>1. /\ run' = [run EXCEPT !.submit = 1, !.sent = FALSE, !.chunk = @ + 1, !.halves = ReadBack]
        /\ UNCHANGED <<leaked, rc, tk, mem, answer>>
    BY <1>5, <2>0 DEF SubmitReturns, ReadBack, Valid
  <2>2. run' = Call(run') /\ SameCall /\ run'.chunk = run.chunk + 1 /\ run'.submit = 1
         /\ run'.sent = FALSE /\ run'.halves = ReadBack
    BY <1>2, <2>1, RunRecord DEF SameCall, Call
  <2>3. QED
    BY <1>5, <2>1, <2>2 DEF Onward
<1>6. CASE run.submit = Len(Submits(run.op)) /\ run.chunk = Chunks(run.n)
  <2>0. ~(run.submit < Len(Submits(run.op))) /\ ~(run.chunk < Chunks(run.n))
    BY <1>3, <1>6
  <2>1. Finish([op |-> run.op, halves |-> ReadBack, n |-> run.n, of |-> Names(run.ins),
                placed |-> InPlace(run.op, run.lo)])
        /\ Freed(Regions(run.own, add_sz))
    BY <1>6, <2>0 DEF SubmitReturns, ReadBack, Valid, Names
  <2>2. QED
    BY <1>6, <2>1 DEF Answers, Finish
<1>7. QED
  BY <1>2, <1>3, <1>4, <1>5, <1>6

LEMMA NotIdle == ASSUME run' = Call(run') PROVE ~Idle'
<1>1. DOMAIN NoRun = {"exe"}
  BY DEF NoRun
<1>2. DOMAIN Call(run') # {"exe"}
  BY DEF Call
<1>3. QED
  BY <1>1, <1>2 DEF Idle

LEMMA AgainCall ==
    ASSUME CallInv, NpuInv, SubmitReturns, Again
    PROVE  CallInv' /\ PatchInv' /\ NpuInv' /\ Done' = Done
<1>1. ~Idle /\ run.sent /\ npu.left = 0 /\ Loaded /\ UNCHANGED <<exes, bufs, npu>>
      /\ Done = Begins(run.op, run.submit) + Counts(run.op, run.submit)
  BY ReturnsKeep
<1>2. run.submit \in 1 .. Len(Submits(run.op)) /\ run.chunk \in 1 .. Chunks(run.n)
      /\ Len(Submits(run.op)) \in Nat /\ run.submit < Len(Submits(run.op))
  BY <1>1, CallNow, SubmitsFit DEF Again
<1>3. run.submit + 1 \in 1 .. Len(Submits(run.op))
  BY <1>2
<1>4. CallInv'
  BY <1>1, <1>2, <1>3, GoesOn DEF Again
<1>5. ~Idle' /\ Loaded'
  BY <1>1, NotIdle DEF Again, Loaded, SameCall
<1>6. PatchInv'
  BY <1>5 DEF PatchInv
<1>7. NpuInv'
  BY DEF NpuInv, Again
<1>8. Done' = Done
  <2>1. PICK op, d : op = run.op /\ d = run.submit
    OBVIOUS
  <2>2. Begins(op, d + 1) = Begins(op, d) + Counts(op, d) /\ Begins(op, d) \in Nat /\ Counts(op, d) \in Nat
    BY <1>2, <2>1, SubmitIs
  <2>3. Done' = Begins(op, d + 1) + 0
    BY <2>1, DoneThen DEF Again, SameCall
  <2>4. QED
    BY <1>1, <2>1, <2>2, <2>3
<1>9. QED
  BY <1>4, <1>6, <1>7, <1>8

LEMMA OnwardCall ==
    ASSUME CallInv, NpuInv, SubmitReturns, Onward
    PROVE  CallInv' /\ PatchInv' /\ NpuInv'
<1>1. ~Idle /\ run.sent /\ npu.left = 0 /\ Loaded /\ UNCHANGED <<exes, bufs, npu>>
  BY ReturnsKeep
<1>2. run.chunk \in 1 .. Chunks(run.n) /\ run.n \in Nat \ {0} /\ run.chunk < Chunks(run.n)
  BY <1>1, CallNow DEF Onward
<1>3. run.chunk + 1 \in 1 .. Chunks(run.n)
  BY <1>2, ChunksIs
<1>4. 1 \in 1 .. Len(Submits(run.op))
  BY SubmitsFit
<1>5. CallInv'
  BY <1>1, <1>3, <1>4, GoesOn DEF Onward
<1>6. ~Idle' /\ Loaded'
  BY <1>1, NotIdle DEF Onward, Loaded, SameCall
<1>7. PatchInv'
  BY <1>6 DEF PatchInv
<1>8. NpuInv'
  BY DEF NpuInv, Onward
<1>9. QED
  BY <1>5, <1>7, <1>8

(***************************************************************************)
(* Chunks in memory.                                                       *)
(***************************************************************************)
LEMMA ChunkBytesIs == ChunkBytes = 98304
  BY DEF ChunkBytes

LEMMA FetchHolds == ASSUME NEW a \in Int, NEW x, Holds(mem, a, x) PROVE Fetch(a) = x
<1>1. PICK at : at = {w \in mem : w.at = a}
  OBVIOUS
<1>2. at # {} /\ \A w \in at : w.x = x
  BY <1>1 DEF Holds
<1>3. (CHOOSE w \in at : TRUE) \in at
  BY <1>2
<1>4. Fetch(a) = (CHOOSE w \in at : TRUE).x
  <2>1. Overlaps(a, a)
    BY ChunkBytesIs DEF Overlaps
  <2>2. {w \in mem : Overlaps(w.at, a)} # {}
    BY <1>1, <1>2, <2>1
  <2>3. QED
    BY <1>1, <1>2, <2>2 DEF Fetch
<1>5. QED
  BY <1>2, <1>3, <1>4

LEMMA StoreHolds == ASSUME NEW m, NEW a \in Int, NEW x PROVE Holds(Store(m, a, x), a, x)
<1>1. Overlaps(a, a)
  BY ChunkBytesIs DEF Overlaps
<1>2. PICK e : e = [at |-> a, x |-> x]
  OBVIOUS
<1>3. e.at = a /\ e.x = x
  BY <1>2
<1>4. Store(m, a, x) = {w \in m : ~Overlaps(w.at, a)} \cup {e}
  BY <1>2 DEF Store
<1>5. QED
  BY <1>1, <1>3, <1>4 DEF Holds

LEMMA StoreKeeps ==
    ASSUME NEW m, NEW a \in Int, NEW x, NEW b \in Int, NEW y, Holds(m, b, y), ~Overlaps(b, a)
    PROVE  Holds(Store(m, a, x), b, y)
<1>1. Overlaps(a, a)
  BY ChunkBytesIs DEF Overlaps
<1>2. PICK e : e = [at |-> a, x |-> x]
  OBVIOUS
<1>3. e.at = a /\ e.x = x
  BY <1>2
<1>4. Store(m, a, x) = {w \in m : ~Overlaps(w.at, a)} \cup {e}
  BY <1>2 DEF Store
<1>5. a # b
  BY <1>1
<1>6. \A w \in Store(m, a, x) : w.at = b => w \in m
  BY <1>3, <1>4, <1>5
<1>7. \A w \in m : w.at = b => w \in Store(m, a, x)
  BY <1>4
<1>8. QED
  BY <1>6, <1>7 DEF Holds

\* Where the blocks of each operation read and write.
LEMMA ReluSteps ==
    ASSUME NEW lo
    PROVE  LET s == Steps("relu", lo) IN
           /\ s[1].kind = "reader" /\ s[1].src = lo[4] /\ s[1].dst = Column(lo)
           /\ s[2].kind = "relu" /\ s[2].src = Column(lo) /\ s[2].dst = Column(lo)
           /\ s[3].kind = "writer" /\ s[3].src = Column(lo) /\ s[3].dst = lo[5]
  BY RoleNumbers DEF Steps, Does

LEMMA TanhSteps ==
    ASSUME NEW lo
    PROVE  LET s == Steps("tanh", lo) IN
           /\ s[1].kind = "reader" /\ s[1].src = lo[4] /\ s[1].dst = Column(lo)
           /\ s[2].kind = "table"
           /\ s[3].kind = "lookup" /\ s[3].src = Column(lo) /\ s[3].dst = lo[3]
           /\ s[4].kind = "writer" /\ s[4].src = lo[3] /\ s[4].dst = lo[5]
  BY RoleNumbers DEF Steps, Does

LEMMA BinarySteps ==
    ASSUME NEW op, ~Captured(op), NEW lo
    PROVE  LET s == Steps(op, lo) IN
           /\ s[1].kind = "reader" /\ s[1].src = lo[3] + 98304 /\ s[1].dst = lo[4]
           /\ s[2].kind = "reader" /\ s[2].src = lo[3] + 0 /\ s[2].dst = lo[5]
           /\ s[3].kind = "alu" /\ s[3].src = lo[4] /\ s[3].dst = lo[3] + 196608
           /\ s[4].kind = "writer" /\ s[4].src = lo[3] + 196608 /\ s[4].dst = lo[6]
<1>1. op # "relu" /\ op # "tanh"
  BY CapturedAre
<1>2. SCRATCH = 3 /\ IN1_OFF = 98304 /\ IN2_OFF = 0 /\ RES_OFF = 196608 /\ In1(lo) = lo[4] /\ In2(lo) = lo[5]
      /\ Result(lo) = lo[6]
  BY DEF SCRATCH, IN1_OFF, IN2_OFF, RES_OFF, In1, In2, Result
<1>3. QED
  BY <1>1, <1>2 DEF Steps, Does

\* What is in place after j blocks.
LEMMA ReluStage ==
    ASSUME NEW lo, NEW m, NEW table, NEW j \in {0, 1, 2, 3}, NEW x, NEW y, NEW z, z = Apply("relu", x)
    PROVE  Stage("relu", lo, m, table, j, x, y) <=>
               CASE j = 0 -> Holds(m, lo[4], x) [] j = 1 -> Holds(m, Column(lo), x)
                 [] j = 2 -> Holds(m, Column(lo), z) [] OTHER -> Holds(m, lo[5], z)
<1>1. PICK s : s = Steps("relu", lo)
  OBVIOUS
<1>2. s[1].src = lo[4] /\ s[2].src = Column(lo) /\ s[3].src = Column(lo) /\ s[3].dst = lo[5]
  BY <1>1, ReluSteps
<1>3. Captured("relu") /\ BlockCount("relu") = 3
  BY CapturedAre DEF BlockCount
<1>4. Stage("relu", lo, m, table, j, x, y) <=>
          IF j = 3 THEN Holds(m, s[j].dst, z) ELSE Holds(m, s[j + 1].src, IF j < 2 THEN x ELSE z)
  BY <1>1, <1>3 DEF Stage
<1>5. CASE j = 0
  BY <1>2, <1>4, <1>5
<1>6. CASE j = 1
  BY <1>2, <1>4, <1>6
<1>7. CASE j = 2
  BY <1>2, <1>4, <1>7
<1>8. CASE j = 3
  BY <1>2, <1>4, <1>8
<1>9. QED
  BY <1>5, <1>6, <1>7, <1>8

LEMMA TanhPoints ==
    ASSUME NEW lo, NEW m, NEW table, NEW x, NEW y, NEW z, z = Apply("tanh", x)
    PROVE  /\ Stage("tanh", lo, m, table, 0, x, y) <=> Holds(m, lo[4], x)
           /\ Stage("tanh", lo, m, table, 1, x, y) <=> Holds(m, Column(lo), x)
           /\ Stage("tanh", lo, m, table, 2, x, y) <=> Holds(m, Column(lo), x) /\ table
           /\ Stage("tanh", lo, m, table, 3, x, y) <=> Holds(m, lo[3], z)
           /\ Stage("tanh", lo, m, table, 4, x, y) <=> Holds(m, lo[5], z)
<1>1. PICK s : s = Steps("tanh", lo)
  OBVIOUS
<1>2. s[1].src = lo[4] /\ s[3].src = Column(lo) /\ s[4].src = lo[3] /\ s[4].dst = lo[5]
  BY <1>1, TanhSteps
<1>3. Captured("tanh") /\ BlockCount("tanh") = 4
  BY CapturedAre DEF BlockCount
<1>4. Stage("tanh", lo, m, table, 0, x, y) <=> Holds(m, lo[4], x)
  BY <1>1, <1>2, <1>3 DEF Stage
<1>5. Stage("tanh", lo, m, table, 1, x, y) <=> Holds(m, Column(lo), x)
  BY <1>1, <1>2, <1>3 DEF Stage
<1>6. Stage("tanh", lo, m, table, 2, x, y) <=> Holds(m, Column(lo), x) /\ table
  BY <1>1, <1>2, <1>3 DEF Stage
<1>7. Stage("tanh", lo, m, table, 3, x, y) <=> Holds(m, lo[3], z)
  BY <1>1, <1>2, <1>3 DEF Stage
<1>8. Stage("tanh", lo, m, table, 4, x, y) <=> Holds(m, lo[5], z)
  BY <1>1, <1>2, <1>3 DEF Stage
<1>9. QED
  BY <1>4, <1>5, <1>6, <1>7, <1>8

LEMMA BinaryPoints ==
    ASSUME NEW op, ~Captured(op), NEW lo, NEW m, NEW table, NEW x, NEW y, NEW z, z = Combine(op, x, y)
    PROVE  /\ Stage(op, lo, m, table, 0, x, y) <=> Holds(m, lo[3] + 98304, x) /\ Holds(m, lo[3] + 0, y)
           /\ Stage(op, lo, m, table, 1, x, y) <=> Holds(m, lo[4], x) /\ Holds(m, lo[3] + 0, y)
           /\ Stage(op, lo, m, table, 2, x, y) <=> Holds(m, lo[4], x) /\ Holds(m, lo[5], y)
           /\ Stage(op, lo, m, table, 3, x, y) <=> Holds(m, lo[3] + 196608, z)
           /\ Stage(op, lo, m, table, 4, x, y) <=> Holds(m, lo[6], z)
<1>0. op # "relu" /\ op # "tanh" /\ BlockCount(op) = 4
  BY CapturedAre DEF BlockCount
<1>1. PICK s : s = Steps(op, lo)
  OBVIOUS
<1>2. s[4].dst = lo[6]
  BY <1>1, BinarySteps
<1>3. SCRATCH = 3 /\ IN1_OFF = 98304 /\ IN2_OFF = 0 /\ RES_OFF = 196608 /\ In1(lo) = lo[4] /\ In2(lo) = lo[5]
  BY DEF SCRATCH, IN1_OFF, IN2_OFF, RES_OFF, In1, In2
<1>4. Stage(op, lo, m, table, 0, x, y) <=> Holds(m, lo[3] + 98304, x) /\ Holds(m, lo[3] + 0, y)
  BY <1>0, <1>3 DEF Stage
<1>5. Stage(op, lo, m, table, 1, x, y) <=> Holds(m, lo[4], x) /\ Holds(m, lo[3] + 0, y)
  BY <1>0, <1>3 DEF Stage
<1>6. Stage(op, lo, m, table, 2, x, y) <=> Holds(m, lo[4], x) /\ Holds(m, lo[5], y)
  BY <1>0, <1>3 DEF Stage
<1>7. Stage(op, lo, m, table, 3, x, y) <=> Holds(m, lo[3] + 196608, z)
  BY <1>0, <1>3 DEF Stage
<1>8. Stage(op, lo, m, table, 4, x, y) <=> Holds(m, lo[6], z)
  BY <1>0, <1>1, <1>2 DEF Stage
<1>9. QED
  BY <1>4, <1>5, <1>6, <1>7, <1>8

(****************************************************************************)
(* What a block of the NPU does to the chunk.                                *)
(****************************************************************************)

\* What the block the NPU is at does to memory and to the table.
Effect(s, op, second) ==
    /\ s.kind = "table" => mem' = mem /\ npu'.table
    /\ s.kind # "table" => npu'.table = npu.table
    /\ s.kind \in {"reader", "writer"} => mem' = Store(mem, s.dst, Fetch(s.src))
    /\ s.kind = "relu" => mem' = Store(mem, s.dst, Apply("relu", Fetch(s.src)))
    /\ s.kind = "lookup" /\ npu.table => mem' = Store(mem, s.dst, Apply("tanh", Fetch(s.src)))
    /\ s.kind = "alu" => mem' = Store(mem, s.dst, Combine(op, Fetch(s.src), Fetch(second)))

LEMMA BlockEffect ==
    ASSUME CallInv, NpuInv, NpuBlock, InPlace(run.op, run.lo), NEW s, s = Steps(run.op, run.lo)[Done + 1]
    PROVE  Effect(s, run.op, In2(run.lo))
<1>1. Running
  BY DEF NpuBlock
<1>2. PICK f, kind : f = rc[Current] /\ kind = Kind
  OBVIOUS
<1>3. Runs(run.op, run.lo, f, kind, s)
  BY <1>1, <1>2, CurrentDoes
<1>4. /\ kind = s.kind /\ f.src = s.src /\ f.dst = s.dst
      /\ kind = "reader" => ~Drifts(f)
      /\ kind = "table" => TanhTable(f)
      /\ kind = "lookup" => f.bias = tanh_lookup.words.bias
      /\ kind = "alu" => f.alu = run.op /\ f.src2 = In2(run.lo)
  BY <1>3 DEF Runs
<1>5. /\ npu'.table = (IF kind = "table" THEN TanhTable(f) ELSE npu.table)
      /\ mem' = (IF kind = "table" THEN mem ELSE Store(mem, f.dst, Made(f)))
  BY <1>2 DEF NpuBlock
<1>6. kind = "reader" => Made(f) = Fetch(f.src)
  BY <1>2, <1>4 DEF Made
<1>7. kind = "writer" => Made(f) = Fetch(f.src)
  BY <1>2 DEF Made
<1>8. kind = "relu" => Made(f) = Apply("relu", Fetch(f.src))
  BY <1>2 DEF Made
<1>9. kind = "lookup" /\ npu.table => Made(f) = Apply("tanh", Fetch(f.src))
  BY <1>2, <1>4 DEF Made
<1>10. kind = "alu" => Made(f) = Combine(run.op, Fetch(f.src), Fetch(In2(run.lo)))
  BY <1>2, <1>4 DEF Made
<1>11. kind = "table" => npu'.table
  BY <1>4, <1>5
<1>12. kind # "table" => mem' = Store(mem, s.dst, Made(f))
  BY <1>4, <1>5
<1>13. QED
  BY <1>4, <1>5, <1>6, <1>7, <1>8, <1>9, <1>10, <1>11, <1>12 DEF Effect

LEMMA ColumnIs == ASSUME NEW lo, lo[3] \in Int PROVE Column(lo) = lo[3] + 196608 /\ Column(lo) \in Int
  BY RoleNumbers DEF Column

LEMMA ReluBlock ==
    ASSUME NEW lo, Laid("relu", lo), NEW j \in {0, 1, 2}, NEW s, s = Steps("relu", lo)[j + 1], NEW second,
           Effect(s, "relu", second), NEW x, NEW y, Stage("relu", lo, mem, npu.table, j, x, y)
    PROVE  Stage("relu", lo, mem', npu'.table, j + 1, x, y)
<1>1. PICK z : z = Apply("relu", x)
  OBVIOUS
<1>2. lo[3] \in Int /\ lo[4] \in Int /\ lo[5] \in Int
  BY LaidIs
<1>3. PICK c : c = Column(lo)
  OBVIOUS
<1>4. c \in Int
  BY <1>2, <1>3, ColumnIs
<1>5. CASE j = 0
  <2>1. s.kind = "reader" /\ s.src = lo[4] /\ s.dst = c
    BY <1>3, <1>5, ReluSteps
  <2>2. Holds(mem, lo[4], x)
    BY <1>1, <1>5, ReluStage
  <2>3. mem' = Store(mem, c, x)
    BY <1>2, <2>1, <2>2, FetchHolds DEF Effect
  <2>4. Holds(mem', c, x)
    BY <1>4, <2>3, StoreHolds
  <2>5. QED
    BY <1>1, <1>3, <1>5, <2>4, ReluStage
<1>6. CASE j = 1
  <2>1. s.kind = "relu" /\ s.src = c /\ s.dst = c
    BY <1>3, <1>6, ReluSteps
  <2>2. Holds(mem, c, x)
    BY <1>1, <1>3, <1>6, ReluStage
  <2>3. mem' = Store(mem, c, z)
    BY <1>1, <1>4, <2>1, <2>2, FetchHolds DEF Effect
  <2>4. Holds(mem', c, z)
    BY <1>4, <2>3, StoreHolds
  <2>5. QED
    BY <1>1, <1>3, <1>6, <2>4, ReluStage
<1>7. CASE j = 2
  <2>1. s.kind = "writer" /\ s.src = c /\ s.dst = lo[5]
    BY <1>3, <1>7, ReluSteps
  <2>2. Holds(mem, c, z)
    BY <1>1, <1>3, <1>7, ReluStage
  <2>3. mem' = Store(mem, lo[5], z)
    BY <1>4, <2>1, <2>2, FetchHolds DEF Effect
  <2>4. Holds(mem', lo[5], z)
    BY <1>2, <2>3, StoreHolds
  <2>5. QED
    BY <1>1, <1>7, <2>4, ReluStage
<1>8. QED
  BY <1>5, <1>6, <1>7

LEMMA TanhBlock ==
    ASSUME NEW lo, Laid("tanh", lo), NEW j \in {0, 1, 2, 3}, NEW s, s = Steps("tanh", lo)[j + 1], NEW second,
           Effect(s, "tanh", second), NEW x, NEW y, Stage("tanh", lo, mem, npu.table, j, x, y)
    PROVE  Stage("tanh", lo, mem', npu'.table, j + 1, x, y)
<1>1. PICK z : z = Apply("tanh", x)
  OBVIOUS
<1>2. lo[3] \in Int /\ lo[4] \in Int /\ lo[5] \in Int
  BY LaidIs
<1>3. PICK c : c = Column(lo)
  OBVIOUS
<1>4. c \in Int
  BY <1>2, <1>3, ColumnIs
<1>5. CASE j = 0
  <2>1. s.kind = "reader" /\ s.src = lo[4] /\ s.dst = c
    BY <1>3, <1>5, TanhSteps
  <2>2. Holds(mem, lo[4], x)
    BY <1>1, <1>5, TanhPoints
  <2>3. mem' = Store(mem, c, x)
    BY <1>2, <2>1, <2>2, FetchHolds DEF Effect
  <2>4. Holds(mem', c, x)
    BY <1>4, <2>3, StoreHolds
  <2>5. QED
    BY <1>1, <1>3, <1>5, <2>4, TanhPoints
<1>6. CASE j = 1
  <2>1. s.kind = "table"
    BY <1>6, TanhSteps
  <2>2. Holds(mem, c, x)
    BY <1>1, <1>3, <1>6, TanhPoints
  <2>3. mem' = mem /\ npu'.table
    BY <2>1 DEF Effect
  <2>4. Stage("tanh", lo, mem', npu'.table, 2, x, y)
    BY <1>1, <1>3, <2>2, <2>3, TanhPoints, Zenon
  <2>5. QED
    BY <1>6, <2>4
<1>7. CASE j = 2
  <2>1. s.kind = "lookup" /\ s.src = c /\ s.dst = lo[3]
    BY <1>3, <1>7, TanhSteps
  <2>2. Holds(mem, c, x) /\ npu.table
    BY <1>1, <1>3, <1>7, TanhPoints
  <2>3. mem' = Store(mem, lo[3], z)
    BY <1>1, <1>4, <2>1, <2>2, FetchHolds DEF Effect
  <2>4. Holds(mem', lo[3], z)
    BY <1>2, <2>3, StoreHolds
  <2>5. QED
    BY <1>1, <1>7, <2>4, TanhPoints
<1>8. CASE j = 3
  <2>1. s.kind = "writer" /\ s.src = lo[3] /\ s.dst = lo[5]
    BY <1>8, TanhSteps
  <2>2. Holds(mem, lo[3], z)
    BY <1>1, <1>8, TanhPoints
  <2>3. mem' = Store(mem, lo[5], z)
    BY <1>2, <2>1, <2>2, FetchHolds DEF Effect
  <2>4. Holds(mem', lo[5], z)
    BY <1>2, <2>3, StoreHolds
  <2>5. QED
    BY <1>1, <1>8, <2>4, TanhPoints
<1>9. QED
  BY <1>5, <1>6, <1>7, <1>8

LEMMA BinaryApart ==
    ASSUME NEW op, ~Captured(op), NEW lo, Laid(op, lo), NEW a, a = lo[3] + 0
    PROVE  a \in Int /\ ~Overlaps(a, lo[4]) /\ ~Overlaps(lo[4], lo[5])
<1>1. PICK sz : sz = KernelSizes(op)
  OBVIOUS
<1>2. sz = <<4096, 8192, 393216, 98304, 98304, 98304>>
  BY <1>1, BinarySizes
<1>3. sz[3] = 393216 /\ sz[4] = 98304 /\ sz[5] = 98304
  BY <1>2
<1>4. lo[3] \in Int /\ lo[4] \in Int /\ lo[5] \in Int /\ Disjoint(lo, sz) /\ DOMAIN lo = 1 .. Places(op)
  BY <1>1, LaidIs
<1>5. 3 \in DOMAIN lo /\ 4 \in DOMAIN lo /\ 5 \in DOMAIN lo
  BY <1>4 DEF Places
<1>6. /\ lo[3] + sz[3] <= lo[4] \/ lo[4] + sz[4] <= lo[3]
      /\ lo[4] + sz[4] <= lo[5] \/ lo[5] + sz[5] <= lo[4]
  BY <1>4, <1>5 DEF Disjoint
<1>7. QED
  BY <1>3, <1>4, <1>6, ChunkBytesIs DEF Overlaps

LEMMA BinaryBlock ==
    ASSUME NEW op, ~Captured(op), NEW lo, Laid(op, lo), NEW j \in {0, 1, 2, 3}, NEW s,
           s = Steps(op, lo)[j + 1], Effect(s, op, In2(lo)), NEW x, NEW y,
           Stage(op, lo, mem, npu.table, j, x, y)
    PROVE  Stage(op, lo, mem', npu'.table, j + 1, x, y)
<1>1. PICK z : z = Combine(op, x, y)
  OBVIOUS
<1>2. lo[3] \in Int /\ lo[4] \in Int /\ lo[5] \in Int /\ lo[6] \in Int
  BY LaidIs
<1>30. PICK a : a = lo[3] + 98304
  OBVIOUS
<1>31. PICK b : b = lo[3] + 0
  OBVIOUS
<1>32. PICK c : c = lo[3] + 196608
  OBVIOUS
<1>3. a = lo[3] + 98304 /\ b = lo[3] + 0 /\ c = lo[3] + 196608
  BY <1>30, <1>31, <1>32
<1>4. a \in Int /\ b \in Int /\ c \in Int
  BY <1>2, <1>3
<1>5. ~Overlaps(b, lo[4]) /\ ~Overlaps(lo[4], lo[5])
  BY <1>3, BinaryApart
<1>6. CASE j = 0
  <2>1. s.kind = "reader" /\ s.src = a /\ s.dst = lo[4]
    BY <1>3, <1>6, BinarySteps
  <2>2. Holds(mem, a, x) /\ Holds(mem, b, y)
    BY <1>1, <1>3, <1>6, BinaryPoints
  <2>3. mem' = Store(mem, lo[4], x)
    BY <1>4, <2>1, <2>2, FetchHolds DEF Effect
  <2>4. Holds(mem', lo[4], x) /\ Holds(mem', b, y)
    BY <1>2, <1>4, <1>5, <2>2, <2>3, StoreHolds, StoreKeeps
  <2>5. QED
    BY <1>1, <1>3, <1>6, <2>4, BinaryPoints
<1>7. CASE j = 1
  <2>1. s.kind = "reader" /\ s.src = b /\ s.dst = lo[5]
    BY <1>3, <1>7, BinarySteps
  <2>2. Holds(mem, lo[4], x) /\ Holds(mem, b, y)
    BY <1>1, <1>3, <1>7, BinaryPoints
  <2>3. mem' = Store(mem, lo[5], y)
    BY <1>4, <2>1, <2>2, FetchHolds DEF Effect
  <2>4. Holds(mem', lo[4], x) /\ Holds(mem', lo[5], y)
    BY <1>2, <1>5, <2>2, <2>3, StoreHolds, StoreKeeps
  <2>5. QED
    BY <1>1, <1>7, <2>4, BinaryPoints
<1>8. CASE j = 2
  <2>1. s.kind = "alu" /\ s.src = lo[4] /\ s.dst = c
    BY <1>3, <1>8, BinarySteps
  <2>2. Holds(mem, lo[4], x) /\ Holds(mem, lo[5], y)
    BY <1>1, <1>8, BinaryPoints
  <2>3. Fetch(lo[4]) = x /\ Fetch(lo[5]) = y /\ In2(lo) = lo[5]
    BY <1>2, <2>2, FetchHolds DEF In2
  <2>4. mem' = Store(mem, c, z)
    BY <1>1, <2>1, <2>3 DEF Effect
  <2>5. Holds(mem', c, z)
    BY <1>4, <2>4, StoreHolds
  <2>6. QED
    BY <1>1, <1>3, <1>8, <2>5, BinaryPoints
<1>9. CASE j = 3
  <2>1. s.kind = "writer" /\ s.src = c /\ s.dst = lo[6]
    BY <1>3, <1>9, BinarySteps
  <2>2. Holds(mem, c, z)
    BY <1>1, <1>3, <1>9, BinaryPoints
  <2>3. mem' = Store(mem, lo[6], z)
    BY <1>4, <2>1, <2>2, FetchHolds DEF Effect
  <2>4. Holds(mem', lo[6], z)
    BY <1>2, <2>3, StoreHolds
  <2>5. QED
    BY <1>1, <1>9, <2>4, BinaryPoints
<1>10. QED
  BY <1>6, <1>7, <1>8, <1>9

LEMMA BlockStage ==
    ASSUME CallInv, NpuInv, NpuBlock, InPlace(run.op, run.lo), NEW x, NEW y,
           Stage(run.op, run.lo, mem, npu.table, Done, x, y)
    PROVE  Stage(run.op, run.lo, mem', npu'.table, Done + 1, x, y)
<1>1. Running
  BY DEF NpuBlock
<1>2. PICK op, lo, j : op = run.op /\ lo = run.lo /\ j = Done
  OBVIOUS
<1>3. j \in Nat /\ j + 1 \in 1 .. BlockCount(op) /\ BlockCount(op) \in {3, 4} /\ Laid(op, lo)
  BY <1>1, <1>2, CurrentIs, CallNow
<1>4. PICK s : s = Steps(op, lo)[j + 1]
  OBVIOUS
<1>5. Effect(s, op, In2(lo))
  BY <1>2, <1>4, BlockEffect
<1>6. Stage(op, lo, mem, npu.table, j, x, y)
  BY <1>2
<1>7. CASE op = "relu"
  <2>1. j \in {0, 1, 2}
    BY <1>3, <1>7 DEF BlockCount
  <2>2. /\ Laid("relu", lo) /\ s = Steps("relu", lo)[j + 1] /\ Effect(s, "relu", In2(lo))
        /\ Stage("relu", lo, mem, npu.table, j, x, y)
    BY <1>3, <1>4, <1>5, <1>6, <1>7
  <2>3. Stage("relu", lo, mem', npu'.table, j + 1, x, y)
    BY <2>1, <2>2, ReluBlock
  <2>4. QED
    BY <1>2, <1>7, <2>3
<1>8. CASE op = "tanh"
  <2>1. j \in {0, 1, 2, 3}
    BY <1>3, <1>8
  <2>2. /\ Laid("tanh", lo) /\ s = Steps("tanh", lo)[j + 1] /\ Effect(s, "tanh", In2(lo))
        /\ Stage("tanh", lo, mem, npu.table, j, x, y)
    BY <1>3, <1>4, <1>5, <1>6, <1>8
  <2>3. Stage("tanh", lo, mem', npu'.table, j + 1, x, y)
    BY <2>1, <2>2, TanhBlock
  <2>4. QED
    BY <1>2, <1>8, <2>3
<1>9. CASE ~Captured(op)
  <2>1. j \in {0, 1, 2, 3}
    BY <1>3
  <2>2. QED
    BY <1>2, <1>3, <1>4, <1>5, <1>6, <1>9, <2>1, BinaryBlock
<1>10. QED
  BY <1>7, <1>8, <1>9, CapturedAre

\* A chunk begins with its operands in place.
LEMMA CapturedApart ==
    ASSUME NEW op, Captured(op), NEW lo, Laid(op, lo)
    PROVE  lo[4] \in Int /\ lo[5] \in Int /\ ~Overlaps(lo[4], lo[5]) /\ lo[4] # lo[5]
<1>1. PICK sz : sz = KernelSizes(op)
  OBVIOUS
<1>2. sz[4] = 98304 /\ sz[5] = 98304
  <2>1. CASE op = "relu"
    <3>1. sz = Activations["relu"].sz
      BY <1>1, <2>1, CapturedAre DEF KernelSizes
    <3>2. QED
      BY <3>1, ReluPlaces
  <2>2. CASE op = "tanh"
    <3>1. sz = Activations["tanh"].sz
      BY <1>1, <2>2, CapturedAre DEF KernelSizes
    <3>2. QED
      BY <3>1, TanhPlaces
  <2>3. QED
    BY <2>1, <2>2, CapturedAre
<1>3. lo[4] \in Int /\ lo[5] \in Int /\ Disjoint(lo, sz) /\ DOMAIN lo = 1 .. Places(op)
  BY <1>1, LaidIs
<1>4. 4 \in DOMAIN lo /\ 5 \in DOMAIN lo
  BY <1>3 DEF Places
<1>5. lo[4] + sz[4] <= lo[5] \/ lo[5] + sz[5] <= lo[4]
  BY <1>3, <1>4 DEF Disjoint
<1>6. QED
  BY <1>2, <1>3, <1>5, ChunkBytesIs DEF Overlaps

LEMMA SetUpStage ==
    ASSUME CallInv, ~Idle, NEW x, x = Operand(1, run.chunk), NEW y, y = Second, NEW m, m = ChunkSetUp, NEW table
    PROVE  Stage(run.op, run.lo, m, table, 0, x, y)
<1>1. PICK op, lo : op = run.op /\ lo = run.lo
  OBVIOUS
<1>2. Laid(op, lo)
  BY <1>1, CallNow
<1>3. CASE op = "relu"
  <2>1. Captured(op) /\ Laid("relu", lo)
    BY <1>2, <1>3, CapturedAre
  <2>2. lo[4] \in Int /\ lo[5] \in Int /\ ~Overlaps(lo[4], lo[5])
    BY <1>2, <2>1, CapturedApart
  <2>3. m = Store(Store(mem, lo[4], x), lo[5], Filled(Zero))
    BY <1>1, <1>3, RoleNumbers DEF ChunkSetUp
  <2>4. Holds(m, lo[4], x)
    BY <2>2, <2>3, StoreHolds, StoreKeeps
  <2>5. Stage("relu", lo, m, table, 0, x, y)
    BY <2>4, ReluStage
  <2>6. QED
    BY <1>1, <1>3, <2>5
<1>4. CASE op = "tanh"
  <2>1. Captured(op)
    BY <1>4, CapturedAre
  <2>2. lo[4] # lo[5]
    BY <1>2, <2>1, CapturedApart
  <2>3. m = {[at |-> lo[4], x |-> x], [at |-> lo[5], x |-> Filled(Zero)]}
    BY <1>1, <1>4, RoleNumbers DEF ChunkSetUp
  <2>4. Holds(m, lo[4], x)
    BY <2>2, <2>3 DEF Holds
  <2>5. Stage("tanh", lo, m, table, 0, x, y)
    BY <2>4, TanhPoints
  <2>6. QED
    BY <1>1, <1>4, <2>5
<1>5. CASE ~Captured(op)
  <2>1. op # "relu" /\ op # "tanh"
    BY <1>5, CapturedAre
  <2>2. y = Operand(2, run.chunk)
    BY <1>1, <1>5 DEF Second
  <2>3. PICK a : a = lo[3] + 98304
    OBVIOUS
  <2>4. PICK b : b = lo[3] + 0
    OBVIOUS
  <2>5. run.lo[SCRATCH] + IN1_OFF = a /\ run.lo[SCRATCH] + IN2_OFF = b
    BY <1>1, <2>3, <2>4 DEF SCRATCH, IN1_OFF, IN2_OFF
  <2>6. m = Store(Store(mem, a, x), b, y)
    BY <1>1, <2>1, <2>2, <2>5 DEF ChunkSetUp
  <2>7. a \in Int /\ b \in Int /\ ~Overlaps(a, b)
    BY <1>2, <2>3, <2>4, LaidIs, ChunkBytesIs DEF Overlaps
  <2>8. Holds(m, a, x) /\ Holds(m, b, y)
    BY <2>6, <2>7, StoreHolds, StoreKeeps
  <2>9. Stage(op, lo, m, table, 0, x, y)
    BY <1>5, <2>3, <2>4, <2>8, BinaryPoints
  <2>10. QED
    BY <1>1, <2>9
<1>6. QED
  BY <1>3, <1>4, <1>5, CapturedAre

\* What the call reads back after the last block.
LEMMA FetchResult ==
    ASSUME CallInv, ~Idle, NEW x, NEW y, NEW table, NEW j, j = BlockCount(run.op),
           Stage(run.op, run.lo, mem, table, j, x, y)
    PROVE  Fetch(run.lo[IF Captured(run.op) THEN OUT ELSE 6])
               = IF Captured(run.op) THEN Apply(run.op, x) ELSE Combine(run.op, x, y)
<1>1. PICK op, lo : op = run.op /\ lo = run.lo
  OBVIOUS
<1>2. Laid(op, lo) /\ Stage(op, lo, mem, table, j, x, y)
  BY <1>1, CallNow
<1>3. CASE op = "relu"
  <2>1. Captured(op) /\ j = 3 /\ Stage("relu", lo, mem, table, 3, x, y)
    BY <1>1, <1>2, <1>3, CapturedAre DEF BlockCount
  <2>2. Holds(mem, lo[5], Apply("relu", x))
    BY <2>1, ReluStage
  <2>3. Fetch(lo[5]) = Apply("relu", x)
    BY <1>2, <2>2, LaidIs, FetchHolds
  <2>4. QED
    BY <1>1, <1>3, <2>1, <2>3, RoleNumbers
<1>4. CASE op = "tanh"
  <2>1. Captured(op) /\ j = 4 /\ Stage("tanh", lo, mem, table, 4, x, y)
    BY <1>1, <1>2, <1>4, CapturedAre DEF BlockCount
  <2>2. Holds(mem, lo[5], Apply("tanh", x))
    BY <2>1, TanhPoints
  <2>3. Fetch(lo[5]) = Apply("tanh", x)
    BY <1>2, <2>2, LaidIs, FetchHolds
  <2>4. QED
    BY <1>1, <1>4, <2>1, <2>3, RoleNumbers
<1>5. CASE ~Captured(op)
  <2>1. j = 4 /\ Stage(op, lo, mem, table, 4, x, y)
    BY <1>1, <1>2, <1>5, CapturedAre DEF BlockCount
  <2>2. PICK z : z = Combine(op, x, y)
    OBVIOUS
  <2>3. Holds(mem, lo[6], z)
    BY <1>5, <2>1, <2>2, BinaryPoints
  <2>4. Fetch(lo[6]) = z
    BY <1>2, <1>5, <2>3, LaidIs, FetchHolds
  <2>5. QED
    BY <1>1, <1>5, <2>2, <2>4
<1>6. QED
  BY <1>3, <1>4, <1>5, CapturedAre

\* The halves read back, with those of one more chunk.
LEMMA Extend ==
    ASSUME NEW op, NEW names, NEW p \in Nat, NEW v \in {1, 2}, NEW halves,
           halves = [i \in 1 .. p |-> Half(op, names, i)],
           NEW z, \A i \in 1 .. v : z[i] = Half(op, names, p + i),
           NEW n, n = p + v
    PROVE  halves \o SubSeq(z, 1, v) = [i \in 1 .. n |-> Half(op, names, i)]
<1> DEFINE S == {Half(op, names, i) : i \in Int}
<1>1. halves \in [1 .. p -> S]
  OBVIOUS
<1>2. \A i \in 1 .. v : z[i] \in S
  OBVIOUS
<1>3. \A i \in 1 .. n : Half(op, names, i) \in S
  OBVIOUS
<1> HIDE DEF S
<1>4. halves \in Seq(S) /\ Len(halves) = p
  BY <1>1
<1>5. PICK t : t = SubSeq(z, 1, v)
  OBVIOUS
<1>6. t \in Seq(S) /\ Len(t) = v /\ \A i \in 1 .. v : t[i] = z[i]
  <2>1. 1 \in Int /\ v \in Int /\ v - 1 + 1 = v /\ 1 <= v
    OBVIOUS
  <2>2. t \in Seq(S) /\ Len(t) = v
    <3>1. t \in Seq(S)
      BY <1>2, <1>5, <2>1, SubSeqProperties
    <3>2. Len(t) = IF 1 <= v THEN v - 1 + 1 ELSE 0
      BY <1>2, <1>5, <2>1, SubSeqProperties
    <3>3. QED
      BY <2>1, <3>1, <3>2
  <2>3. \A i \in 1 .. v - 1 + 1 : t[i] = z[1 + i - 1]
    BY <1>2, <1>5, <2>1, SubSeqProperties
  <2>4. QED
    BY <2>1, <2>2, <2>3
<1>7. PICK u : u = halves \o t
  OBVIOUS
<1>8. /\ u \in Seq(S) /\ Len(u) = p + v
      /\ \A i \in 1 .. p + v : u[i] = IF i <= p THEN halves[i] ELSE t[i - p]
  BY <1>4, <1>6, <1>7, ConcatProperties
<1>9. \A i \in 1 .. n : u[i] = Half(op, names, i)
  <2>1. ASSUME NEW i \in 1 .. n PROVE u[i] = Half(op, names, i)
    <3>1. CASE i <= p
      BY <1>8, <2>1, <3>1
    <3>2. CASE ~(i <= p)
      <4>1. PICK k : k = i - p
        OBVIOUS
      <4>2. k \in 1 .. v /\ p + k = i
        BY <2>1, <3>2, <4>1
      <4>3. u[i] = t[k]
        BY <1>8, <2>1, <3>2, <4>1
      <4>4. QED
        BY <1>6, <4>2, <4>3
    <3>3. QED
      BY <3>1, <3>2
  <2>2. QED
    BY <2>1
<1>10. u \in [1 .. n -> S]
  <2>1. u \in [1 .. Len(u) -> S]
    BY <1>8, LenProperties
  <2>2. QED
    BY <1>8, <2>1
<1>11. u = [i \in 1 .. n |-> Half(op, names, i)]
  BY <1>9, <1>10
<1>12. QED
  BY <1>5, <1>7, <1>11

(****************************************************************************)
(* What a call has read back.                                                *)
(****************************************************************************)

LEMMA ValidIs ==
    ASSUME CallInv, ~Idle, NEW p, p = 2 * (run.chunk - 1), NEW v, v = Valid
    PROVE  /\ p \in Nat /\ v \in {1, 2} /\ p + v <= run.n
           /\ run.chunk < Chunks(run.n) => p + v = 2 * run.chunk
           /\ run.chunk = Chunks(run.n) => p + v = run.n
<1>1. PICK n, c : n = run.n /\ c = run.chunk
  OBVIOUS
<1>2. n \in Nat \ {0} /\ c \in 1 .. Chunks(n)
  BY <1>1, CallNow
<1>3. Chunks(n) \in Nat \ {0} /\ (2 * Chunks(n) = n \/ 2 * Chunks(n) = n + 1)
  BY <1>2, ChunksIs
<1>4. PICK k : k = n - p
  OBVIOUS
<1>5. k \in Int /\ 1 <= k /\ p \in Nat
  BY <1>1, <1>2, <1>3, <1>4
<1>6. v = Min({2, k})
  BY <1>1, <1>4 DEF Valid
<1>7. Min({2, k}) \in {2, k} /\ \A y \in {2, k} : Min({2, k}) <= y
  <2>1. {2, k} \in SUBSET Int /\ {2, k} # {} /\ \A y \in {2, k} : 1 <= y
    BY <1>5
  <2>2. PICK S : S = {2, k}
    OBVIOUS
  <2>3. 1 \in Int
    OBVIOUS
  <2>4. Min(S) \in S /\ \A y \in S : Min(S) <= y
    BY <2>1, <2>2, <2>3, Lowest
  <2>5. QED
    BY <2>2, <2>4
<1>8. v \in {2, k} /\ v <= 2 /\ v <= k
  BY <1>6, <1>7
<1>9. v \in {1, 2} /\ p + v <= n
  BY <1>1, <1>2, <1>4, <1>5, <1>8
<1>10. ASSUME c < Chunks(n) PROVE p + v = 2 * c
  <2>1. 2 < k
    BY <1>1, <1>2, <1>3, <1>4, <1>10
  <2>2. QED
    BY <1>1, <1>2, <1>8, <2>1
<1>11. ASSUME c = Chunks(n) PROVE p + v = n
  <2>1. k \in {1, 2}
    BY <1>1, <1>2, <1>3, <1>4, <1>11
  <2>2. QED
    BY <1>1, <1>2, <1>4, <1>5, <1>8, <1>9, <2>1
<1>12. QED
  BY <1>1, <1>5, <1>9, <1>10, <1>11

\* A half of an operand, below its end.
LEMMA OperandHalf ==
    ASSUME NEW b, NEW c \in Nat \ {0}, NEW i \in {1, 2}, b.n \in Nat, 2 * (c - 1) + i <= b.n
    PROVE  ChunkOf(b, c)[i] = Half("id", <<b.of>>, 2 * (c - 1) + i)
  BY DEF ChunkOf

LEMMA ApplyHalf ==
    ASSUME NEW f, NEW x, NEW i \in {1, 2}, NEW of, NEW at, x[i] = Half("id", of, at)
    PROVE  Apply(f, x)[i] = Half(f, of, at)
<1>1. PICK h : h = x[i]
  OBVIOUS
<1>2. h = [f |-> "id", of |-> of, at |-> at] /\ h.f = "id"
  BY <1>1 DEF Half
<1>3. Apply(f, x)[i] = [h EXCEPT !.f = f]
  BY <1>1, <1>2 DEF Apply
<1>4. QED
  BY <1>2, <1>3 DEF Half

LEMMA CombineHalf ==
    ASSUME NEW f, NEW x, NEW y, NEW i \in {1, 2}, NEW a, NEW b, NEW at,
           x[i] = Half("id", <<a>>, at), y[i] = Half("id", <<b>>, at)
    PROVE  Combine(f, x, y)[i] = Half(f, <<a, b>>, at)
<1>1. x[i].f = "id" /\ x[i].of = <<a>> /\ x[i].at = at /\ y[i].f = "id" /\ y[i].of = <<b>> /\ y[i].at = at
  BY DEF Half
<1>2. x[i].of \o y[i].of = <<a, b>>
  <2>1. PICK s, t : s = <<a>> /\ t = <<b>>
    OBVIOUS
  <2>2. PICK u : u = s \o t
    OBVIOUS
  <2>3. PICK S : S = {a, b}
    OBVIOUS
  <2>4. s \in Seq(S) /\ t \in Seq(S) /\ Len(s) = 1 /\ Len(t) = 1 /\ s[1] = a /\ t[1] = b
    BY <2>1, <2>3
  <2>5. u \in Seq(S) /\ Len(u) = 2 /\ u[1] = a /\ u[2] = b
    BY <2>2, <2>4, ConcatProperties
  <2>6. u = <<a, b>>
    BY <2>5
  <2>7. QED
    BY <1>1, <2>1, <2>2, <2>6
<1>3. x[i].f = "id" /\ y[i].f = "id" /\ x[i].at = y[i].at
  BY <1>1
<1>4. Combine(f, x, y)[i] = Half(f, x[i].of \o y[i].of, x[i].at)
  BY <1>3 DEF Combine
<1>5. QED
  BY <1>1, <1>2, <1>4

LEMMA NamesAre ==
    ASSUME CallInv, ~Idle
    PROVE  /\ Captured(run.op) => Names(run.ins) = <<bufs[run.ins[1]].of>>
           /\ ~Captured(run.op) => Names(run.ins) = <<bufs[run.ins[1]].of, bufs[run.ins[2]].of>>
<1>1. run.ins \in [1 .. IF Captured(run.op) THEN 1 ELSE 2 -> DOMAIN bufs]
  BY CallNow
<1>2. PICK ins : ins = run.ins
  OBVIOUS
<1>3. ASSUME Captured(run.op) PROVE Names(ins) = <<bufs[ins[1]].of>>
  <2>1. DOMAIN ins = 1 .. 1
    BY <1>1, <1>2, <1>3
  <2>2. Names(ins) = [i \in 1 .. 1 |-> bufs[ins[i]].of]
    BY <2>1 DEF Names
  <2>3. QED
    BY <2>2
<1>4. ASSUME ~Captured(run.op) PROVE Names(ins) = <<bufs[ins[1]].of, bufs[ins[2]].of>>
  <2>1. DOMAIN ins = 1 .. 2
    BY <1>1, <1>2, <1>4
  <2>2. Names(ins) = [i \in 1 .. 2 |-> bufs[ins[i]].of]
    BY <2>1 DEF Names
  <2>3. QED
    BY <2>2
<1>5. QED
  BY <1>2, <1>3, <1>4

\* What the units made of the halves of a chunk.
LEMMA ResultHalf ==
    ASSUME CallInv, ~Idle, NEW x, x = Operand(1, run.chunk), NEW y, y = Second,
           NEW z, z = (IF Captured(run.op) THEN Apply(run.op, x) ELSE Combine(run.op, x, y)),
           NEW p, p = 2 * (run.chunk - 1), NEW i \in {1, 2}, p + i <= run.n
    PROVE  z[i] = Half(run.op, Names(run.ins), p + i)
<1>1. PICK ins, n, c : ins = run.ins /\ n = run.n /\ c = run.chunk
  OBVIOUS
<1>2. /\ ins \in [1 .. IF Captured(run.op) THEN 1 ELSE 2 -> DOMAIN bufs] /\ \A k \in DOMAIN ins : bufs[ins[k]].n = n
      /\ n \in Nat \ {0} /\ c \in 1 .. Chunks(n)
  BY <1>1, CallNow
<1>3. c \in Nat \ {0}
  BY <1>2, ChunksIs
<1>4. 1 \in DOMAIN ins
  BY <1>2
<1>5. PICK b : b = bufs[ins[1]]
  OBVIOUS
<1>6. x[i] = Half("id", <<b.of>>, p + i)
  <2>1. b.n = n /\ n \in Nat
    BY <1>2, <1>4, <1>5
  <2>2. x = ChunkOf(b, c)
    BY <1>1, <1>5 DEF Operand
  <2>3. 2 * (c - 1) + i <= b.n
    BY <1>1, <2>1
  <2>4. QED
    BY <1>1, <1>3, <2>1, <2>2, <2>3, OperandHalf
<1>7. CASE Captured(run.op)
  <2>1. z[i] = Half(run.op, <<b.of>>, p + i)
    BY <1>6, <1>7, ApplyHalf
  <2>2. Names(run.ins) = <<b.of>>
    BY <1>1, <1>5, <1>7, NamesAre
  <2>3. QED
    BY <2>1, <2>2
<1>8. CASE ~Captured(run.op)
  <2>1. 2 \in DOMAIN ins
    BY <1>2, <1>8
  <2>2. PICK d : d = bufs[ins[2]]
    OBVIOUS
  <2>3. y[i] = Half("id", <<d.of>>, p + i)
    <3>1. d.n = n /\ n \in Nat
      BY <1>2, <2>1, <2>2
    <3>2. y = ChunkOf(d, c)
      BY <1>1, <1>8, <2>2 DEF Operand, Second
    <3>3. 2 * (c - 1) + i <= d.n
      BY <1>1, <3>1
    <3>4. QED
      BY <1>1, <1>3, <3>1, <3>2, <3>3, OperandHalf
  <2>4. z[i] = Half(run.op, <<b.of, d.of>>, p + i)
    BY <1>6, <1>8, <2>3, CombineHalf
  <2>5. Names(run.ins) = <<b.of, d.of>>
    BY <1>1, <1>5, <1>8, <2>2, NamesAre
  <2>6. QED
    BY <2>4, <2>5
<1>9. QED
  BY <1>7, <1>8

\* The halves read back when a chunk is done.
LEMMA ReadBackIs ==
    ASSUME CallInv, NpuInv, DataInv, SubmitReturns, run.submit = Len(Submits(run.op)),
           InPlace(run.op, run.lo), NEW m, m = 2 * (run.chunk - 1) + Valid
    PROVE  ReadBack = [i \in 1 .. m |-> Half(run.op, Names(run.ins), i)]
<1>1. ~Idle /\ run.sent /\ Done = Begins(run.op, run.submit) + Counts(run.op, run.submit)
  BY ReturnsKeep
<1>2. PICK op, d : op = run.op /\ d = run.submit
  OBVIOUS
<1>3. Done = BlockCount(op)
  <2>1. d \in 1 .. Len(Submits(op)) /\ d = Len(Submits(op))
    BY <1>1, <1>2, CallNow
  <2>2. QED
    BY <1>1, <1>2, <2>1, SubmitIs
<1>4. PICK x : x = Operand(1, run.chunk)
  OBVIOUS
<1>5. PICK y : y = Second
  OBVIOUS
<1>6. PICK names : names = Names(run.ins)
  OBVIOUS
<1>7. PICK p : p = 2 * (run.chunk - 1)
  OBVIOUS
<1>8. PICK v : v = Valid
  OBVIOUS
<1>9. PICK z : z = IF Captured(run.op) THEN Apply(run.op, x) ELSE Combine(run.op, x, y)
  OBVIOUS
<1>10. /\ run.halves = [i \in 1 .. p |-> Half(run.op, names, i)]
       /\ Stage(run.op, run.lo, mem, npu.table, Done, x, y)
  BY <1>1, <1>4, <1>5, <1>6, <1>7 DEF DataInv
<1>11. Fetch(run.lo[IF Captured(run.op) THEN OUT ELSE 6]) = z
  BY <1>1, <1>2, <1>3, <1>9, <1>10, FetchResult
<1>12. p \in Nat /\ v \in {1, 2} /\ p + v <= run.n /\ run.n \in Nat
  BY <1>1, <1>7, <1>8, ValidIs, CallNow
<1>13. \A i \in 1 .. v : z[i] = Half(run.op, names, p + i)
  <2>1. ASSUME NEW i \in 1 .. v PROVE z[i] = Half(run.op, names, p + i)
    <3>1. i \in {1, 2} /\ p + i <= run.n
      BY <1>12
    <3>2. QED
      BY <1>1, <1>4, <1>5, <1>6, <1>7, <1>9, <3>1, ResultHalf
  <2>2. QED
    BY <2>1
<1>14. ReadBack = run.halves \o SubSeq(z, 1, v)
  BY <1>8, <1>11 DEF ReadBack
<1>15. m = p + v
  BY <1>7, <1>8
<1>16. QED
  BY <1>6, <1>10, <1>12, <1>13, <1>14, <1>15, Extend

(****************************************************************************)
(* The data of a call, step by step.                                         *)
(****************************************************************************)

LEMMA NamesStay ==
    ASSUME run'.ins = run.ins, bufs' = bufs
    PROVE  Names(run.ins)' = Names(run.ins)
  BY DEF Names

LEMMA OperandsStay ==
    ASSUME SameCall, run'.chunk = run.chunk, bufs' = bufs
    PROVE  Operand(1, run.chunk)' = Operand(1, run.chunk) /\ Second' = Second
  BY DEF Operand, Second, SameCall

\* Nothing read back, the same chunk: the kernel BOs are all that changes.
LEMMA DataStays ==
    ASSUME CallInv, DataInv, ~Idle, SameCall, bufs' = bufs, run'.chunk = run.chunk, run'.halves = run.halves,
           InPlace(run.op, run.lo) =>
               Stage(run.op, run.lo, mem', npu'.table, Done', Operand(1, run.chunk), Second)
    PROVE  DataInv'
<1>1. run'.op = run.op /\ run'.lo = run.lo /\ run'.ins = run.ins
  BY DEF SameCall
<1>2. SUFFICES ASSUME InPlace(run.op, run.lo)
               PROVE  /\ run'.halves = [i \in 1 .. 2 * (run'.chunk - 1) |-> Half(run'.op, Names(run.ins)', i)]
                      /\ Stage(run'.op, run'.lo, mem', npu'.table, Done', Operand(1, run.chunk)', Second')
  BY <1>1 DEF DataInv
<1>3. run.halves = [i \in 1 .. 2 * (run.chunk - 1) |-> Half(run.op, Names(run.ins), i)]
  BY <1>2 DEF DataInv
<1>4. run'.halves = [i \in 1 .. 2 * (run'.chunk - 1) |-> Half(run'.op, Names(run.ins)', i)]
  BY <1>1, <1>3, NamesStay
<1>5. Stage(run'.op, run'.lo, mem', npu'.table, Done', Operand(1, run.chunk)', Second')
  BY <1>1, <1>2, OperandsStay
<1>6. QED
  BY <1>4, <1>5

LEMMA SubmitData ==
    ASSUME CallInv, PatchInv, NpuInv, NpuShape, DataInv, Submit
    PROVE  DataInv'
<1>1. ~Idle /\ ~run.sent /\ bufs' = bufs
  BY DEF Submit, heap
<1>2. Sent
  BY <1>1, SubmitSends
<1>3. Done' = Begins(run.op, run.submit) /\ npu'.table = npu.table
  BY SubmitCall DEF NpuShape
<1>4. run.submit \in 1 .. Len(Submits(run.op))
  BY <1>1, CallNow
<1>5. PICK op : op = run.op
  OBVIOUS
<1>6. PICK d : d = run.submit
  OBVIOUS
<1>7. Len(Submits(op)) \in Nat /\ d \in 1 .. Len(Submits(op)) /\ Begins(op, d) \in Nat /\ (d = 1 => Begins(op, d) = 0)
  BY <1>4, <1>5, <1>6, SubmitIs, SubmitsFit
<1>8. PICK x : x = Operand(1, run.chunk)
  OBVIOUS
<1>9. PICK y : y = Second
  OBVIOUS
<1>10. InPlace(run.op, run.lo) => Stage(run.op, run.lo, mem', npu'.table, Done', x, y)
  <2>1. CASE d = 1
    <3>1. mem' = ChunkSetUp
      BY <1>6, <2>1 DEF Submit
    <3>2. Done' = 0
      BY <1>3, <1>5, <1>6, <1>7, <2>1
    <3>3. QED
      BY <1>1, <1>8, <1>9, <3>1, <3>2, SetUpStage
  <2>2. CASE d # 1
    <3>1. mem' = mem /\ run.submit > 1
      BY <1>6, <1>7, <2>2 DEF Submit
    <3>2. Done = Begins(op, d) + 0
      BY <1>1, <1>5, <1>6, DoneIs
    <3>3. Done' = Done
      BY <1>3, <1>5, <1>6, <1>7, <3>2
    <3>4. InPlace(run.op, run.lo) => Stage(run.op, run.lo, mem, npu.table, Done, x, y)
      BY <1>1, <1>8, <1>9, <3>1 DEF DataInv
    <3>5. QED
      BY <1>3, <3>1, <3>3, <3>4
  <2>3. QED
    BY <2>1, <2>2
<1>11. QED
  BY <1>1, <1>2, <1>8, <1>9, <1>10, DataStays DEF Sent

LEMMA NpuData ==
    ASSUME CallInv, PatchInv, NpuInv, DataInv, NpuBlock
    PROVE  DataInv'
<1>1. ~Idle /\ run.sent /\ bufs' = bufs /\ run' = run
  BY DEF NpuBlock, Running, heap
<1>2. Done' = Done + 1
  BY NpuCall
<1>3. PICK x : x = Operand(1, run.chunk)
  OBVIOUS
<1>4. PICK y : y = Second
  OBVIOUS
<1>5. ASSUME InPlace(run.op, run.lo)
      PROVE  Stage(run.op, run.lo, mem', npu'.table, Done', x, y)
  <2>1. Stage(run.op, run.lo, mem, npu.table, Done, x, y)
    BY <1>1, <1>3, <1>4, <1>5 DEF DataInv
  <2>2. QED
    BY <1>2, <1>5, <2>1, BlockStage
<1>6. SameCall
  BY <1>1 DEF SameCall
<1>7. QED
  BY <1>1, <1>3, <1>4, <1>5, <1>6, DataStays

LEMMA AgainData ==
    ASSUME CallInv, NpuInv, DataInv, SubmitReturns, Again
    PROVE  DataInv'
<1>1. ~Idle /\ run.sent /\ UNCHANGED <<exes, bufs, npu>>
  BY ReturnsKeep
<1>2. Done' = Done
  BY AgainCall
<1>3. PICK x : x = Operand(1, run.chunk)
  OBVIOUS
<1>4. PICK y : y = Second
  OBVIOUS
<1>5. InPlace(run.op, run.lo) => Stage(run.op, run.lo, mem, npu.table, Done, x, y)
  BY <1>1, <1>3, <1>4 DEF DataInv
<1>6. mem' = mem
  BY DEF Again
<1>7. QED
  BY <1>1, <1>2, <1>3, <1>4, <1>5, <1>6, DataStays DEF Again

LEMMA OnwardData ==
    ASSUME CallInv, NpuInv, DataInv, SubmitReturns, Onward
    PROVE  DataInv'
<1>1. ~Idle /\ bufs' = bufs /\ run.chunk \in Nat
  <2>1. ~Idle /\ bufs' = bufs
    BY ReturnsKeep
  <2>2. QED
    BY <2>1, CallNow
<1>2. run'.op = run.op /\ run'.lo = run.lo /\ run'.ins = run.ins /\ run'.chunk = run.chunk + 1
      /\ run'.halves = ReadBack /\ run'.submit = 1 /\ ~run'.sent
  BY DEF Onward, SameCall
<1>3. SUFFICES ASSUME InPlace(run.op, run.lo)
               PROVE  run'.halves = [i \in 1 .. 2 * (run'.chunk - 1) |-> Half(run'.op, Names(run.ins)', i)]
  BY <1>2 DEF DataInv
<1>4. PICK m : m = 2 * (run.chunk - 1) + Valid
  OBVIOUS
<1>5. ReadBack = [i \in 1 .. m |-> Half(run.op, Names(run.ins), i)]
  BY <1>3, <1>4, ReadBackIs DEF Onward
<1>6. m = 2 * run.chunk
  <2>1. run.chunk < Chunks(run.n)
    BY DEF Onward
  <2>2. PICK p, v : p = 2 * (run.chunk - 1) /\ v = Valid
    OBVIOUS
  <2>3. p + v = 2 * run.chunk
    BY <1>1, <2>1, <2>2, ValidIs
  <2>4. QED
    BY <1>4, <2>2, <2>3
<1>7. 2 * (run'.chunk - 1) = m
  BY <1>1, <1>2, <1>6
<1>8. QED
  BY <1>1, <1>2, <1>5, <1>7, NamesStay

LEMMA RightAnswer ==
    ASSUME CallInv, NpuInv, DataInv, HeapInv, SubmitReturns, Answers
    PROVE  AnswerInv'
<1>1. ~Idle
  BY ReturnsKeep
<1>2. run.op \in Ops
  BY <1>1, CallNow, HeapNow DEF ExeOk
<1>3. /\ answer'.op = run.op /\ answer'.halves = ReadBack /\ answer'.n = run.n
      /\ answer'.of = Names(run.ins) /\ answer'.placed = InPlace(run.op, run.lo)
  BY DEF Answers
<1>4. ASSUME answer'.placed
      PROVE  answer'.halves = [i \in 1 .. answer'.n |-> Half(answer'.op, answer'.of, i)]
  <2>1. InPlace(run.op, run.lo)
    BY <1>3, <1>4
  <2>2. PICK m : m = 2 * (run.chunk - 1) + Valid
    OBVIOUS
  <2>3. ReadBack = [i \in 1 .. m |-> Half(run.op, Names(run.ins), i)]
    BY <2>1, <2>2, ReadBackIs DEF Answers
  <2>4. m = run.n
    <3>1. run.chunk = Chunks(run.n)
      BY DEF Answers
    <3>2. PICK p, v : p = 2 * (run.chunk - 1) /\ v = Valid
      OBVIOUS
    <3>3. p + v = run.n
      BY <1>1, <3>1, <3>2, ValidIs
    <3>4. QED
      BY <2>2, <3>2, <3>3
  <2>5. QED
    BY <1>3, <2>3, <2>4
<1>5. ResultRight'
  BY <1>4 DEF ResultRight
<1>6. QED
  BY <1>2, <1>3, <1>5 DEF AnswerInv

(****************************************************************************)
(* Every step keeps the invariant.                                           *)
(****************************************************************************)

LEMMA InvParts == Inv <=> HeapInv /\ CallParts /\ NpuShape
  BY DEF Inv, CallParts

LEMMA Starts == Init => Inv
<1> SUFFICES ASSUME Init PROVE Inv
  OBVIOUS
<1>1. /\ exes = <<>> /\ bufs = <<>> /\ leaked = {} /\ run = NoRun /\ rc = <<>> /\ calls = 0
      /\ answer = NoAnswer /\ npu = [at |-> 0, left |-> 0, table |-> FALSE]
  BY DEF Init
<1>2. Idle
  BY <1>1 DEF Idle
<1>3. DOMAIN exes = {} /\ DOMAIN bufs = {}
  BY <1>1
<1>4. HeapInv
  <2>1. \A q : ~Holder(q)
    BY <1>1, <1>2, <1>3 DEF Holder
  <2>2. Held = {}
    BY <2>1, HeldHas
  <2>3. Roomy(Held)
    BY <2>2 DEF Roomy
  <2>4. calls \in 0 .. MaxCalls
    BY <1>1, BoundAssumption DEF BoundAssumption
  <2>5. QED
    BY <1>3, <2>3, <2>4 DEF HeapInv
<1>5. CallInv /\ PatchInv /\ NpuInv /\ DataInv
  BY <1>1, <1>2 DEF CallInv, PatchInv, NpuInv, DataInv
<1>6. AnswerInv
  <2>1. answer.op = "none"
    BY <1>1 DEF NoAnswer
  <2>2. "none" \notin Ops
    BY BoundAssumption DEF BoundAssumption
  <2>3. QED
    BY <2>1, <2>2 DEF AnswerInv, ResultRight
<1>7. NpuShape
  <2>1. npu.at = 0 /\ npu.left = 0 /\ npu.table = FALSE
    BY <1>1
  <2>2. QED
    BY <1>1, <2>1 DEF NpuShape
<1>8. QED
  BY <1>4, <1>5, <1>6, <1>7 DEF Inv

LEMMA ExecuteKeeps ==
    ASSUME Inv, NEW e \in DOMAIN exes, NEW k \in {1, 2}, NEW ins, ins \in [1 .. k -> DOMAIN bufs],
           Len(ins) = k, Execute(e, ins)
    PROVE  Inv'
<1>1. HeapInv /\ NpuShape
  BY DEF Inv
<1>2. ins[1] \in DOMAIN bufs
  OBVIOUS
<1>3. HeapInv'
  BY <1>1, <1>2, HeapExecute
<1>4. CallParts'
  BY <1>1, ExecuteCall
<1>5. NpuShape'
  <2>1. npu' = npu
    BY DEF Execute
  <2>2. QED
    BY <1>1, <2>1 DEF NpuShape
<1>6. QED
  BY <1>3, <1>4, <1>5 DEF Inv, CallParts

\* A step that leaves the call alone.
LEMMA Aside ==
    ASSUME Inv, HeapInv', Idle, run' = run, rc' = rc, npu' = npu, answer' = NoAnswer \/ answer' = Failed
    PROVE  Inv'
<1>1. CallParts'
  BY InvParts, IdleStays
<1>2. NpuShape'
  BY DEF Inv, NpuShape
<1>3. QED
  BY <1>1, <1>2 DEF Inv, CallParts

LEMMA SubmitKeeps == ASSUME Inv, Submit PROVE Inv'
<1>1. HeapInv /\ CallInv /\ PatchInv /\ NpuInv /\ DataInv /\ AnswerInv /\ NpuShape
  BY DEF Inv
<1>2. ~Idle /\ UNCHANGED <<heap, answer, calls>>
  BY DEF Submit
<1>3. CallInv' /\ PatchInv' /\ NpuInv'
  BY <1>1, SubmitCall DEF NpuShape
<1>4. DataInv'
  BY <1>1, SubmitData
<1>5. HeapInv'
  <2>1. run'.own = run.own
    BY <1>1, <1>2, SubmitSends DEF Sent, SameCall
  <2>2. QED
    BY <1>1, <1>2, <2>1, HeapKeep, HeapStays
<1>6. AnswerInv'
  BY <1>1, <1>2 DEF AnswerInv, ResultRight
<1>7. NpuShape'
  <2>1. PICK at, left : npu' = [npu EXCEPT !.at = at, !.left = left]
    BY DEF Submit
  <2>2. QED
    BY <1>1, <2>1 DEF NpuShape
<1>8. QED
  BY <1>3, <1>4, <1>5, <1>6, <1>7 DEF Inv

LEMMA NpuKeeps == ASSUME Inv, NpuBlock PROVE Inv'
<1>1. HeapInv /\ CallInv /\ PatchInv /\ NpuInv /\ DataInv /\ AnswerInv
  BY DEF Inv
<1>2. ~Idle /\ UNCHANGED <<heap, run, answer, calls>>
  BY DEF NpuBlock, Running
<1>3. CallInv' /\ PatchInv' /\ NpuInv' /\ NpuShape'
  BY <1>1, NpuCall DEF NpuShape
<1>4. DataInv'
  BY <1>1, NpuData
<1>5. HeapInv'
  BY <1>1, <1>2, HeapKeep, HeapStays
<1>6. AnswerInv'
  BY <1>1, <1>2 DEF AnswerInv, ResultRight
<1>7. QED
  BY <1>3, <1>4, <1>5, <1>6 DEF Inv

LEMMA ReturnsKeeps == ASSUME Inv, SubmitReturns PROVE Inv'
<1>1. HeapInv /\ CallInv /\ PatchInv /\ NpuInv /\ DataInv /\ AnswerInv /\ NpuShape
  BY DEF Inv
<1>2. ~Idle /\ UNCHANGED <<exes, bufs, npu, calls>> /\ leaked \subseteq Held
  BY HeldIs DEF SubmitReturns
<1>3. NpuShape'
  BY <1>1, <1>2 DEF NpuShape
<1>4. CASE Again
  <2>1. run'.own = run.own /\ answer' = answer /\ leaked' = leaked
    BY <1>4 DEF Again, SameCall
  <2>2. HeapInv'
    BY <1>1, <1>2, <2>1, HeapKeep
  <2>3. CallInv' /\ PatchInv' /\ NpuInv' /\ DataInv'
    BY <1>1, <1>4, AgainCall, AgainData
  <2>4. AnswerInv'
    BY <1>1, <2>1 DEF AnswerInv, ResultRight
  <2>5. QED
    BY <1>3, <2>2, <2>3, <2>4 DEF Inv
<1>5. CASE Onward
  <2>1. run'.own = run.own /\ answer' = answer /\ leaked' = leaked
    BY <1>5 DEF Onward, SameCall
  <2>2. HeapInv'
    BY <1>1, <1>2, <2>1, HeapKeep
  <2>3. CallInv' /\ PatchInv' /\ NpuInv' /\ DataInv'
    BY <1>1, <1>5, OnwardCall, OnwardData
  <2>4. AnswerInv'
    BY <1>1, <2>1 DEF AnswerInv, ResultRight
  <2>5. QED
    BY <1>3, <2>2, <2>3, <2>4 DEF Inv
<1>6. CASE Answers
  <2>1. Idle' /\ rc' = <<>> /\ leaked' \subseteq Held
    BY <1>2, <1>6, EndLeaks DEF Answers, Idle
  <2>2. HeapInv'
    BY <1>1, <1>2, <2>1, HeapKeep
  <2>3. CallInv' /\ PatchInv' /\ NpuInv' /\ DataInv'
    BY <2>1 DEF CallInv, PatchInv, NpuInv, DataInv
  <2>4. AnswerInv'
    BY <1>1, <1>6, RightAnswer
  <2>5. QED
    BY <1>3, <2>2, <2>3, <2>4 DEF Inv
<1>7. QED
  BY <1>1, <1>4, <1>5, <1>6, ReturnsHow

LEMMA FailsKeeps == ASSUME Inv, SubmitFails PROVE Inv'
<1>1. HeapInv /\ NpuShape
  BY DEF Inv
<1>2. UNCHANGED <<exes, bufs, calls>> /\ Finish(Failed) /\ npu' = [npu EXCEPT !.at = 0, !.left = 0]
      /\ leaked' \subseteq Held
  BY EndLeaks DEF SubmitFails, Running
<1>3. Idle' /\ rc' = <<>> /\ answer' = Failed
  BY <1>2 DEF Finish, Idle
<1>4. answer'.op = "failed"
  BY <1>3 DEF Failed
<1>5. CallParts'
  BY <1>3, <1>4, IdleAnswers
<1>6. HeapInv'
  BY <1>1, <1>2, <1>3, HeapKeep
<1>7. NpuShape'
  BY <1>1, <1>2 DEF NpuShape
<1>8. QED
  BY <1>5, <1>6, <1>7 DEF Inv, CallParts

LEMMA StutterKeeps == ASSUME Inv, UNCHANGED vars PROVE Inv'
<1>1. UNCHANGED <<heap, exes, bufs, leaked, run, rc, tk, mem, npu, answer, calls>>
  BY DEF vars, heap
<1>2. HeapInv /\ CallInv /\ PatchInv /\ NpuInv /\ DataInv /\ AnswerInv /\ NpuShape
  BY DEF Inv
<1>3. HeapInv'
  BY <1>1, <1>2, HeapKeep, HeapStays DEF Idle
<1>4. CallInv'
  BY <1>1, <1>2 DEF CallInv, Idle
<1>5. PatchInv'
  BY <1>1, <1>2 DEF PatchInv, Loaded, Idle
<1>6. Done' = Done
  BY <1>1 DEF Done
<1>7. NpuInv'
  BY <1>1, <1>2, <1>6 DEF NpuInv, Loaded, Idle
<1>8. DataInv'
  BY <1>1, <1>2, <1>6 DEF DataInv, Idle, Names, Operand, Second
<1>9. AnswerInv' /\ NpuShape'
  BY <1>1, <1>2 DEF AnswerInv, ResultRight, NpuShape
<1>10. QED
  BY <1>3, <1>4, <1>5, <1>7, <1>8, <1>9 DEF Inv

LEMMA NextKeeps == Inv /\ [Next]_vars => Inv'
<1> SUFFICES ASSUME Inv, [Next]_vars PROVE Inv'
  OBVIOUS
<1>0. HeapInv
  BY DEF Inv
<1>1. ASSUME NEW op \in Ops, Client_Compile(op) PROVE Inv'
  <2>1. HeapInv'
    BY <1>0, <1>1, HeapCompile
  <2>2. Idle /\ run' = run /\ rc' = rc /\ npu' = npu /\ answer' = NoAnswer
    BY <1>1 DEF Client_Compile
  <2>3. QED
    BY <2>1, <2>2, Aside
<1>2. ASSUME NEW e \in DOMAIN exes, LoadedExecutable_Destroy(e) PROVE Inv'
  <2>1. HeapInv'
    BY <1>0, <1>2, HeapDestroyExe
  <2>2. Idle /\ run' = run /\ rc' = rc /\ npu' = npu /\ answer' = NoAnswer
    BY <1>2 DEF LoadedExecutable_Destroy
  <2>3. QED
    BY <2>1, <2>2, Aside
<1>3. ASSUME NEW x \in Inputs, BufferFromHostBuffer(x) PROVE Inv'
  <2>1. HeapInv'
    BY <1>0, <1>3, HeapFromHost
  <2>2. Idle /\ run' = run /\ rc' = rc /\ npu' = npu /\ answer' = NoAnswer
    BY <1>3 DEF BufferFromHostBuffer
  <2>3. QED
    BY <2>1, <2>2, Aside
<1>4. ASSUME NEW b \in DOMAIN bufs, Buffer_Destroy(b) PROVE Inv'
  <2>1. HeapInv'
    BY <1>0, <1>4, HeapDestroyBuffer
  <2>2. Idle /\ run' = run /\ rc' = rc /\ npu' = npu /\ answer' = NoAnswer
    BY <1>4 DEF Buffer_Destroy
  <2>3. QED
    BY <2>1, <2>2, Aside
<1>5. ASSUME NEW e \in DOMAIN exes, NEW b \in DOMAIN bufs, Execute(e, <<b>>) PROVE Inv'
  <2>1. <<b>> \in [1 .. 1 -> DOMAIN bufs] /\ Len(<<b>>) = 1
    OBVIOUS
  <2>2. PICK k, ins : k = 1 /\ ins = <<b>>
    OBVIOUS
  <2>3. QED
    BY <1>5, <2>1, <2>2, ExecuteKeeps
<1>6. ASSUME NEW e \in DOMAIN exes, NEW b \in DOMAIN bufs, NEW c \in DOMAIN bufs, Execute(e, <<b, c>>) PROVE Inv'
  <2>1. <<b, c>> \in [1 .. 2 -> DOMAIN bufs] /\ Len(<<b, c>>) = 2
    OBVIOUS
  <2>2. PICK k, ins : k = 2 /\ ins = <<b, c>>
    OBVIOUS
  <2>3. QED
    BY <1>6, <2>1, <2>2, ExecuteKeeps
<1>7. ASSUME NEW e \in DOMAIN exes, NEW k \in FailAt, ExecuteFails(e, k) PROVE Inv'
  <2>1. HeapInv'
    BY <1>0, <1>7, HeapExecuteFails
  <2>2. Idle /\ run' = run /\ rc' = rc /\ npu' = npu /\ answer' = Failed
    BY <1>7 DEF ExecuteFails
  <2>3. QED
    BY <2>1, <2>2, Aside
<1>8. QED
  BY <1>1, <1>2, <1>3, <1>4, <1>5, <1>6, <1>7, SubmitKeeps, NpuKeeps, ReturnsKeeps, FailsKeeps,
     StutterKeeps DEF Next

\* The invariant holds: every operation of the plugin and every block of the NPU
\* keeps the BOs apart and below 4 GB, the call and its commands in step with
\* the NPU, and the chunk where the blocks done so far have put it.
THEOREM Safe == Spec => []Inv
<1>1. QED
  BY Starts, NextKeeps, PTL DEF Spec

(****************************************************************************)
(* What follows from the invariant.                                          *)
(****************************************************************************)

LEMMA InvTyped == Inv => TypeOK
<1> SUFFICES ASSUME Inv PROVE TypeOK
  OBVIOUS
<1>1. HeapInv /\ CallInv /\ PatchInv /\ NpuInv /\ AnswerInv
  BY DEF Inv
<1>2. DOMAIN exes \subseteq 1 .. calls /\ DOMAIN bufs \subseteq 1 .. calls /\ \A e \in DOMAIN exes : exes[e].op \in Ops
  BY <1>1, HeapNow DEF ExeOk
<1>3. ASSUME ~Idle
      PROVE  /\ run.exe \in DOMAIN exes /\ run.op = exes[run.exe].op
             /\ \A i \in DOMAIN run.ins : run.ins[i] \in DOMAIN bufs
             /\ run.chunk \in 1 .. Chunks(run.n)
  BY <1>1, <1>3, CallNow
<1>4. ASSUME Patched, NEW heads,
             heads = {run.lo[REGCMD] + Blocks(run.op, run.submit)[b].at : b \in DOMAIN rc}
      PROVE  (\A t \in DOMAIN tk : tk[t] \in heads) /\ (Running => npu.at \in heads)
  <2>1. ~Idle /\ Loaded
    BY <1>1, <1>4 DEF Patched, PatchInv
  <2>2. PICK op : op = run.op
    OBVIOUS
  <2>3. PICK lo : lo = run.lo
    OBVIOUS
  <2>4. run.submit \in 1 .. Len(Submits(op)) /\ Laid(op, lo)
    BY <1>1, <2>1, <2>2, <2>3, CallNow
  <2>5. Blocks(run.op, run.submit) = Prog(op)
    BY <2>2, <2>4, SubmitIs
  <2>6. DOMAIN rc = DOMAIN Prog(op) /\ tk = Table(op, lo)
    BY <2>1, <2>2, <2>3, CommandsIs DEF Loaded
  <2>7. heads = {lo[REGCMD] + Off(op, b) : b \in DOMAIN Prog(op)}
    BY <1>4, <2>2, <2>3, <2>5, <2>6 DEF Off
  <2>8. \A t \in DOMAIN tk : tk[t] \in heads
    BY <2>4, <2>6, <2>7, TaskEntries
  <2>9. ASSUME Running PROVE npu.at \in heads
    <3>1. npu.at = lo[REGCMD] + Off(op, Done + 1)
      BY <1>1, <2>1, <2>2, <2>3, <2>9, NpuIs DEF Running
    <3>2. Done + 1 \in DOMAIN Prog(op)
      BY <1>1, <2>2, <2>9, CurrentIs, OffsApart
    <3>3. QED
      BY <2>7, <3>1, <3>2
  <2>10. QED
    BY <2>8, <2>9
<1>5. answer.op \in Ops \cup {"none", "failed"}
  BY <1>1 DEF AnswerInv
<1>6. QED
  BY <1>2, <1>3, <1>4, <1>5 DEF TypeOK

\* Every block writes into one of the BOs.
Lands(dst, op, lo) == \E r \in DOMAIN lo : Inside(dst, lo[r], KernelSizes(op)[r])

LEMMA LandsAt ==
    ASSUME NEW op, NEW lo, Laid(op, lo), NEW r \in 1 .. Places(op), NEW d \in Nat,
           d + 98304 <= KernelSizes(op)[r], NEW dst, dst = lo[r] + d
    PROVE  Lands(dst, op, lo)
<1>1. r \in DOMAIN lo /\ lo[r] \in Int
  <2>1. lo \in [1 .. Places(op) -> Int]
    BY LaidIs
  <2>2. QED
    BY <2>1
<1>2. KernelSizes(op)[r] \in Nat
  BY SizesAre
<1>3. Inside(dst, lo[r], KernelSizes(op)[r])
  <2>1. PICK a, s : a = lo[r] /\ s = KernelSizes(op)[r]
    OBVIOUS
  <2>2. QED
    BY <1>1, <1>2, <2>1, ChunkBytesIs DEF Inside
<1>4. QED
  BY <1>1, <1>3 DEF Lands

LEMMA ReluLands ==
    ASSUME NEW lo, Laid("relu", lo), NEW b \in 1 .. 3
    PROVE  Lands(Steps("relu", lo)[b].dst, "relu", lo)
<1>1. PICK op : op = "relu"
  OBVIOUS
<1>2. Places(op) = 5 /\ KernelSizes(op)[3] = 294912 /\ KernelSizes(op)[5] = 98304
  BY <1>1, CapturedAre, ReluPlaces DEF Places, KernelSizes
<1>3. lo[3] \in Int /\ lo[5] \in Int
  BY LaidIs
<1>4. Column(lo) = lo[3] + 196608
  BY <1>3, ColumnIs
<1>5. Lands(lo[3] + 196608, op, lo)
  BY <1>1, <1>2, LandsAt
<1>6. Lands(lo[5], op, lo)
  <2>1. lo[5] = lo[5] + 0
    BY <1>3
  <2>2. 5 \in 1 .. Places(op) /\ 0 \in Nat /\ 0 + 98304 <= KernelSizes(op)[5]
    BY <1>2
  <2>3. QED
    BY <1>1, <2>1, <2>2, LandsAt
<1>7. QED
  BY <1>1, <1>4, <1>5, <1>6, ReluSteps

LEMMA TanhLands ==
    ASSUME NEW lo, Laid("tanh", lo), NEW b \in 1 .. 4
    PROVE  Steps("tanh", lo)[b].kind = "table" \/ Lands(Steps("tanh", lo)[b].dst, "tanh", lo)
<1>1. PICK op : op = "tanh"
  OBVIOUS
<1>2. Places(op) = 5 /\ KernelSizes(op)[3] = 393216 /\ KernelSizes(op)[5] = 98304
  BY <1>1, CapturedAre, TanhPlaces DEF Places, KernelSizes
<1>3. lo[3] \in Int /\ lo[5] \in Int
  BY LaidIs
<1>4. Column(lo) = lo[3] + 196608
  BY <1>3, ColumnIs
<1>5. Lands(lo[3] + 196608, op, lo)
  BY <1>1, <1>2, LandsAt
<1>6. Lands(lo[5], op, lo) /\ Lands(lo[3], op, lo)
  <2>1. lo[5] = lo[5] + 0 /\ lo[3] = lo[3] + 0
    BY <1>3
  <2>2. /\ 5 \in 1 .. Places(op) /\ 3 \in 1 .. Places(op) /\ 0 \in Nat
        /\ 0 + 98304 <= KernelSizes(op)[5] /\ 0 + 98304 <= KernelSizes(op)[3]
    BY <1>2
  <2>3. QED
    BY <1>1, <2>1, <2>2, LandsAt
<1>7. QED
  BY <1>1, <1>4, <1>5, <1>6, TanhSteps

LEMMA BinaryLands ==
    ASSUME NEW op, ~Captured(op), NEW lo, Laid(op, lo), NEW b \in 1 .. 4
    PROVE  Lands(Steps(op, lo)[b].dst, op, lo)
<1>1. /\ Places(op) = 6 /\ KernelSizes(op)[3] = 393216 /\ KernelSizes(op)[4] = 98304
      /\ KernelSizes(op)[5] = 98304 /\ KernelSizes(op)[6] = 98304
  BY BinarySizes DEF Places
<1>2. lo[3] \in Int /\ lo[4] \in Int /\ lo[5] \in Int /\ lo[6] \in Int
  BY LaidIs
<1>3. Lands(lo[3] + 196608, op, lo)
  BY <1>1, LandsAt
<1>4. Lands(lo[4], op, lo) /\ Lands(lo[5], op, lo) /\ Lands(lo[6], op, lo)
  <2>1. lo[4] = lo[4] + 0 /\ lo[5] = lo[5] + 0 /\ lo[6] = lo[6] + 0
    BY <1>2
  <2>2. /\ 4 \in 1 .. Places(op) /\ 5 \in 1 .. Places(op) /\ 6 \in 1 .. Places(op) /\ 0 \in Nat
        /\ 0 + 98304 <= KernelSizes(op)[4] /\ 0 + 98304 <= KernelSizes(op)[5] /\ 0 + 98304 <= KernelSizes(op)[6]
    BY <1>1
  <2>3. QED
    BY <2>1, <2>2, LandsAt
<1>5. QED
  BY <1>3, <1>4, BinarySteps

LEMMA InvOwn == Inv => WritesOwnBOs
<1> SUFFICES ASSUME Inv, Running, Kind # "table"
             PROVE  \E r \in DOMAIN run.lo : Inside(rc[Current].dst, run.lo[r], KernelSizes(run.op)[r])
  BY DEF WritesOwnBOs
<1>1. CallInv /\ NpuInv
  BY DEF Inv
<1>2. PICK op : op = run.op
  OBVIOUS
<1>3. PICK lo : lo = run.lo
  OBVIOUS
<1>4. PICK b : b = Done + 1
  OBVIOUS
<1>5. b \in 1 .. BlockCount(op) /\ Laid(op, lo)
  BY <1>1, <1>2, <1>3, <1>4, CurrentIs, CallNow
<1>6. rc[Current].dst = Steps(op, lo)[b].dst /\ Steps(op, lo)[b].kind # "table"
  BY <1>1, <1>2, <1>3, <1>4, CurrentDoes DEF Runs
<1>7. CASE op = "relu"
  <2>1. b \in 1 .. 3 /\ Laid("relu", lo)
    BY <1>5, <1>7 DEF BlockCount
  <2>2. Lands(Steps("relu", lo)[b].dst, "relu", lo)
    BY <2>1, ReluLands
  <2>3. QED
    BY <1>2, <1>3, <1>6, <1>7, <2>2 DEF Lands
<1>8. CASE op = "tanh"
  <2>1. b \in 1 .. 4 /\ Laid("tanh", lo) /\ Steps("tanh", lo)[b].kind # "table"
    BY <1>5, <1>6, <1>8 DEF BlockCount
  <2>2. Lands(Steps("tanh", lo)[b].dst, "tanh", lo)
    BY <2>1, TanhLands
  <2>3. QED
    BY <1>2, <1>3, <1>6, <1>8, <2>2 DEF Lands
<1>9. CASE ~Captured(op)
  <2>1. b \in 1 .. 4
    BY <1>5, <1>9, CapturedAre DEF BlockCount
  <2>2. Lands(Steps(op, lo)[b].dst, op, lo)
    BY <1>5, <1>9, <2>1, BinaryLands
  <2>3. QED
    BY <1>2, <1>3, <1>6, <2>2 DEF Lands
<1>10. QED
  BY <1>7, <1>8, <1>9, CapturedAre

\* What a step may do to the executables.
FirstInPlace == Held = {} => \A e \in DOMAIN exes' \ DOMAIN exes :
                    Captured(exes'[e].op) => InPlace(exes'[e].op, exes'[e].lo)

LEMMA NoNewExe == ASSUME DOMAIN exes' \subseteq DOMAIN exes PROVE FirstInPlace
  BY DEF FirstInPlace

LEMMA CompileFirst == ASSUME NEW op \in Ops, Client_Compile(op) PROVE FirstInPlace
<1>1. PICK lo : lo = IF Captured(op) THEN Create(Held, KernelSizes(op)) ELSE <<>>
  OBVIOUS
<1>2. PICK x : x = [op |-> op, lo |-> lo]
  OBVIOUS
<1>3. PICK i : i = NewId(exes)
  OBVIOUS
<1>4. exes' = Over([j \in {i} |-> x], exes)
  BY <1>1, <1>2, <1>3 DEF Client_Compile, Compiled
<1>5. \A e \in DOMAIN exes' \ DOMAIN exes : exes'[e] = x
  BY <1>4 DEF Over
<1>6. ASSUME Held = {}, Captured(op) PROVE InPlace(op, lo)
  BY <1>1, <1>6, CreateFirst
<1>7. x.op = op /\ x.lo = lo
  BY <1>2
<1>8. QED
  BY <1>5, <1>6, <1>7 DEF FirstInPlace

LEMMA NextFirst == [Next]_vars => FirstInPlace \/ UNCHANGED vars
<1> SUFFICES ASSUME Next PROVE FirstInPlace
  OBVIOUS
<1>1. CASE \E op \in Ops : Client_Compile(op)
  BY <1>1, CompileFirst
<1>2. CASE \E e \in DOMAIN exes : LoadedExecutable_Destroy(e)
  BY <1>2, NoNewExe DEF LoadedExecutable_Destroy, Without
<1>3. CASE exes' = exes
  BY <1>3, NoNewExe
<1>4. (\E x \in Inputs : BufferFromHostBuffer(x)) \/ (\E b \in DOMAIN bufs : Buffer_Destroy(b)) => exes' = exes
  BY DEF BufferFromHostBuffer, Buffer_Destroy
<1>5. (\E e \in DOMAIN exes, b \in DOMAIN bufs : Execute(e, <<b>>))
      \/ (\E e \in DOMAIN exes, b, c \in DOMAIN bufs : Execute(e, <<b, c>>)) => exes' = exes
  BY DEF Execute
<1>6. (\E e \in DOMAIN exes, k \in FailAt : ExecuteFails(e, k)) => exes' = exes
  BY DEF ExecuteFails
<1>7. Submit \/ NpuBlock \/ SubmitReturns \/ SubmitFails => exes' = exes
  BY DEF Submit, NpuBlock, SubmitReturns, SubmitFails, heap
<1>8. QED
  BY <1>1, <1>2, <1>3, <1>4, <1>5, <1>6, <1>7 DEF Next

\* Compiling, executing, submitting and destroying keep every variable in its
\* type (fn_LoadedExecutable_Execute on its single relu, tanh and binary paths).
THEOREM Types == Spec => []TypeOK
<1>1. QED
  BY Safe, InvTyped, PTL

\* What an execution hands back is the operation on its whole arguments, half by
\* half and in order: no chunk is skipped, repeated or taken from another call
\* (the chunk loops of fn_LoadedExecutable_Execute); of relu and tanh, where
\* their program lies as captured.
THEOREM Answered == Spec => []ResultRight
<1>1. Inv => ResultRight
  BY DEF Inv, AnswerInv
<1>2. QED
  BY <1>1, Safe, PTL

\* Wherever the kernel BOs of an executable lie, every address a block of its
\* patched commands writes to lies inside one of them (patch_regcmd_tmpl).
THEOREM StaysAtHome == Spec => []WritesOwnBOs
<1>1. QED
  BY Safe, InvOwn, PTL

\* An activation compiled while no IOVA of the fd is taken, by a BO or by one that
\* leaked, gets its kernel BOs at the addresses of its capture (the BOs
\* fn_Client_Compile creates ahead, and the driver's top-down IOVAs).
THEOREM FirstCompiled == Spec => CompileFirstInPlace
<1>1. [Next]_vars => [Held = {} => \A e \in DOMAIN exes' \ DOMAIN exes :
            Captured(exes'[e].op) => InPlace(exes'[e].op, exes'[e].lo)]_vars
  BY NextFirst DEF FirstInPlace
<1>2. QED
  BY <1>1, PTL DEF Spec, CompileFirstInPlace
=============================================================================
