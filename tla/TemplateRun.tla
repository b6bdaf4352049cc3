----------------------------- MODULE TemplateRun -----------------------------
(***************************************************************************)
(* Running a captured matmul program: npu_matmul_raw, the weight cache     *)
(* npu_mm_cache_*, and the placement probes npu_test_* of                  *)
(* pjrt_npu_impl.c, down to the register words and the blocks the NPU      *)
(* executes one after the other.                                           *)
(*                                                                         *)
(* Each of these keeps a file descriptor, and so an IOMMU domain, of its   *)
(* own and shares nothing with the others: the module has one of them open *)
(* at a time.  The BOs of the open one are 1..6 in the order of the roles; *)
(* the weight BOs created after them are 7, 8, ...                         *)
(***************************************************************************)
EXTENDS NpuChain, FiniteSets

CONSTANTS
    Templates,    \* mm_templates: name -> program
    Xs, Ws,       \* contents of X and of W
    NoW,          \* what a weight BO holds before anything is copied to it
    NSlots,       \* n_w of npu_mm_cache_setup
    Environments, \* values of [zsz, one_copy]: NPU_ZSZ and NPU_1COPY
    Fillers, Extras, LowRoles,  \* arguments of npu_test_reach, _wbelow, _bo_low
    AbortAfter    \* how many blocks may have run when a submit times out

ASSUME ConstantAssumption ==
    /\ NoW \notin Ws
    /\ NSlots \in Nat \ {0}
    /\ "qkv" \in DOMAIN Templates  \* mm_templates[1]
    /\ \A e \in Environments : e.zsz \in Nat /\ e.one_copy \in BOOLEAN
    /\ Fillers \subseteq Nat /\ Extras \subseteq Nat \ {0} /\ LowRoles \subseteq 1 .. OUTPUT

BlockKinds == {"reader", "transposer", "repacker", "tile", "writer"}

\* A capture has three copies of a chain, and a submit runs one of them.  As
\* captured, each task entry is the address of a block, and the chain word of
\* that block is the next entry; the last entry of a copy leads nowhere.
ASSUME TemplateAssumption ==
    \A t \in DOMAIN Templates :
        LET p == Templates[t]
        IN  /\ p.cap[REGCMD] \in Int
            /\ p.n_tasks = 3 * p.count /\ DOMAIN p.task_tmpl = 1 .. p.n_tasks
            /\ p.count \in 1 .. 59 /\ p.start \in {0, p.count, 2 * p.count}
            /\ \A b \in DOMAIN p.regcmd_tmpl :
                   /\ p.regcmd_tmpl[b].kind \in BlockKinds /\ p.regcmd_tmpl[b].at \in Int
                   /\ \A c \in DOMAIN p.regcmd_tmpl : p.regcmd_tmpl[b].at = p.regcmd_tmpl[c].at => b = c
            /\ \A i \in DOMAIN p.task_tmpl : \E b \in DOMAIN p.regcmd_tmpl :
                   /\ p.task_tmpl[i] = p.cap[REGCMD] + p.regcmd_tmpl[b].at
                   /\ Within(p.task_tmpl[i], p.cap[REGCMD], p.sz[REGCMD])
                   /\ IF i % p.count = 0 THEN "next" \notin DOMAIN p.regcmd_tmpl[b].words
                      ELSE /\ "next" \in DOMAIN p.regcmd_tmpl[b].words
                           /\ i + 1 \in DOMAIN p.task_tmpl
                           /\ p.regcmd_tmpl[b].words["next"] = p.task_tmpl[i + 1]

VARIABLES
    env,     \* the environment variables, read once
    open,    \* "closed", "raw" (s_mm_mfd), "cache" (s_wc_mfd) or "probe"
    tpl,     \* s_mm_tpl, s_wc_tpl: the name of the open template
    lo,      \* dma_addr of the BOs
    mapped,  \* the BOs that exist in the domain of this fd
    rc, tk,  \* the regcmd and the task BO: patched blocks, patched regcmd_addrs
    io1,     \* s_wc_io1_off, s_wc_io1_suboff: <<block, register, offset in W>>
    xin,     \* what the input BO holds
    win,     \* what each weight BO holds
    out,     \* what the output BO holds: operands of a product, or <<>>
    dev,     \* the NPU: address of the next block, blocks left, register groups, scratch
    job,     \* operands of the call in progress, <<>> when there is none
    answer   \* what the last call returned
bo == <<open, tpl, lo, mapped>>
vars == <<env, bo, rc, tk, io1, xin, win, out, dev, job, answer>>

Failed == <<"failed">>
T(t) == Templates[t]
Words == {"src", "dst", "feature", "weight", "notch"}  \* those with a DMA core id
Blocks(t) == [b \in DOMAIN T(t).regcmd_tmpl |-> T(t).regcmd_tmpl[b].words]
Size(t, b) == IF b <= OUTPUT THEN T(t).sz[b] ELSE T(t).sz[WEIGHTS]
Idle == job = <<>>
NoDev == [at |-> 0, left |-> 0, group |-> 1, regs |-> <<>>, mem |-> {}]
Unwritten == [r \in {} |-> 0]

(***************************************************************************)
(* Opening: BOs at `at', the W role patched to the BO `w'.                 *)
(***************************************************************************)
Load(kind, t, at, exists, w) ==
    LET my == [r \in 1 .. OUTPUT |-> IF r = WEIGHTS THEN at[w] ELSE at[r]]
    IN  /\ open' = kind /\ tpl' = t /\ lo' = at /\ mapped' = exists
        /\ rc' = patch_regcmd_tmpl(Blocks(t), T(t).cap, my, T(t).sz)
        /\ tk' = patch_task_tmpl(T(t).task_tmpl, T(t).cap, my, T(t).sz)

\* Mutant: the BOs are not freed.
ShutKeepsBOs == /\ open' = "closed" /\ tpl' = "" /\ lo' = <<>> /\ UNCHANGED mapped
                /\ rc' = <<>> /\ tk' = <<>> /\ io1' = {} /\ win' = <<>> /\ dev' = NoDev

Shut == /\ open' = "closed" /\ tpl' = "" /\ lo' = <<>> /\ mapped' = {}
        /\ rc' = <<>> /\ tk' = <<>> /\ io1' = {} /\ win' = <<>> /\ dev' = NoDev

\* n weight BOs below the six.
SizesWith(t, n) == T(t).sz \o [i \in 1 .. n |-> T(t).sz[WEIGHTS]]
WithExtra(t, n) == Place(SizesWith(t, n), 0)

\* The words that the capture had in W: those of a slot.
SlotWords(t) ==
    {p \in (DOMAIN Blocks(t)) \X Words :
        /\ p[2] \in DOMAIN Blocks(t)[p[1]]
        /\ Within(Blocks(t)[p[1]][p[2]], T(t).cap[WEIGHTS], T(t).sz[WEIGHTS])}

\* The captures are complete, their BOs apart, and the kernel keeps them apart. A
\* word is an integer, and one that is no address does not look like one in a slot.
ASSUME CaptureAssumption ==
    \A t \in DOMAIN Templates :
        LET p == Templates[t]
            at == WithExtra(t, NSlots)
        IN  /\ p.cap \in [1 .. OUTPUT -> Int] /\ p.sz \in [1 .. OUTPUT -> Nat]
            /\ at \in [1 .. OUTPUT + NSlots -> Int]
            /\ Disjoint(p.cap, p.sz) /\ Disjoint(at, SizesWith(t, NSlots))
            /\ IsFiniteSet(SlotWords(t)) /\ Cardinality(SlotWords(t)) <= 32
            /\ \A b \in DOMAIN Blocks(t) : \A r \in Words \cap DOMAIN Blocks(t)[b] :
                   /\ Blocks(t)[b][r] \in Int
                   /\ Windows(Blocks(t)[b][r], p.cap, p.sz) = {} =>
                          ~Within(Blocks(t)[b][r], at[OUTPUT + 1], p.sz[WEIGHTS])

(***************************************************************************)
(* A submit: count tasks from start.  The driver hands the NPU the address *)
(* of the first block and the count; scratch holds `kept'.                 *)
(***************************************************************************)
Begin(start, count, kept) ==
    /\ dev' = [at |-> tk'[start + 1], left |-> count, group |-> 1,
               regs |-> <<Unwritten, Unwritten>>, mem |-> kept]
    /\ out' = <<>> /\ answer' = <<>>

\* s_mm_tpl and s_mm_shape are those of this call: the BOs and their patches stay.
Reuse(t) == open = "raw" /\ tpl = t

npu_matmul_raw(t, x, w) ==
    /\ Idle /\ open \in {"closed", "raw"}
    /\ IF Reuse(t) THEN UNCHANGED <<bo, rc, tk, io1>>
       ELSE LET at == Place(T(t).sz, 0)
            IN  Load("raw", t, at, DOMAIN at, WEIGHTS) /\ io1' = {}
    /\ xin' = x /\ win' = [b \in {WEIGHTS} |-> w] /\ job' = <<x, w>>
    /\ Begin(T(t).start, T(t).count, {})
    /\ UNCHANGED env

\* open() or a create_bo fails: what was open is gone, nothing new is.
MatmulRawFails == /\ Idle /\ open \in {"closed", "raw"}
                  /\ \E t \in DOMAIN Templates : ~Reuse(t)
                  /\ Shut /\ answer' = Failed
                  /\ UNCHANGED <<env, xin, out, job>>

npu_matmul_close == /\ Idle /\ open = "raw" /\ Shut
                    /\ UNCHANGED <<env, xin, out, job, answer>>

(***************************************************************************)
(* The weight cache.  Setup patches W to wb[0] and then looks for the words*)
(* that lie in wb[0]: those are the ones a run repoints.                   *)
(***************************************************************************)
npu_mm_cache_setup(t) ==
    LET at == WithExtra(t, NSlots)
        first == OUTPUT + 1
    IN  /\ Idle /\ open = "closed"
        /\ Load("cache", t, at, DOMAIN at, first)
        /\ io1' = {<<p[1], p[2], rc'[p[1]][p[2]] - at[first]>> : p \in
                     {p \in (DOMAIN rc') \X Words :
                         /\ p[2] \in DOMAIN rc'[p[1]]
                         /\ Within(rc'[p[1]][p[2]], at[first], Size(t, first))}}
        /\ win' = [i \in first .. OUTPUT + NSlots |-> NoW]
        /\ UNCHANGED <<env, xin, out, dev, job, answer>>

npu_mm_cache_load(i, w) ==
    /\ Idle /\ open = "cache"
    /\ win' = [win EXCEPT ![i] = w]
    /\ UNCHANGED <<env, bo, rc, tk, io1, xin, out, dev, job, answer>>

\* Mutants: the offset in W is lost; the words of one block keep their slot; the
\* words are moved from where the last run left them.
Io1WithoutOffset(i) ==
    [b \in DOMAIN rc |-> [r \in DOMAIN rc[b] |->
        IF \E e \in io1 : e[1] = b /\ e[2] = r THEN lo[i] ELSE rc[b][r]]]
Io1ButFirst(i) ==
    [b \in DOMAIN rc |-> [r \in DOMAIN rc[b] |->
        IF b > 1 /\ \E e \in io1 : e[1] = b /\ e[2] = r
        THEN lo[i] + (CHOOSE e \in io1 : e[1] = b /\ e[2] = r)[3]
        ELSE rc[b][r]]]
Io1MovedAgain(i) ==
    [b \in DOMAIN rc |-> [r \in DOMAIN rc[b] |->
        IF \E e \in io1 : e[1] = b /\ e[2] = r
        THEN rc[b][r] + (lo[i] - lo[OUTPUT + 1]) ELSE rc[b][r]]]

\* s_wc_io1_off/suboff: every W word goes to the BO of the slot asked for.
Io1Repointed(i) ==
    [b \in DOMAIN rc |-> [r \in DOMAIN rc[b] |->
        IF \E e \in io1 : e[1] = b /\ e[2] = r
        THEN lo[i] + (CHOOSE e \in io1 : e[1] = b /\ e[2] = r)[3]
        ELSE rc[b][r]]]

\* X against slot i; scratch is zeroed up to `zeroed', NPU_1COPY runs the last
\* of the three copies of the chain.
CachedMatmul(i, x, zeroed) ==
    LET t == T(tpl)
        third == t.n_tasks \div 3
        kept == {p \in dev.mem : p.lo >= lo[SCRATCH] + zeroed}
    IN  /\ Idle /\ open = "cache"
        /\ rc' = Io1Repointed(i)
        /\ UNCHANGED <<env, bo, tk, io1, win>>
        /\ xin' = x /\ job' = <<x, win[i]>>
        /\ IF env.one_copy THEN Begin(2 * third, third, kept)
                           ELSE Begin(t.start, t.count, kept)

npu_mm_cache_run(i, x) ==
    CachedMatmul(i, x, IF env.zsz > 0 THEN Lower(env.zsz, Size(tpl, SCRATCH))
                                      ELSE Size(tpl, SCRATCH))

\* The same, with its own reading of the environment and without NPU_ZSZ; the
\* host adds the bias and the residual to the answer.
npu_mm_cache_run_bias(i, x) == CachedMatmul(i, x, Size(tpl, SCRATCH))

npu_mm_cache_close == /\ Idle /\ open = "cache" /\ Shut
                      /\ UNCHANGED <<env, xin, out, job, answer>>

(***************************************************************************)
(* The probes: the same program in an fd of its own that goes with the     *)
(* answer, with its BOs placed otherwise (at), W read from the BO wbo.     *)
(* The relu runs that npu_test_coexist alternates with are left out.       *)
(***************************************************************************)
Probe(t, at, exists, wbo, x, w) ==
    /\ Idle /\ open = "closed"
    /\ Load("probe", t, at, exists, wbo)
    /\ io1' = {} /\ xin' = x /\ win' = [b \in {wbo} |-> w] /\ job' = <<x, w>>
    /\ Begin(T(t).start, T(t).count, {})
    /\ UNCHANGED env

\* All of them below n_filler BOs of a weight's size.
Filler == 1179648
npu_test_reach(n_filler, t, x, w) ==
    LET at == Place(T(t).sz, n_filler * Filler)
    IN  Probe(t, at, DOMAIN at, WEIGHTS, x, w)

\* At the top, W in the last of n_extra BOs below.
npu_test_wbelow(n_extra, t, x, w) ==
    LET at == WithExtra(t, n_extra)
    IN  Probe(t, at, DOMAIN at, Len(at), x, w)

\* The others take mm_templates[1].  Below the BOs of the relu kernel, W in a
\* BO below these.
ReluBytes == 4096 + 8192 + 294912 + 98304 + 98304
npu_test_coexist(x, w) ==
    LET at == Place(Append(T("qkv").sz, T("qkv").sz[WEIGHTS]), ReluBytes)
    IN  Probe("qkv", at, DOMAIN at, Len(at), x, w)

\* All but one at the top, that one last.
LastOf(t, r) ==
    LET rest == [s \in DOMAIN T(t).sz |-> IF s = r THEN 0 ELSE T(t).sz[s]]
        at == Place(rest, 0)
    IN  [at EXCEPT ![r] = at[OUTPUT] - T(t).sz[r]]
npu_test_bo_low(which, x, w) ==
    LET at == LastOf("qkv", which)
    IN  Probe("qkv", at, DOMAIN at, WEIGHTS, x, w)

\* The input lies in another fd, and so in another domain: at the top of that one.
npu_test_crossfd(x, w) ==
    LET at == [LastOf("qkv", INPUT) EXCEPT ![INPUT] = -T("qkv").sz[INPUT]]
    IN  Probe("qkv", at, DOMAIN at \ {INPUT}, WEIGHTS, x, w)

\* After an fd that had device buffers was closed.
npu_test_coldpath(x, w) ==
    LET at == Place(T("qkv").sz, 0)
    IN  Probe("qkv", at, DOMAIN at, WEIGHTS, x, w)

(***************************************************************************)
(* The NPU (external): it runs a block and goes where its chain word says. *)
(***************************************************************************)
Running == ~Idle /\ dev.left > 0
BlockAt(a) == CHOOSE b \in DOMAIN rc : lo[REGCMD] + T(tpl).regcmd_tmpl[b].at = a
Current == BlockAt(dev.at)
Kind == T(tpl).regcmd_tmpl[Current].kind
Registers == Over(rc[Current], dev.regs[dev.group])

\* What a reader finds at an address: the mapped BO it lies in.
Homes(a) == {b \in mapped : Within(a, lo[b], Size(tpl, b))}
Content(a) ==
    IF INPUT \in Homes(a) THEN [m |-> "X", of |-> <<xin>>]
    ELSE IF Homes(a) \cap DOMAIN win = {} THEN Garbage
    ELSE [m |-> "W", of |-> <<win[CHOOSE h \in Homes(a) \cap DOMAIN win : TRUE]>>]
Base(a) == IF Homes(a) = {} THEN a ELSE lo[CHOOSE h \in Homes(a) : TRUE]

Made(f) == Produced(Kind, f, dev.mem, Content(f.src), Base(f.src),
                    IF f.weight = lo[REGCMD] + \hC0 THEN T(tpl).ones ELSE {})

\* Everything the block touches lies in BOs of this fd.
InScratch(p) == lo[SCRATCH] <= p.lo /\ End(p) <= lo[SCRATCH] + Size(tpl, SCRATCH)
Sound(f) ==
    CASE Kind = "reader" ->
           /\ \E b \in mapped : lo[b] <= SourceLow(f) /\ SourceEnd(f) <= lo[b] + Size(tpl, b)
           /\ InScratch(Made(f))
      [] Kind = "repacker" -> Drift(f) = 0 /\ InScratch(Made(f))
      [] Kind = "writer" -> /\ InScratch(Piece(f.src, 8, f.step, f.step, Garbage))
                            /\ f.dst = lo[OUTPUT] /\ f.step * 8 = Size(tpl, OUTPUT)
      [] OTHER -> InScratch(Made(f))

NpuBlock ==
    LET f == Registers
    IN  /\ Running
        /\ dev' = [at |-> IF "next" \in DOMAIN rc[Current] THEN f.next ELSE 0,
                   left |-> dev.left - 1, group |-> 3 - dev.group,
                   regs |-> [dev.regs EXCEPT ![dev.group] = f],
                   mem |-> IF Kind = "writer" THEN dev.mem ELSE Put(dev.mem, Made(f))]
        /\ out' = IF Kind = "writer" THEN Written(f, dev.mem) ELSE out
        /\ UNCHANGED <<env, bo, rc, tk, io1, xin, win, job, answer>>

\* The submit returns 0: the output BO is read.  A probe frees its BOs.
SubmitDone ==
    /\ ~Idle /\ dev.left = 0
    /\ answer' = out /\ job' = <<>>
    /\ IF open = "probe" THEN Shut ELSE UNCHANGED <<bo, rc, tk, io1, win, dev>>
    /\ UNCHANGED <<env, xin, out>>

\* The submit returns an error.  Only the cache stays as it is.
SubmitFails ==
    /\ Running
    /\ ~Sound(Registers) \/ T(tpl).count - dev.left \in AbortAfter
    /\ answer' = Failed /\ job' = <<>>
    /\ IF open = "cache" THEN dev' = [dev EXCEPT !.left = 0] /\ UNCHANGED <<bo, rc, tk, io1, win>>
                         ELSE Shut
    /\ UNCHANGED <<env, xin, out>>

Init == /\ env \in Environments
        /\ open = "closed" /\ tpl = "" /\ lo = <<>> /\ mapped = {}
        /\ rc = <<>> /\ tk = <<>> /\ io1 = {} /\ win = <<>>
        /\ xin = NoW /\ out = <<>> /\ dev = NoDev /\ job = <<>> /\ answer = <<>>

Next == \/ \E t \in DOMAIN Templates, x \in Xs, w \in Ws : npu_matmul_raw(t, x, w)
        \/ MatmulRawFails
        \/ npu_matmul_close
        \/ \E t \in DOMAIN Templates : npu_mm_cache_setup(t)
        \/ \E i \in DOMAIN win, w \in Ws : npu_mm_cache_load(i, w)
        \/ \E i \in DOMAIN win, x \in Xs : npu_mm_cache_run(i, x)
        \/ \E i \in DOMAIN win, x \in Xs : npu_mm_cache_run_bias(i, x)
        \/ npu_mm_cache_close
        \/ \E n \in Fillers, t \in DOMAIN Templates, x \in Xs, w \in Ws : npu_test_reach(n, t, x, w)
        \/ \E n \in Extras, t \in DOMAIN Templates, x \in Xs, w \in Ws : npu_test_wbelow(n, t, x, w)
        \/ \E r \in LowRoles, x \in Xs, w \in Ws : npu_test_bo_low(r, x, w)
        \/ \E x \in Xs, w \in Ws : \/ npu_test_coexist(x, w) \/ npu_test_crossfd(x, w)
                                    \/ npu_test_coldpath(x, w)
        \/ NpuBlock
        \/ SubmitDone
        \/ SubmitFails

Spec == Init /\ [][Next]_vars

(***************************************************************************)
(* Properties.                                                             *)
(***************************************************************************)

\* Type invariant: one context at a time, its BOs and programs complete, the
\* weights it can read known, and an NPU job only while a call waits for it.
TypeOK ==
    /\ env \in Environments
    /\ open \in {"closed", "raw", "cache", "probe"}
    /\ IF open = "closed" THEN <<tpl, lo, mapped, rc, tk, io1, win>>
                                = <<"", <<>>, {}, <<>>, <<>>, {}, <<>>>>
       ELSE /\ tpl \in DOMAIN Templates
            /\ DOMAIN rc = DOMAIN T(tpl).regcmd_tmpl /\ Len(tk) = T(tpl).n_tasks
            /\ mapped \subseteq DOMAIN lo /\ DOMAIN win \subseteq DOMAIN lo
            /\ \A i \in DOMAIN win : win[i] \in Ws \cup {NoW}
            /\ \A e \in io1 : e[1] \in DOMAIN rc /\ e[2] \in Words
    /\ xin \in Xs \cup {NoW}
    /\ job \in {<<>>} \cup (Xs \X (Ws \cup {NoW}))
    /\ answer \in {<<>>, Failed} \cup (Xs \X (Ws \cup {NoW}))
    /\ dev.group \in {1, 2} /\ dev.left \in 0 .. 59
    /\ open = "closed" => Idle

\* The program lies where it was captured.  The other BOs may lie elsewhere.
InPlace == \/ open = "closed"
           \/ /\ lo[REGCMD] = T(tpl).cap[REGCMD] /\ lo[SCRATCH] = T(tpl).cap[SCRATCH]
              /\ INPUT \in mapped

\* Whatever context answers, and whatever scratch, the register groups and the
\* patched words kept from an earlier call, a call of a program in place gives
\* the product of its own operands, or fails (npu_matmul_raw, npu_mm_cache_run).
Kernel == INSTANCE NpuKernel WITH
    SlotSets <- {{WEIGHTS}} \cup {OUTPUT + 1 .. OUTPUT + n : n \in {1, NSlots} \cup Extras},
    weights <- win, placed <- InPlace
Implements == Kernel!Spec

\* A program in place touches nothing outside the BOs it was given, in any of
\* its blocks: not past the end of scratch, nor another role's BO.
AccessInsideBO == Running /\ InPlace => Sound(Registers)

\* However the BOs lie, the chain word of each block leads to the block of the
\* next task entry, and the last one of a copy leads nowhere: the task table
\* and the program are patched by two functions that must agree.
ChainFollowsTable ==
    open # "closed" => \A i \in DOMAIN tk : \E b \in DOMAIN rc :
        /\ tk[i] = lo[REGCMD] + T(tpl).regcmd_tmpl[b].at
        /\ IF i % T(tpl).count = 0 THEN "next" \notin DOMAIN rc[b]
           ELSE "next" \in DOMAIN rc[b] /\ rc[b]["next"] = tk[i + 1]

\* The words a cached run repoints are those that the capture had in W, no
\* other word that happens to lie in the first slot, and they fit the array
\* that remembers them; all of them point to one slot.
SlotWordsFound ==
    open = "cache" =>
        /\ {<<e[1], e[2]>> : e \in io1} = SlotWords(tpl) /\ Cardinality(io1) <= 32
        /\ \E i \in DOMAIN win : \A e \in io1 : rc[e[1]][e[2]] = lo[i] + e[3]

\* "repoint to matching cap range": what is no address stays as captured.  The
\* notch of a strided reader is a distance (register 0x504c).
OnlyAddressesMove ==
    open # "closed" => \A b \in DOMAIN rc :
        "notch" \in DOMAIN rc[b] => rc[b]["notch"] = Blocks(tpl)[b]["notch"]
==============================================================================
