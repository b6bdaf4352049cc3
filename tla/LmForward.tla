----------------------------- MODULE LmForward -----------------------------
(***************************************************************************)
(* lm_forward.c under lm.py's NPUModel: one process-wide model with a KV   *)
(* cache and a position, its weights in the slots of the CNA context.      *)
(*                                                                         *)
(*   LoadBegin / LoadEnd   NPUModel.load_weights: npu_lm_init, one slot    *)
(*                         per weight, npu_lm_load_params                  *)
(*   StepBegin .. StepEnd  npu_lm_step, one layer at a time; prefill and   *)
(*                         generate are loops of steps                     *)
(*   Reset, Close          npu_lm_reset, npu_lm_close                      *)
(*   ForeignSetup/Close    another part of the process on the CNA context  *)
(*                                                                         *)
(* The program has one thread: while a call is in progress (call.op) no    *)
(* other begins.  ctx, kept and out are the variables of Autoregressive.   *)
(***************************************************************************)
EXTENDS CnaContext, Transformer

CONSTANTS
    SwiGlu,      \* use_swiglu
    ProjBlocks,  \* proj_blocks
    LoadRoles,   \* weights the loader copies for each layer
    LoadStride,  \* and how far apart it puts the layers
    RaiseAt,     \* bound: the loads that may fail
    ForeignNw,   \* the n_w other parts of the process set up
    Refusals,    \* bound: the products of a layer whose submit is refused
    ResetsFirst, \* does each model reset before its first step (generate)?
    NoModel, NoToken, Junk,
    Stale        \* what the output BO held before a refused submit

\* lm_idx and the roles of npu_lm_load_slot.
roles == IF SwiGlu THEN 7 ELSE 3 + ProjBlocks

\* Mutant: the layers overlap.
lm_idxOverlaps(i, r) == i * (roles - 1) + r

lm_idx(i, r) == i * roles + r

\* The roles npu_lm_step multiplies by: without projection blocks GPT-2 has
\* one projection, at role 3.
StepReads == IF SwiGlu THEN 0 .. 6
             ELSE 0 .. 2 + (IF ProjBlocks > 0 THEN ProjBlocks ELSE 1)

\* Keys and values come from q, k, v, or from the fused qkv.
StepKvRoles == IF SwiGlu THEN 0 .. 2 ELSE {0}

NSlots == NLayers * roles + 2

ASSUME LmAssumption ==
    /\ SwiGlu \in BOOLEAN
    /\ ProjBlocks \in Nat
    /\ Reads = StepReads
    /\ KvRoles = StepKvRoles
    /\ LoadRoles \in Nat \ {0}
    /\ LoadStride \in Nat \ {0}
    /\ RaiseAt \subseteq LayerNumbers \X (0 .. LoadRoles - 1)
    /\ ForeignNw \subseteq 0 .. MaxSlots
    /\ Refusals \subseteq SUBSET Reads
    /\ ResetsFirst \in BOOLEAN
    /\ NoModel \notin Models
    /\ NoToken \notin Tokens
    /\ NSlots \in 0 .. MaxSlots
    /\ \A i \in LayerNumbers, r \in Reads : lm_idx(i, r) < MaxSlots
    /\ \A m \in Models, i \in LayerNumbers, r \in Reads \union 0 .. LoadRoles - 1 :
          <<m, i, r>> \in SlotWeights

VARIABLES
    up,          \* lm_init_done
    pos,         \* lm_pos
    kv,          \* lm_kcache and lm_vcache
    wte,         \* the model whose parameters were read last
    call,        \* the call in progress
    x,           \* lm_x: the input of the layer it is at
    live,        \* models whose load_weights returned
    holder,      \* the model all slots were last loaded for
    owner,       \* the model that reset last
    dead,        \* the process crashed
    ctx,         \* the tokens each model was given since its reset
    kept,        \* every step since then had the weights of its model, and
                 \* the driver took all its submits
    out          \* the last answer

lmVars == <<up, pos, kv, wte, call, x, live, holder, owner, dead>>
vars == <<cnaVars, lmVars, ctx, kept, out>>

\* lost: the products of the step so far whose submit was refused.
NoCall == [op |-> "none", m |-> NoModel, t |-> NoToken, i |-> 0, lost |-> {}]
LoadCall(m) == [NoCall EXCEPT !.op = "load", !.m = m]
StepCall(m, t) == [NoCall EXCEPT !.op = "step", !.m = m, !.t = t]

Quiet == ~dead /\ call = NoCall

Positions == 0 .. MaxSeq - 1

JunkCache == [i \in LayerNumbers |-> [s \in Positions |-> Junk]]

Init ==
    /\ CnaInit
    /\ ctx = [m \in Models |-> << >>]
    /\ kept = TRUE
    /\ out = NoAnswer
    /\ up = FALSE
    /\ pos = 0
    /\ kv = JunkCache
    /\ wte = NoModel
    /\ call = NoCall
    /\ x = Junk
    /\ live = {}
    /\ holder = NoModel
    /\ owner = NoModel
    /\ dead = FALSE
-----------------------------------------------------------------------------
(* Loading a model *)

\* npu_lm_init: nothing when a model is up; takes an open context as it is.
\* load_weights does not look at the result.
LoadBegin(m) ==
    /\ Quiet
    /\ \/ up /\ UNCHANGED <<cnaVars, up, kv>>
       \/ ~up /\ open /\ UNCHANGED cnaVars /\ up' = TRUE /\ kv' = JunkCache
       \/ /\ ~up /\ ~open
          /\ \E o \in SetupOutcomes :
                CacheSetup(NSlots, o) /\ up' = (o = "ok")
          /\ kv' = JunkCache
    /\ call' = LoadCall(m)
    /\ out' = NoAnswer
    /\ UNCHANGED <<pos, wte, x, live, holder, owner, dead, ctx, kept>>

\* The loads in their order: layer by layer, role by role.
Loads == LayerNumbers \X (0 .. LoadRoles - 1)

Before(k, l) == k[1] < l[1] \/ (k[1] = l[1] /\ k[2] < l[2])

LoadSlot(l) == l[1] * LoadStride + l[2]

\* The slots after the loads D: a later load overwrites an earlier one.
Laid(m, D) ==
    [s \in CnaSlots |->
       LET here == {l \in D : LoadSlot(l) = s}
           last == CHOOSE l \in here : \A k \in here : k = l \/ Before(k, l)
       IN  IF here = {} THEN wt[s] ELSE <<m, last[1], last[2]>>]

\* A load fails, for want of memory or of a slot, and load_weights raises.
\* The slot can have got a new BO by then, and no more.
LoadRaises(m) ==
    /\ \E f \in RaiseAt :
          LET done == {l \in Loads : Before(l, f)}
          IN  /\ \A l \in done : InRange(LoadSlot(l))
              /\ \/ wt' = Laid(m, done)
                 \/ /\ InRange(LoadSlot(f)) /\ wt[LoadSlot(f)] # Nothing
                    /\ wt' = [Laid(m, done) EXCEPT ![LoadSlot(f)] = Unfilled]
    /\ holder' = NoModel
    /\ UNCHANGED <<wte, live, dead>>

\* All slots are loaded.  npu_lm_load_params does not ask whether the model
\* is up: without npu_lm_init it writes to arrays that were freed.
LoadCompletes(m) ==
    /\ \A l \in Loads : InRange(LoadSlot(l))
    /\ wt' = Laid(m, Loads)
    /\ \/ /\ ~up
          /\ dead' = TRUE
          /\ holder' = NoModel
          /\ UNCHANGED <<wte, live>>
       \/ /\ up
          /\ wte' = m
          /\ live' = live \union {m}
          /\ holder' = m
          /\ UNCHANGED dead

LoadEnd(m) ==
    /\ ~dead /\ call = LoadCall(m)
    /\ LoadRaises(m) \/ LoadCompletes(m)
    /\ call' = NoCall
    /\ UNCHANGED <<open, whole, n_w, up, pos, kv, x, owner, ctx, kept, out>>
-----------------------------------------------------------------------------
(* A step *)

\* The program steps a model it has loaded; generate resets first.
MayStep(m) == /\ Quiet
              /\ m \in live
              /\ ResetsFirst => owner = m

StepRefused(m) ==
    /\ MayStep(m)
    /\ ~up \/ pos >= MaxSeq
    /\ out' = NoAnswer
    /\ UNCHANGED <<cnaVars, lmVars, ctx, kept>>

StepBegin(m, t) ==
    /\ MayStep(m)
    /\ up /\ pos < MaxSeq
    /\ call' = StepCall(m, t)
    /\ x' = Embed(wte, t, pos)
    /\ UNCHANGED <<cnaVars, up, pos, kv, wte, live, holder, owner, dead>>
    /\ UNCHANGED <<ctx, kept, out>>

At(i) == ~dead /\ call.op = "step" /\ call.i = i /\ i < NLayers

\* npu_cna_cache_run_m does not see that a submit was refused: it returns 0
\* and adds up what the output BO holds.  An empty slot submits nothing.
Refusable(i) ==
    {R \in Refusals : \A r \in R : wt[lm_idx(i, r)] # Nothing}

\* What the products of roles Q come from when those of R are refused.
InSlots(i, Q, R) ==
    [r \in Q |-> IF r \in R THEN Stale ELSE wt[lm_idx(i, r)]]

AllInRange(i, Q) == \A r \in Q : InRange(lm_idx(i, r))

\* A tile is submitted through a working BO that does not exist.
Crashes(i) == ~whole /\ \E r \in Reads : wt[lm_idx(i, r)] # Nothing

\* Mutant: the key and value go to the first free position of layer 0.
KvWritten0(i, R) ==
    [kv EXCEPT ![0][pos] = KeyValue(InSlots(i, KvRoles, R), x)]

\* The key and value of the token, at its position.
KvWritten(i, R) ==
    [kv EXCEPT ![i][pos] = KeyValue(InSlots(i, KvRoles, R), x)]

StepLayer(i) ==
    /\ At(i)
    /\ AllInRange(i, Reads)
    /\ ~Crashes(i)
    /\ \E R \in Refusable(i) :
          /\ kv' = KvWritten(i, R)
          /\ x' = Block(InSlots(i, Reads, R), x,
                        [s \in 0 .. pos |-> kv'[i][s]])
          /\ call' = [call EXCEPT !.i = i + 1, !.lost = @ \union R]
    /\ UNCHANGED <<cnaVars, up, pos, wte, live, holder, owner, dead>>
    /\ UNCHANGED <<ctx, kept, out>>

\* Mutant: the position is taken although the step failed.
StepFailsLate(i) ==
    /\ At(i)
    /\ ~AllInRange(i, Reads)
    /\ IF AllInRange(i, KvRoles)
       THEN \E R \in Refusable(i) : kv' = KvWritten(i, R)
       ELSE UNCHANGED kv
    /\ pos' = pos + 1
    /\ call' = NoCall
    /\ x' = Junk
    /\ out' = NoAnswer
    /\ UNCHANGED <<cnaVars, up, wte, live, holder, owner, dead, ctx, kept>>

\* A matmul fails, before or after the layer's key and value were written.
StepFails(i) ==
    /\ At(i)
    /\ ~AllInRange(i, Reads)
    /\ IF AllInRange(i, KvRoles)
       THEN \E R \in Refusable(i) : kv' = KvWritten(i, R)
       ELSE UNCHANGED kv
    /\ call' = NoCall
    /\ x' = Junk
    /\ out' = NoAnswer
    /\ UNCHANGED <<cnaVars, up, pos, wte, live, holder, owner, dead>>
    /\ UNCHANGED <<ctx, kept>>

StepCrashes(i) ==
    /\ At(i)
    /\ Crashes(i)
    /\ dead' = TRUE
    /\ UNCHANGED <<cnaVars, up, pos, kv, wte, call, x, live, holder, owner>>
    /\ UNCHANGED <<ctx, kept, out>>

\* The head multiplies by the embedding table.
StepEnd ==
    /\ ~dead /\ call.op = "step" /\ call.i = NLayers
    /\ pos' = pos + 1
    /\ call' = NoCall
    /\ x' = Junk
    /\ ctx' = [ctx EXCEPT ![call.m] = Append(@, call.t)]
    /\ kept' = (kept /\ holder = call.m /\ call.lost = {})
    /\ out' = Answer(call.m, <<wte, x>>)
    /\ UNCHANGED <<cnaVars, up, kv, wte, live, holder, owner, dead>>
-----------------------------------------------------------------------------
(* Reset, close and the rest of the process *)

\* Mutant: the position stays.
ResetNothing(m) ==
    /\ Quiet
    /\ owner' = m
    /\ ctx' = [ctx EXCEPT ![m] = << >>]
    /\ kept' = TRUE
    /\ out' = NoAnswer
    /\ UNCHANGED <<cnaVars, up, pos, kv, wte, call, x, live, holder, dead>>

LmReset(m) ==
    /\ Quiet
    /\ pos' = 0
    /\ owner' = m
    /\ ctx' = [ctx EXCEPT ![m] = << >>]
    /\ kept' = TRUE
    /\ out' = NoAnswer
    /\ UNCHANGED <<cnaVars, up, kv, wte, call, x, live, holder, dead>>

\* npu_lm_close frees the cache and closes the context.  The position and the
\* embedding table stay.
LmClose(m) ==
    /\ Quiet
    /\ m \in live
    /\ CacheClose
    /\ up' = FALSE
    /\ kv' = JunkCache
    /\ live' = live \ {m}
    /\ holder' = NoModel
    /\ owner' = NoModel
    /\ ctx' = [n \in Models |-> << >>]
    /\ kept' = TRUE
    /\ out' = NoAnswer
    /\ UNCHANGED <<pos, wte, call, x, dead>>

\* npu_vision_init, a new PJRT client or a script sets the context up.
ForeignSetup(n) ==
    /\ Quiet
    /\ \E o \in SetupOutcomes : CacheSetup(n, o)
    /\ holder' = NoModel
    /\ out' = NoAnswer
    /\ UNCHANGED <<up, pos, kv, wte, call, x, live, owner, dead, ctx, kept>>

\* npu_vision_close or npu_cna_close.
ForeignClose ==
    /\ Quiet
    /\ CacheClose
    /\ holder' = NoModel
    /\ out' = NoAnswer
    /\ UNCHANGED <<up, pos, kv, wte, call, x, live, owner, dead, ctx, kept>>

Restart ==
    /\ dead
    /\ open' = FALSE /\ whole' = FALSE /\ n_w' = 0
    /\ wt' = [s \in CnaSlots |-> Nothing]
    /\ up' = FALSE /\ pos' = 0 /\ kv' = JunkCache /\ wte' = NoModel
    /\ call' = NoCall /\ x' = Junk /\ dead' = FALSE
    /\ live' = {} /\ holder' = NoModel /\ owner' = NoModel
    /\ ctx' = [m \in Models |-> << >>] /\ kept' = TRUE /\ out' = NoAnswer

Next ==
    \/ \E m \in Models :
          \/ LoadBegin(m) \/ LoadEnd(m)
          \/ StepRefused(m) \/ \E t \in Tokens : StepBegin(m, t)
          \/ LmReset(m) \/ LmClose(m)
    \/ \E i \in LayerNumbers : StepLayer(i) \/ StepFails(i) \/ StepCrashes(i)
    \/ StepEnd
    \/ \E n \in ForeignNw : ForeignSetup(n)
    \/ ForeignClose
    \/ Restart

Spec == Init /\ [][Next]_vars
-----------------------------------------------------------------------------
(* Properties *)

Abstract == INSTANCE Autoregressive

Calls == [op : {"none", "load", "step"}, m : Models \union {NoModel},
          t : Tokens \union {NoToken}, i : 0 .. NLayers, lost : SUBSET Reads]

KvShape == kv = [i \in LayerNumbers |-> [s \in Positions |-> kv[i][s]]]

\* Every variable has its type; the values the layers compute have none.
LmTypes ==
    /\ CnaTypeOK
    /\ up \in BOOLEAN
    /\ pos \in 0 .. MaxSeq
    /\ KvShape
    /\ wte \in Models \union {NoModel}
    /\ call \in Calls
    /\ live \subseteq Models
    /\ holder \in Models \union {NoModel}
    /\ owner \in Models \union {NoModel}
    /\ dead \in BOOLEAN
    /\ ctx \in [Models -> Seq(Tokens)]
    /\ kept \in BOOLEAN

\* No context is longer than the cache.
TypeOK == LmTypes /\ \A m \in Models : Len(ctx[m]) <= MaxSeq

\* "Process prompt tokens. Returns logits for last token." (torch_npu.py 396):
\* the logits of a step are those of the transformer on the tokens the model
\* was given since its reset, whatever the KV cache, the position and the
\* slots went through before.  Nothing is said from a step on that ran on
\* weights that were overwritten or whose submit was refused, until the reset.
LogitsOfContext ==
    out.ok /\ kept => /\ ctx[out.model] \in Contexts
                      /\ out.logits = Logits(out.model, ctx[out.model])

\* The same sentence with no exception.  A program that has its context to
\* itself still gets other logits, with rc 0, when the driver refuses a
\* submit: cna_submit_wt drops the result (cna_matmul.c 169).
EveryAnswerOfContext ==
    out.ok => /\ ctx[out.model] \in Contexts
              /\ out.logits = Logits(out.model, ctx[out.model])

\* "role mapping (per layer, slot = i*roles + role)" (lm_forward.c 123-128):
\* once a model is loaded, each role of each layer finds its own weight.
RolesInPlace ==
    holder # NoModel =>
        \A i \in LayerNumbers, r \in Reads :
            InRange(lm_idx(i, r)) /\ wt[lm_idx(i, r)] = <<holder, i, r>>

\* The cache below the position holds, for each layer and token, the key and
\* value the transformer computes for it without a cache.
CacheOfContext ==
    up /\ kept /\ owner # NoModel =>
        /\ pos = Len(ctx[owner])
        /\ \A i \in LayerNumbers, s \in 0 .. pos - 1 :
              kv[i][s] = KeyValue(KvWeights(owner, i),
                                  Hidden(owner, i, Prefix(ctx[owner], s + 1)))

\* While the loader and lm_idx agree and every model resets first, these are
\* inductive together with the cache: the position counts the tokens of the
\* model that reset last, and x is the input of the layer a step is at.
PositionOfContext ==
    owner # NoModel => pos = Len(ctx[owner]) /\ (~up => pos = 0)

StepPlace ==
    call.op = "step" =>
        pos < MaxSeq /\ call.m \in Models /\ call.t \in Tokens

StepOwner == call.op = "step" => up /\ owner = call.m

StepValues ==
    call.op = "step" /\ kept /\ holder = call.m /\ call.lost = {} =>
        LET c == Append(ctx[call.m], call.t)
        IN  /\ x = Hidden(call.m, call.i, c)
            /\ \A i \in 0 .. call.i - 1 :
                  kv[i][pos] = KeyValue(KvWeights(call.m, i),
                                        Hidden(call.m, i, c))

HolderRead == holder # NoModel => wte = holder

\* Every operation is an operation of the model without a cache, or is not
\* seen.
Implements == Abstract!Spec
=============================================================================
