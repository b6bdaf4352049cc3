------------------------------ MODULE CnaUsers ------------------------------
(***************************************************************************)
(* The parts of one process that share the CNA context:                    *)
(*                                                                         *)
(*   plugin  fn_Client_Create loads weight files, op 7 (npu_cached_mm)     *)
(*           multiplies by a slot, or by one of op 6's weight cache        *)
(*   vision  vision_forward.c: npu_vision_init / load_weights / forward    *)
(*   lm      lm_forward.c: npu_lm_init2 / load_slot / step                 *)
(*   script  a program that calls npu_cna_cache_* through ctypes           *)
(*                                                                         *)
(* and npu_cna_attention, which claims two slots for itself.  Each user    *)
(* remembers which of its weights it has loaded; the context does not.     *)
(* Each slot of a user stands for all the weights of one of its layers.    *)
(***************************************************************************)
EXTENDS CnaContext

CONSTANTS
    Users,       \* the parts the program uses
    Uses,        \* how many slots each one loads and runs
    Asks,        \* the n_w each one sets the context up with
    AttnK,       \* ATTN_K_SLOT
    AttnV,       \* ATTN_V_SLOT
    Attends,     \* does the program call npu_cna_attention?
    Keys,        \* bound: the keys and values it is called with
    CacheSlots,  \* MM_NWPRE, the slots of op 6's weight cache
    Stale,       \* what the output BO, or the caller's buffer, held before
    Checking,    \* the users whose weights are loaded by a program that looks
                 \* at the results: NPUModel.load_weights does, the loaders of
                 \* torch_npu.py and for LLaMA do not
    Exclusive    \* does it close one user before it starts the next?

AllUsers == {"plugin", "vision", "lm", "script"}

ASSUME UserAssumption ==
    /\ Users \subseteq AllUsers
    /\ Uses \in [AllUsers -> 0 .. MaxSlots]
    /\ Asks \in [AllUsers -> 0 .. MaxSlots]
    /\ \A u \in AllUsers : Uses[u] <= Asks[u]
    /\ AttnK \in CnaSlots
    /\ AttnV \in CnaSlots
    /\ AttnK # AttnV
    /\ Attends \in BOOLEAN
    /\ CacheSlots \in Nat
    /\ Checking \subseteq AllUsers
    /\ Exclusive \in BOOLEAN
    /\ SlotWeights = (AllUsers \X CnaSlots) \union ({"attention"} \X Keys)

VARIABLES
    cached,      \* slots of op 6's weight cache that hold a weight; -1 when the
                 \* cache is not set up
    up,          \* users that have initialised (init_done, a live client)
    has,         \* slots each user loaded successfully
    last,        \* the last matmul: how and for whom it ran, which slot (of
                 \* attention: which keys), what the answer came from
    crashed      \* a run on a context that lacks a working BO

usersVars == <<open, whole, n_w, wt, cached, up, has, last, crashed>>

SlotsOf(u) == 0 .. Uses[u] - 1

NoRun == [ok |-> FALSE, how |-> "none", user |-> "none", slot |-> 0,
          used |-> Nothing]

Ran(h, u, s, x) == [ok |-> TRUE, how |-> h, user |-> u, slot |-> s, used |-> x]

UsersInit ==
    /\ CnaInit
    /\ cached = -1
    /\ up = {}
    /\ has = [u \in Users |-> {}]
    /\ last = NoRun
    /\ crashed = FALSE
-----------------------------------------------------------------------------
(* Starting *)

MayStart(u) == /\ ~crashed
               /\ u \notin up
               /\ Exclusive => up = {}

\* npu_vision_init always sets the context up.  When that fails it reports
\* the error and stays uninitialised.
VisionInit ==
    /\ MayStart("vision")
    /\ \E o \in SetupOutcomes :
          /\ CacheSetup(Asks["vision"], o)
          /\ up' = IF o = "ok" THEN up \union {"vision"} ELSE up
    /\ has' = [has EXCEPT !["vision"] = {}]
    /\ last' = NoRun
    /\ UNCHANGED <<cached, crashed>>

\* npu_lm_init2 takes the context as it is when npu_cna_ready says so.
LmInit ==
    /\ MayStart("lm")
    /\ \/ /\ open
          /\ UNCHANGED cnaVars
          /\ up' = up \union {"lm"}
       \/ /\ ~open
          /\ \E o \in SetupOutcomes :
                /\ CacheSetup(Asks["lm"], o)
                /\ up' = IF o = "ok" THEN up \union {"lm"} ELSE up
    /\ has' = [has EXCEPT !["lm"] = {}]
    /\ last' = NoRun
    /\ UNCHANGED <<cached, crashed>>

\* fn_Client_Create ignores a failed set-up, then copies the weight files it
\* can read, one slot each, and ignores a load that fails.
ClientCreate ==
    /\ MayStart("plugin")
    /\ \E o \in SetupOutcomes, S \in SUBSET SlotsOf("plugin") :
          /\ o # "ok" => S = {}
          /\ open' = (o # "no_fd")
          /\ whole' = (o = "ok")
          /\ n_w' = IF o = "no_fd" THEN 0 ELSE Asks["plugin"]
          /\ wt' = [s \in CnaSlots |->
                       IF s \in S THEN <<"plugin", s>> ELSE Nothing]
    /\ up' = up \union {"plugin"}
    /\ has' = [has EXCEPT !["plugin"] = SlotsOf("plugin")]
    /\ last' = NoRun
    /\ UNCHANGED <<cached, crashed>>

\* npu_cna_cache_setup through ctypes.
ScriptSetup ==
    /\ ~crashed
    /\ Exclusive => up \subseteq {"script"}
    /\ \E o \in SetupOutcomes :
          /\ CacheSetup(Asks["script"], o)
          /\ up' = IF o = "ok" THEN up \union {"script"} ELSE up \ {"script"}
    /\ has' = [has EXCEPT !["script"] = {}]
    /\ last' = NoRun
    /\ UNCHANGED <<cached, crashed>>

Start ==
    \/ "vision" \in Users /\ VisionInit
    \/ "lm" \in Users /\ LmInit
    \/ "plugin" \in Users /\ ClientCreate
    \/ "script" \in Users /\ ScriptSetup
-----------------------------------------------------------------------------
(* Loading and running *)

Loaders == Users \ {"plugin"}

Load(u, s) ==
    /\ ~crashed
    /\ u \in up
    /\ CacheLoad(s, <<u, s>>)
    /\ has' = [has EXCEPT ![u] = @ \union {s}]
    /\ UNCHANGED <<cached, up, last, crashed>>

LoadFails(u, s) ==
    /\ ~crashed
    /\ u \in up
    /\ CacheLoadFails(s)
    /\ has' = [has EXCEPT ![u] = @ \ {s}]
    /\ UNCHANGED <<cached, up, last, crashed>>

\* Does the user look at the result of npu_cna_cache_run_m?  vision_forward.c
\* does not.
ChecksRun(u) == u # "vision"

ChecksLoads(u) == u \in Checking

\* A user that looks multiplies only once all of its slots are loaded.
Ready(u) == /\ ~crashed
            /\ u \in up
            /\ ChecksLoads(u) => SlotsOf(u) \subseteq has[u]

\* Mutant: op 7 does not ask for the dimensions of the slot.
RefusedOutOfRange(u, s) == u = "plugin" /\ (s >= MaxSlots \/ ~InRange(s))

\* Op 7 asks for the dimensions first and refuses a slot without a weight.
Refused(u, s) == u = "plugin" /\ (s >= MaxSlots \/ ~InRange(s) \/ wt[s] = Nothing)

\* npu_cna_cache_run_m does not see that a submit was refused: it returns 0
\* and answers with what the output BO held.
Run(u, s) ==
    /\ Ready(u)
    /\ InRange(s)
    /\ ~Refused(u, s)
    /\ IF whole \/ wt[s] = Nothing
         THEN /\ \/ last' = Ran("slot", u, s, wt[s])
                 \/ wt[s] # Nothing /\ last' = Ran("refused", u, s, Stale)
              /\ UNCHANGED crashed
         ELSE crashed' = TRUE /\ last' = NoRun
    /\ UNCHANGED <<cnaVars, cached, up, has>>

\* The run returns an error, or op 7 does, for one of its tests or for want of
\* memory.  A caller that does not look goes on with what its output buffer
\* held.
RunFails(u, s) ==
    /\ Ready(u)
    /\ ~InRange(s) \/ u = "plugin"
    /\ last' = IF ChecksRun(u) THEN NoRun ELSE Ran("slot", u, s, Nothing)
    /\ UNCHANGED <<cnaVars, cached, up, has, crashed>>

\* Op 6 sets its weight cache up and fills slot 0, adds a weight, finds one,
\* or loses the cache in a set-up that fails (MatmulCache).
OpSix ==
    /\ "plugin" \in up
    /\ ~crashed
    /\ CacheSlots > 0
    /\ cached' \in {-1, 1}
                  \union (IF cached > 0
                          THEN {cached} \union ({cached + 1} \cap 1 .. CacheSlots)
                          ELSE {})
    /\ last' = NoRun
    /\ UNCHANGED <<cnaVars, up, has, crashed>>

\* Op 7 without an open context runs on the same slot of op 6's cache.  What
\* that cache returns is looked at; whose weight the slot holds is not.
RunFallsBack(s) ==
    /\ Ready("plugin")
    /\ ~open
    /\ cached > 0 /\ s < CacheSlots
    /\ last' = Ran("template", "plugin", s,
                   IF s < cached THEN <<"op6", s>> ELSE Nothing)
    /\ UNCHANGED <<cnaVars, cached, up, has, crashed>>
-----------------------------------------------------------------------------
(* Attention *)

\* What slot t can hold after npu_cna_attention has loaded keys k into it: it
\* drops the result of the load, which is refused when the slot is out of
\* range or its BO cannot be had.
Reloaded(t, k) ==
    {wt[t]} \union (IF InRange(t) THEN {<<"attention", k>>} ELSE {})
            \union (IF InRange(t) /\ wt[t] # Nothing THEN {Unfilled} ELSE {})

\* What a product with slot t comes from when it holds w, its result dropped
\* too.
Product(t, w) ==
    IF ~InRange(t) THEN {Stale}
    ELSE IF w = Nothing THEN {Nothing} ELSE {w, Stale}

\* npu_cna_attention on the NPU path, one head: the scores of the keys, then
\* their product with the values.  The answer names the first that is not of
\* this call.
Attention(k) ==
    /\ Attends
    /\ ~crashed
    /\ open
    /\ \E wk \in Reloaded(AttnK, k), wv \in Reloaded(AttnV, k) :
          /\ wt' = [wt EXCEPT ![AttnK] = wk, ![AttnV] = wv]
          /\ IF /\ ~whole
                /\ \/ InRange(AttnK) /\ wk # Nothing
                   \/ InRange(AttnV) /\ wv # Nothing
               THEN crashed' = TRUE /\ last' = NoRun
               ELSE /\ \E x \in Product(AttnK, wk), y \in Product(AttnV, wv) :
                          last' = Ran("attention", "attention", k,
                                      IF x = <<"attention", k>> THEN y ELSE x)
                    /\ UNCHANGED crashed
    /\ UNCHANGED <<open, whole, n_w, cached, up, has>>
-----------------------------------------------------------------------------
(* Stopping *)

\* npu_vision_close, npu_lm_close and a script close the context, whoever set
\* it up.  Client_Destroy leaves it open.
Close(u) ==
    /\ ~crashed
    /\ u \in up
    /\ IF u = "plugin" THEN UNCHANGED cnaVars ELSE CacheClose
    /\ up' = up \ {u}
    /\ has' = [has EXCEPT ![u] = {}]
    /\ last' = NoRun
    /\ UNCHANGED <<cached, crashed>>

\* A crashed process is started again.
Restart ==
    /\ crashed
    /\ open' = FALSE
    /\ whole' = FALSE
    /\ n_w' = 0
    /\ wt' = [s \in CnaSlots |-> Nothing]
    /\ cached' = -1
    /\ up' = {}
    /\ has' = [u \in Users |-> {}]
    /\ last' = NoRun
    /\ crashed' = FALSE

UsersNext ==
    \/ Start
    \/ \E u \in Loaders : \E s \in SlotsOf(u) : Load(u, s) \/ LoadFails(u, s)
    \/ \E u \in Users : \E s \in SlotsOf(u) : Run(u, s) \/ RunFails(u, s)
    \/ OpSix
    \/ \E s \in SlotsOf("plugin") : RunFallsBack(s)
    \/ \E k \in Keys : Attention(k)
    \/ \E u \in Users : Close(u)
    \/ Restart

UsersSpec == UsersInit /\ [][UsersNext]_usersVars
-----------------------------------------------------------------------------
(* Properties *)

Matmuls ==
    [ok : BOOLEAN,
     how : {"none", "slot", "refused", "template", "attention"},
     user : AllUsers \union {"attention", "none"},
     slot : CnaSlots \union Keys \union {0},
     used : SlotWeights \union ({"op6"} \X (0 .. CacheSlots - 1))
               \union {Nothing, Unfilled, Stale}]

\* Every variable of the context and of its users has its type.
UsersTypeOK ==
    /\ CnaTypeOK
    /\ cached \in -1 .. CacheSlots
    /\ up \subseteq Users
    /\ has \in [Users -> SUBSET CnaSlots]
    /\ last \in Matmuls
    /\ crashed \in BOOLEAN

\* A matmul in a slot of the context that a user takes for a success, and
\* whose submits the driver took, multiplied by the weight that user loaded
\* into the slot: not by one of another part of the process, not by an empty
\* slot, and not by nothing at all (npu_cna_cache_run_m and its callers).
OwnWeights ==
    last.ok /\ last.how = "slot" => last.used = <<last.user, last.slot>>

\* "W is a plugin-managed cached weight (loaded at Client_Create from
\* $NPU_WEIGHTS_DIR/w{N}.bin into s_wc_wb[N])" (pjrt_npu_impl.c 1601-1603): op
\* 7 on op 6's cache multiplies by the weight file of its slot.  The code does
\* not keep it: op 6 fills the slots in the order in which it meets its weights.
FallbackOwn ==
    last.ok /\ last.how = "template" => last.used = <<last.user, last.slot>>

\* "K and V are reloaded into CNA weight slots each call" (cna_matmul.c 319):
\* what attention returns is computed from the keys it was called with.  The
\* code does not keep it where a load or a run is refused.
AttentionUsesItsKeys ==
    last.ok /\ last.how = "attention" => last.used = <<"attention", last.slot>>

\* What a user has loaded stays in its slots for as long as it is up.
LoadedStays ==
    \A u \in up : \A s \in has[u] :
        u # "plugin" => InRange(s) /\ wt[s] = <<u, s>>
=============================================================================
