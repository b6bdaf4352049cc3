----------------------------- MODULE CnaContext -----------------------------
(***************************************************************************)
(* The CNA matmul context of cna_matmul.c: one process-wide structure,     *)
(* g_cna, with an fd, four working BOs and n_w weight slots.  Whoever sets *)
(* it up wipes it, whoever loads a slot overwrites it, and nothing records *)
(* to whom a slot belongs.                                                 *)
(*                                                                         *)
(* A slot is named by the weight last copied to it.  Tiling, the register  *)
(* commands and the arithmetic of the submit are left out; a run on a slot *)
(* that was never loaded has no tiles and returns zeros.                   *)
(***************************************************************************)
EXTENDS Integers

CONSTANTS
    MaxSlots,    \* MAX_NW, the length of the per-slot arrays.  Bound: no
                 \* set-up asks for more
    SlotWeights, \* the weights that can be copied to a slot
    Nothing,     \* the slot is empty
    Unfilled     \* the slot has a new BO that nothing was copied to

CnaSlots == 0 .. MaxSlots - 1

ASSUME CnaAssumption ==
    /\ MaxSlots \in Nat
    /\ Nothing \notin SlotWeights
    /\ Unfilled \notin SlotWeights

VARIABLES
    open,        \* g_cna.fd >= 0
    whole,       \* all four working BOs exist
    n_w,         \* slots asked for in the last set-up
    wt           \* the weight in each slot

cnaVars == <<open, whole, n_w, wt>>

CnaInit ==
    /\ open = FALSE
    /\ whole = FALSE
    /\ n_w = 0
    /\ wt = [s \in CnaSlots |-> Nothing]

\* cna_init closes an open fd and clears the structure before anything can
\* fail: a failed open leaves no context, a failed allocation one that is
\* open and lacks a working BO.
SetupOutcomes == {"ok", "no_fd", "no_bo"}

\* Mutant: n_w keeps the error code.
CacheSetupStoresError(n, outcome) ==
    /\ open'  = (outcome # "no_fd")
    /\ whole' = (outcome = "ok")
    /\ n_w'   = IF outcome = "no_fd" THEN -1 ELSE n
    /\ wt'    = [s \in CnaSlots |-> Nothing]

CacheSetup(n, outcome) ==
    /\ open'  = (outcome # "no_fd")
    /\ whole' = (outcome = "ok")
    /\ n_w'   = IF outcome = "no_fd" THEN 0 ELSE n
    /\ wt'    = [s \in CnaSlots |-> Nothing]

InRange(s) == open /\ s < n_w

\* Mutant: a load takes over the BO of the slot loaded before it.
CacheLoadSharesBo(s, w) ==
    /\ InRange(s)
    /\ wt' = [r \in CnaSlots |-> IF r = s THEN w ELSE Nothing]
    /\ UNCHANGED <<open, whole, n_w>>

\* npu_cna_cache_load has no other limit than n_w.
CacheLoad(s, w) ==
    /\ InRange(s)
    /\ wt' = [wt EXCEPT ![s] = w]
    /\ UNCHANGED <<open, whole, n_w>>

\* The BO cannot be created, or it can but not mapped: then the slot already
\* has the address of the new BO and still the dimensions of the old weight.
CacheLoadFails(s) ==
    /\ \/ UNCHANGED wt
       \/ /\ InRange(s)
          /\ wt[s] # Nothing
          /\ wt' = [wt EXCEPT ![s] = Unfilled]
    /\ UNCHANGED <<open, whole, n_w>>

CacheClose ==
    /\ open' = FALSE
    /\ UNCHANGED <<whole, n_w, wt>>

CnaTypeOK ==
    /\ open \in BOOLEAN
    /\ whole \in BOOLEAN
    /\ n_w \in 0 .. MaxSlots
    /\ wt \in [CnaSlots -> SlotWeights \union {Nothing, Unfilled}]
=============================================================================
