---------------------------- MODULE MatmulCache ----------------------------
(***************************************************************************)
(* The persistent weight cache behind the plugin's template matmul (op 6   *)
(* of LoadedExecutable_Execute in pjrt_npu_impl.c).                        *)
(*                                                                         *)
(* One dedicated fd, s_wc_mfd, holds the captured kernel of one shape and  *)
(* MM_NWPRE weight BOs, one per slot.  The client remembers in mm_wsrc the *)
(* fingerprint (the first 16 bytes) of the weight it copied to each slot.  *)
(* A call whose shape is the cached one takes the fast path: look the      *)
(* fingerprint up, copy W on a miss, run.  Any other call takes the slow   *)
(* path: it frees its operands, closes the client's fd, tears the cache    *)
(* down and sets it up again for the new shape.                            *)
(*                                                                         *)
(* Abstracted: the X operand is fresh and mapped in every call; IOVAs, the *)
(* register commands and the kernel are left out (TemplateRun has them),   *)
(* and a result is named by the weight bytes and the kernel it came from.  *)
(***************************************************************************)
EXTENDS Integers

CONSTANTS
    Buffers,     \* device buffers a program can hold at once
    Weights,     \* contents a weight matrix may have
    Junk,        \* what malloc leaves in a staging area that is never filled
    NoWeight,    \* a slot nobody wrote yet, or a buffer that does not exist
    Shapes,      \* the (M, K, N) a call may have
    NoShape,     \* (0,0,0), and a NULL s_wc_tpl
    ShapeOf,     \* the shape of a call with this weight
    Templates,   \* shapes with a captured kernel in mm_templates
    Decomposed,  \* (64, 768, 768), the shape Client_Create announces
    Heads,      \* values of the first 16 bytes of a weight
    Head,       \* the first 16 bytes of a content
    ZeroHead,   \* 16 zero bytes
    NWPre,       \* MM_NWPRE, the slots of a cache
    MaxNw,       \* bound on mm_nw, which the code lets grow
    MaxClients   \* bound on the clients one process creates

Contents == Weights \union {Junk}
Slots    == 0 .. NWPre - 1

ASSUME ContentAssumption ==
    /\ NoWeight \notin Contents
    /\ Junk \notin Weights
    /\ Head \in [Contents -> Heads]
    /\ ZeroHead \in Heads

ASSUME ShapeAssumption ==
    /\ NoShape \notin Shapes
    /\ ShapeOf \in [Weights -> Shapes]
    /\ Templates \subseteq Shapes
    /\ Decomposed \in Shapes

ASSUME BoundAssumption ==
    /\ NWPre \in Nat \ {0}
    /\ MaxNw \in Nat
    /\ MaxNw > NWPre
    /\ MaxClients \in Nat \ {0}

VARIABLES
    client,      \* is there a client (NpuClient)?
    born,        \* how many clients this process has created
    crashed,     \* the process died on a NULL dereference
    held,        \* device buffers the program holds
    mapped,      \* those whose bo.mm is not NULL
    content,     \* the bytes each held buffer was created with
    s_wc_mfd,    \* is the cache's fd open?
    s_wc_shape,  \* the shape the cache is said to have
    s_wc_tpl,    \* the kernel the cache was set up with
    s_wc_wb,     \* the bytes in each weight BO
    mm_nw,       \* slots the client believes are in use
    mm_wsrc,     \* the fingerprint the client keeps for each slot
    last         \* what the last matmul did

bufVars   == <<held, mapped, content>>
cacheVars == <<s_wc_mfd, s_wc_shape, s_wc_tpl, s_wc_wb>>
keyVars   == <<mm_nw, mm_wsrc>>
procVars  == <<client, born, crashed>>
vars == <<client, born, crashed, held, mapped, content, s_wc_mfd, s_wc_shape,
          s_wc_tpl, s_wc_wb, mm_nw, mm_wsrc, last>>

\* A call that returned an error, and no call at all.
NoResult == [ok |-> FALSE, mapped |-> FALSE, w |-> NoWeight,
             used |-> NoWeight, tpl |-> NoShape]

Outcomes == [ok : BOOLEAN, mapped : BOOLEAN,
             w : Weights \union {NoWeight},
             used : Contents \union {NoWeight},
             tpl : Shapes \union {NoShape}]

Result(b, slot) ==
    [ok |-> TRUE, mapped |-> b \in mapped, w |-> content[b],
     used |-> s_wc_wb[slot], tpl |-> s_wc_tpl]

Init ==
    /\ client = FALSE
    /\ born = 0
    /\ crashed = FALSE
    /\ held = {}
    /\ mapped = {}
    /\ content = [b \in Buffers |-> NoWeight]
    /\ s_wc_mfd = FALSE
    /\ s_wc_shape = NoShape
    /\ s_wc_tpl = NoShape
    /\ s_wc_wb = [i \in Slots |-> NoWeight]
    /\ mm_nw = 0
    /\ mm_wsrc = [i \in Slots |-> ZeroHead]
    /\ last = NoResult
-----------------------------------------------------------------------------
(* The client and its buffers *)

\* calloc clears the client's keys.  When npu_cna_cache_setup succeeds,
\* s_wc_shape is set although no matmul cache is opened; one that an earlier
\* client left open stays open.
ClientCreate ==
    /\ ~crashed
    /\ ~client
    /\ born < MaxClients
    /\ client' = TRUE
    /\ born' = born + 1
    /\ mm_nw' = 0
    /\ mm_wsrc' = [i \in Slots |-> ZeroHead]
    /\ s_wc_shape' \in {s_wc_shape, Decomposed}
    /\ last' = NoResult
    /\ UNCHANGED <<crashed, bufVars, s_wc_mfd, s_wc_tpl, s_wc_wb>>

\* A PJRT program destroys its buffers before the client.
ClientDestroy ==
    /\ ~crashed
    /\ client
    /\ held = {}
    /\ client' = FALSE
    /\ last' = NoResult
    /\ UNCHANGED <<born, crashed, bufVars, cacheVars, keyVars>>

\* npu_create_bo returns success even when mmap failed and bo.mm is NULL.
BufferFromHostBuffer(b, w) ==
    /\ ~crashed
    /\ client
    /\ b \notin held
    /\ held' = held \union {b}
    /\ mapped' \in {mapped, mapped \union {b}}
    /\ content' = [content EXCEPT ![b] = w]
    /\ UNCHANGED <<procVars, cacheVars, keyVars, last>>

\* Mutant: munmap without clearing bo.mm.
BufferDestroyKeepsMapping(b) ==
    /\ ~crashed
    /\ b \in held
    /\ held' = held \ {b}
    /\ content' = [content EXCEPT ![b] = NoWeight]
    /\ UNCHANGED <<procVars, mapped, cacheVars, keyVars, last>>

BufferDestroy(b) ==
    /\ ~crashed
    /\ b \in held
    /\ held' = held \ {b}
    /\ mapped' = mapped \ {b}
    /\ content' = [content EXCEPT ![b] = NoWeight]
    /\ UNCHANGED <<procVars, cacheVars, keyVars, last>>
-----------------------------------------------------------------------------
(* The fast path *)

CallShape(b) == ShapeOf[content[b]]

\* Mutant: the cached shape is not compared.
MatchAnyShape(b) == s_wc_mfd

Match(b) == s_wc_mfd /\ s_wc_shape = CallShape(b)

\* The fingerprint stays 0,0 when the buffer is not mapped.
FingerprintOf(b) == IF b \in mapped THEN Head[content[b]] ELSE ZeroHead

\* Entries at and above MM_NWPRE are never written: calloc left them zero.
KeyAt(i) == IF i \in Slots THEN mm_wsrc[i] ELSE ZeroHead

\* Mutant: the newest entry is left out of the look-up.
HitsButNewest(fp) == {i \in 0 .. mm_nw - 2 : KeyAt(i) = fp}

Hits(fp) == {i \in 0 .. mm_nw - 1 : KeyAt(i) = fp}

Calls(b) == ~crashed /\ client /\ b \in held

\* npu_mm_cache_run rejects an index outside the slots; the submit, the
\* allocation of Z or of the output buffer may fail too.
RunsFrom(b, slot) == {NoResult, Result(b, slot)}

\* The first entry with the fingerprint is run; nothing is copied.
FastHit(b) ==
    /\ Calls(b)
    /\ Match(b)
    /\ \E i \in Hits(FingerprintOf(b)) :
          /\ \A j \in Hits(FingerprintOf(b)) : i <= j
          /\ last' \in IF i \in Slots THEN RunsFrom(b, i) ELSE {NoResult}
    /\ UNCHANGED <<procVars, bufVars, cacheVars, keyVars>>

\* W is copied to the next slot and the slot is keyed by its fingerprint,
\* whatever the run then returns.
FastMiss(b) ==
    /\ Calls(b)
    /\ Match(b)
    /\ Hits(FingerprintOf(b)) = {}
    /\ mm_nw < NWPre
    /\ b \in mapped
    /\ mm_nw' = mm_nw + 1
    /\ s_wc_wb' = [s_wc_wb EXCEPT ![mm_nw] = content[b]]
    /\ mm_wsrc' = [mm_wsrc EXCEPT ![mm_nw] = FingerprintOf(b)]
    /\ last' \in {NoResult, [Result(b, mm_nw) EXCEPT !.used = content[b]]}
    /\ UNCHANGED <<procVars, bufVars, s_wc_mfd, s_wc_shape, s_wc_tpl>>

\* npu_mm_cache_load copies from the NULL mapping.
FastMissUnmapped(b) ==
    /\ Calls(b)
    /\ Match(b)
    /\ Hits(FingerprintOf(b)) = {}
    /\ mm_nw < NWPre
    /\ b \notin mapped
    /\ crashed' = TRUE
    /\ last' = NoResult
    /\ UNCHANGED <<client, born, bufVars, cacheVars, keyVars>>

\* Mutant: a full cache takes its first slot again.
FastFullEvicts(b) ==
    /\ Calls(b)
    /\ Match(b)
    /\ Hits(FingerprintOf(b)) = {}
    /\ mm_nw >= NWPre
    /\ s_wc_wb' = [s_wc_wb EXCEPT ![0] = content[b]]
    /\ mm_wsrc' = [mm_wsrc EXCEPT ![0] = FingerprintOf(b)]
    /\ last' = NoResult
    /\ UNCHANGED <<procVars, bufVars, s_wc_mfd, s_wc_shape, s_wc_tpl, mm_nw>>

\* "W cache full": the counter has already been incremented.
FastFull(b) ==
    /\ Calls(b)
    /\ Match(b)
    /\ Hits(FingerprintOf(b)) = {}
    /\ mm_nw >= NWPre
    /\ mm_nw < MaxNw
    /\ mm_nw' = mm_nw + 1
    /\ last' = NoResult
    /\ UNCHANGED <<procVars, bufVars, cacheVars, mm_wsrc>>
-----------------------------------------------------------------------------
(* The slow path *)

\* malloc of the X or W staging area fails before anything is freed.
SlowNoStaging(b) ==
    /\ Calls(b)
    /\ ~Match(b)
    /\ last' = NoResult
    /\ UNCHANGED <<procVars, bufVars, cacheVars, keyVars>>

\* The operand is freed and the old cache closed; there is no kernel for the
\* shape, or the fd or one of the BOs cannot be had.  s_wc_shape and mm_nw
\* keep their values.
SlowSetupFails(b) ==
    /\ Calls(b)
    /\ ~Match(b)
    /\ mapped' = mapped \ {b}
    /\ s_wc_mfd' = FALSE
    /\ s_wc_wb' = [i \in Slots |-> NoWeight]
    /\ last' = NoResult
    /\ UNCHANGED <<procVars, held, content, s_wc_shape, s_wc_tpl, keyVars>>

\* Mutant: the keys of the old cache stay in use.
KeysNotReset == IF mm_nw = 0 THEN 1 ELSE mm_nw

\* A rebuilt cache forgets every key, then counts slot 0.
KeysAfterSetup == 1

\* The cache is rebuilt for the shape of the call and W goes to slot 0.  The
\* staging area of an operand that is not mapped was never filled.
SlowPath(b) ==
    /\ Calls(b)
    /\ ~Match(b)
    /\ CallShape(b) \in Templates
    /\ mapped' = mapped \ {b}
    /\ s_wc_mfd' = TRUE
    /\ s_wc_tpl' = CallShape(b)
    /\ s_wc_shape' = CallShape(b)
    /\ mm_nw' = KeysAfterSetup
    /\ \E staged \in IF b \in mapped THEN {content[b]} ELSE Contents :
          /\ s_wc_wb' = [i \in Slots |-> IF i = 0 THEN staged ELSE NoWeight]
          /\ mm_wsrc' = [mm_wsrc EXCEPT ![0] = Head[staged]]
          /\ last' \in {NoResult,
                        [ok |-> TRUE, mapped |-> b \in mapped,
                         w |-> content[b], used |-> staged,
                         tpl |-> CallShape(b)]}
    /\ UNCHANGED <<procVars, held, content>>

Matmul(b) ==
    \/ FastHit(b)
    \/ FastMiss(b)
    \/ FastMissUnmapped(b)
    \/ FastFull(b)
    \/ SlowNoStaging(b)
    \/ SlowSetupFails(b)
    \/ SlowPath(b)

\* A process that crashed, or has no client left, is started again.
Restart ==
    /\ crashed \/ (~client /\ born > 0)
    /\ client' = FALSE
    /\ born' = 0
    /\ crashed' = FALSE
    /\ held' = {}
    /\ mapped' = {}
    /\ content' = [b \in Buffers |-> NoWeight]
    /\ s_wc_mfd' = FALSE
    /\ s_wc_shape' = NoShape
    /\ s_wc_tpl' = NoShape
    /\ s_wc_wb' = [i \in Slots |-> NoWeight]
    /\ mm_nw' = 0
    /\ mm_wsrc' = [i \in Slots |-> ZeroHead]
    /\ last' = NoResult

Next ==
    \/ ClientCreate
    \/ ClientDestroy
    \/ \E b \in Buffers, w \in Weights : BufferFromHostBuffer(b, w)
    \/ \E b \in Buffers : BufferDestroy(b)
    \/ \E b \in Buffers : Matmul(b)
    \/ Restart

Spec == Init /\ [][Next]_vars
-----------------------------------------------------------------------------
(* Properties *)

\* Every variable of the cache, the client and the buffers has its type.
TypeOK ==
    /\ client \in BOOLEAN
    /\ born \in 0 .. MaxClients
    /\ crashed \in BOOLEAN
    /\ held \subseteq Buffers
    /\ mapped \subseteq held
    /\ content \in [Buffers -> Weights \union {NoWeight}]
    /\ \A b \in Buffers : b \in held => content[b] \in Weights
    /\ s_wc_mfd \in BOOLEAN
    /\ s_wc_shape \in Shapes \union {NoShape}
    /\ s_wc_tpl \in Shapes \union {NoShape}
    /\ s_wc_wb \in [Slots -> Contents \union {NoWeight}]
    /\ mm_nw \in 0 .. MaxNw
    /\ mm_wsrc \in [Slots -> Heads]
    /\ last \in Outcomes

\* Slots the client has a key for.
Keyed == {i \in Slots : i < mm_nw}

\* While the cache is open, each key the client keeps is the fingerprint of
\* the bytes that are in the slot: across misses, shape switches, failed
\* set-ups and restarts, mm_wsrc never speaks for a weight BO that was
\* rebuilt (Execute op 6, pjrt_npu_impl.c 1524-1600).
CacheCoherent ==
    s_wc_mfd /\ client =>
        \A i \in Keyed : /\ s_wc_wb[i] \in Contents
                         /\ mm_wsrc[i] = Head[s_wc_wb[i]]

\* "a W is copied ONCE and reused across calls" (pjrt_npu_impl.c 122-124):
\* no two keyed slots of an open cache have the same fingerprint.
CopiedOnce ==
    s_wc_mfd /\ client =>
        \A i, j \in Keyed : mm_wsrc[i] = mm_wsrc[j] => i = j

\* s_wc_shape is "(M,K,N) of the current cached shape" (pjrt_npu_impl.c 145):
\* the shape a call is matched against is the one the kernel was built for.
ShapeOfOpenCache == s_wc_mfd => s_wc_shape = s_wc_tpl

\* A matmul that returns a result for a mapped W has multiplied by that W,
\* with the kernel of that W's shape, whatever calls came before it.
ResultIsOfW ==
    last.ok /\ last.mapped =>
        last.used = last.w /\ last.tpl = ShapeOf[last.w]

\* As long as the cache stays open for one shape, the bytes of a slot that
\* has a key are never overwritten: a full cache refuses, it does not evict.
KeyedSlotsStable ==
    [][s_wc_mfd /\ client /\ s_wc_mfd' /\ client' /\ s_wc_shape' = s_wc_shape
         => \A i \in Keyed : s_wc_wb'[i] = s_wc_wb[i]]_vars
=============================================================================
