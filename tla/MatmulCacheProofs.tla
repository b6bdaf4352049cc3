------------------------- MODULE MatmulCacheProofs -------------------------
(***************************************************************************)
(* Theorems about MatmulCache, for any number of slots, weights, shapes    *)
(* and buffers.                                                            *)
(***************************************************************************)
EXTENDS MatmulCache, TLAPS

USE ContentAssumption, ShapeAssumption, BoundAssumption
    DEF ContentAssumption, ShapeAssumption, BoundAssumption

LEMMA ResultType ==
    ASSUME TypeOK, NEW b \in held, NEW i \in Slots
    PROVE  Result(b, i) \in Outcomes
  BY DEF Result, TypeOK, Outcomes

LEMMA NoResultType == NoResult \in Outcomes
  BY DEF NoResult, Outcomes

\* TypeOK is inductive: every operation of the client and every path of the
\* matmul keeps the cache's variables in their types.
THEOREM TypeCorrect == Spec => []TypeOK
<1>1. Init => TypeOK
  <2> SUFFICES ASSUME Init PROVE TypeOK
    OBVIOUS
  <2>1. 0 \in 0 .. MaxClients /\ 0 \in 0 .. MaxNw
    OBVIOUS
  <2>2. QED
    BY <2>1, NoResultType DEF Init, TypeOK
<1>2. TypeOK /\ [Next]_vars => TypeOK'
  <2> SUFFICES ASSUME TypeOK, [Next]_vars
               PROVE  TypeOK'
    OBVIOUS
  <2> USE DEF TypeOK
  <2>1. CASE ClientCreate
    BY <2>1, NoResultType DEF ClientCreate, bufVars, Slots
  <2>2. CASE ClientDestroy
    BY <2>2, NoResultType DEF ClientDestroy, bufVars, cacheVars, keyVars
  <2>3. ASSUME NEW b \in Buffers, NEW w \in Weights, BufferFromHostBuffer(b, w)
        PROVE  TypeOK'
    BY <2>3 DEF BufferFromHostBuffer, procVars, cacheVars, keyVars
  <2>4. ASSUME NEW b \in Buffers, BufferDestroy(b)
        PROVE  TypeOK'
    BY <2>4 DEF BufferDestroy, procVars, cacheVars, keyVars
  <2>5. ASSUME NEW b \in Buffers, FastHit(b)
        PROVE  TypeOK'
    <3>1. b \in held
      BY <2>5 DEF FastHit, Calls
    <3>2. last' \in {NoResult} \union {Result(b, i) : i \in Slots}
      BY <2>5 DEF FastHit, RunsFrom
    <3>3. QED
      BY <2>5, <3>1, <3>2, ResultType, NoResultType
         DEF FastHit, procVars, bufVars, cacheVars, keyVars
  <2>6. ASSUME NEW b \in Buffers, FastMiss(b)
        PROVE  TypeOK'
    <3>1. /\ b \in held
          /\ content[b] \in Weights
          /\ mm_nw \in Slots
          /\ FingerprintOf(b) \in Heads
      BY <2>6 DEF FastMiss, Calls, FingerprintOf, Slots, Contents
    <3>2. Result(b, mm_nw) \in Outcomes
      BY <3>1, ResultType
    <3>3. last' \in Outcomes
      BY <2>6, <3>1, <3>2, NoResultType DEF FastMiss, Contents, Outcomes
    <3>4. QED
      BY <2>6, <3>1, <3>3 DEF FastMiss, procVars, bufVars, Contents
  <2>7. ASSUME NEW b \in Buffers, FastMissUnmapped(b)
        PROVE  TypeOK'
    BY <2>7, NoResultType DEF FastMissUnmapped, bufVars, cacheVars, keyVars
  <2>8. ASSUME NEW b \in Buffers, FastFull(b)
        PROVE  TypeOK'
    BY <2>8, NoResultType DEF FastFull, procVars, bufVars, cacheVars
  <2>9. ASSUME NEW b \in Buffers, SlowNoStaging(b)
        PROVE  TypeOK'
    BY <2>9, NoResultType DEF SlowNoStaging, procVars, bufVars, cacheVars, keyVars
  <2>10. ASSUME NEW b \in Buffers, SlowSetupFails(b)
         PROVE  TypeOK'
    BY <2>10, NoResultType DEF SlowSetupFails, procVars, keyVars
  <2>11. ASSUME NEW b \in Buffers, SlowPath(b)
         PROVE  TypeOK'
    <3>1. b \in held /\ content[b] \in Weights /\ CallShape(b) \in Shapes
      BY <2>11 DEF SlowPath, Calls, CallShape
    <3>2. PICK staged \in Contents :
             /\ s_wc_wb' = [i \in Slots |-> IF i = 0 THEN staged ELSE NoWeight]
             /\ mm_wsrc' = [mm_wsrc EXCEPT ![0] = Head[staged]]
             /\ last' \in {NoResult,
                           [ok |-> TRUE, mapped |-> b \in mapped,
                            w |-> content[b], used |-> staged,
                            tpl |-> CallShape(b)]}
      BY <2>11, <3>1 DEF SlowPath, Contents
    <3>3. last' \in Outcomes
      <4>1. [ok |-> TRUE, mapped |-> b \in mapped, w |-> content[b],
             used |-> staged, tpl |-> CallShape(b)] \in Outcomes
        BY <3>1 DEF Outcomes
      <4>2. QED
        BY <3>2, <4>1, NoResultType
    <3>4. s_wc_wb' \in [Slots -> Contents \union {NoWeight}]
      BY <3>2
    <3>5. mm_wsrc' \in [Slots -> Heads]
      BY <3>2
    <3>6. QED
      BY <2>11, <3>1, <3>3, <3>4, <3>5
         DEF SlowPath, procVars, KeysAfterSetup
  <2>12. CASE Restart
    <3>1. 0 \in 0 .. MaxClients /\ 0 \in 0 .. MaxNw
      OBVIOUS
    <3>2. QED
      BY <2>12, <3>1, NoResultType DEF Restart
  <2>13. CASE UNCHANGED vars
    BY <2>13 DEF vars
  <2>14. QED
    BY <2>1, <2>2, <2>3, <2>4, <2>5, <2>6, <2>7, <2>8, <2>9, <2>10, <2>11,
       <2>12, <2>13 DEF Next, Matmul
<1>3. QED
  BY <1>1, <1>2, PTL DEF Spec
-----------------------------------------------------------------------------
(* The keys of the client and the bytes in the slots *)

KeysOK == CacheCoherent /\ CopiedOnce

\* No two contents share their first 16 bytes.
HeadsDiffer == \A v, w \in Contents : Head[v] = Head[w] => v = w

\* A miss finds no keyed slot with the fingerprint.
LEMMA MissIsNew ==
    ASSUME TypeOK, NEW fp \in Heads, Hits(fp) = {}
    PROVE  \A i \in Keyed : mm_wsrc[i] # fp
<1>1. \A i \in Keyed : i \in 0 .. mm_nw - 1 /\ KeyAt(i) = mm_wsrc[i]
  BY DEF Keyed, KeyAt, Slots, TypeOK
<1>2. QED
  BY <1>1 DEF Hits

\* Across misses, evictionless full caches, shape switches, failed set-ups,
\* new clients and restarts, the key the client keeps for a slot is the
\* fingerprint of the bytes in that slot, and no two slots have the same key.
THEOREM KeysCorrect == Spec => [](CacheCoherent /\ CopiedOnce)
<1>1. Init => KeysOK
  BY DEF Init, KeysOK, CacheCoherent, CopiedOnce
<1>2. TypeOK /\ TypeOK' /\ KeysOK /\ [Next]_vars => KeysOK'
  <2> SUFFICES ASSUME TypeOK, TypeOK', KeysOK, [Next]_vars
               PROVE  KeysOK'
    OBVIOUS
  <2> USE DEF KeysOK
  <2>1. CASE ClientCreate
    <3>1. Keyed' = {}
      BY <2>1 DEF ClientCreate, Keyed, Slots
    <3>2. QED
      BY <3>1 DEF CacheCoherent, CopiedOnce
  <2>2. CASE ClientDestroy
    BY <2>2 DEF ClientDestroy, CacheCoherent, CopiedOnce
  <2>3. CASE UNCHANGED <<client, s_wc_mfd, s_wc_wb, keyVars>>
    BY <2>3 DEF CacheCoherent, CopiedOnce, Keyed, keyVars
  <2>4. ASSUME NEW b \in Buffers, FastMiss(b)
        PROVE  KeysOK'
    <3>1. /\ mm_nw \in Slots
          /\ content[b] \in Contents
          /\ FingerprintOf(b) = Head[content[b]]
          /\ FingerprintOf(b) \in Heads
      BY <2>4 DEF FastMiss, FingerprintOf, Slots, TypeOK, Calls, Contents
    <3>2. Keyed' = Keyed \union {mm_nw}
      BY <2>4, <3>1 DEF FastMiss, Keyed, Slots, TypeOK
    <3>3. mm_nw \notin Keyed
      BY DEF Keyed, TypeOK, Slots
    <3>4. \A i \in Keyed : i \in Slots /\ i # mm_nw
                          /\ s_wc_wb'[i] = s_wc_wb[i] /\ mm_wsrc'[i] = mm_wsrc[i]
      BY <2>4, <3>3 DEF FastMiss, TypeOK, Keyed
    <3>5. s_wc_wb'[mm_nw] = content[b] /\ mm_wsrc'[mm_nw] = FingerprintOf(b)
      BY <2>4, <3>1 DEF FastMiss, TypeOK
    <3>6. s_wc_mfd /\ client
      BY <2>4 DEF FastMiss, Match, Calls
    <3>7. CacheCoherent'
      BY <3>1, <3>2, <3>4, <3>5, <3>6 DEF CacheCoherent
    <3>8. \A i \in Keyed : mm_wsrc[i] # FingerprintOf(b)
      BY <2>4, <3>1, MissIsNew DEF FastMiss
    <3>9. CopiedOnce'
      BY <3>2, <3>4, <3>5, <3>6, <3>8 DEF CopiedOnce
    <3>10. QED
      BY <3>7, <3>9
  <2>5. ASSUME NEW b \in Buffers, FastFull(b)
        PROVE  KeysOK'
    <3>1. Keyed' = Keyed
      BY <2>5 DEF FastFull, Keyed, Slots, TypeOK
    <3>2. QED
      BY <2>5, <3>1
         DEF FastFull, CacheCoherent, CopiedOnce, procVars, cacheVars
  <2>6. ASSUME NEW b \in Buffers, SlowSetupFails(b)
        PROVE  KeysOK'
    BY <2>6 DEF SlowSetupFails, CacheCoherent, CopiedOnce
  <2>7. ASSUME NEW b \in Buffers, SlowPath(b)
        PROVE  KeysOK'
    <3>1. 0 \in Slots /\ Keyed' = {0}
      BY <2>7 DEF SlowPath, KeysAfterSetup, Keyed, Slots
    <3>2. content[b] \in Contents
      BY <2>7 DEF SlowPath, Calls, TypeOK, Contents
    <3>3. PICK staged \in Contents :
             /\ s_wc_wb' = [i \in Slots |-> IF i = 0 THEN staged ELSE NoWeight]
             /\ mm_wsrc' = [mm_wsrc EXCEPT ![0] = Head[staged]]
      BY <2>7, <3>2 DEF SlowPath
    <3>4. s_wc_wb'[0] = staged /\ mm_wsrc'[0] = Head[staged]
      BY <3>1, <3>3 DEF TypeOK
    <3>5. QED
      BY <3>1, <3>4 DEF CacheCoherent, CopiedOnce
  <2>8. CASE Restart
    BY <2>8 DEF Restart, CacheCoherent, CopiedOnce
  <2>9. QED
    BY <2>1, <2>2, <2>3, <2>4, <2>5, <2>6, <2>7, <2>8
       DEF Next, Matmul, BufferFromHostBuffer, BufferDestroy, FastHit,
           FastMissUnmapped, SlowNoStaging, vars, procVars, bufVars,
           cacheVars, keyVars
<1>3. QED
  BY <1>1, <1>2, TypeCorrect, PTL DEF Spec, KeysOK

\* No two slots have one key: a weight that was copied is found, and never
\* copied again (the fast path of op 6 looks through the keys before the miss).
THEOREM CopiesKept == Spec => []CopiedOnce
  BY KeysCorrect, PTL

\* No path overwrites a slot that has a key while the cache stays open for
\* one shape.
THEOREM KeyedSlotsKept == Spec => KeyedSlotsStable
<1>1. TypeOK /\ [Next]_vars =>
        [s_wc_mfd /\ client /\ s_wc_mfd' /\ client' /\ s_wc_shape' = s_wc_shape
           => \A i \in Keyed : s_wc_wb'[i] = s_wc_wb[i]]_vars
  <2> SUFFICES ASSUME TypeOK, [Next]_vars,
                      s_wc_mfd, client, s_wc_mfd', client',
                      s_wc_shape' = s_wc_shape,
                      NEW i \in Keyed
               PROVE  s_wc_wb'[i] = s_wc_wb[i]
    OBVIOUS
  <2>1. CASE s_wc_wb' = s_wc_wb
    BY <2>1
  <2>2. ASSUME NEW b \in Buffers, FastMiss(b)
        PROVE  s_wc_wb'[i] = s_wc_wb[i]
    BY <2>2 DEF FastMiss, Keyed, TypeOK, Slots
  <2>3. ASSUME NEW b \in Buffers, SlowSetupFails(b)
        PROVE  FALSE
    BY <2>3 DEF SlowSetupFails
  <2>4. ASSUME NEW b \in Buffers, SlowPath(b)
        PROVE  FALSE
    BY <2>4 DEF SlowPath, Match
  <2>5. CASE Restart
    BY <2>5 DEF Restart
  <2>6. QED
    BY <2>1, <2>2, <2>3, <2>4, <2>5
       DEF Next, Matmul, ClientCreate, ClientDestroy, BufferFromHostBuffer,
           BufferDestroy, FastHit, FastMissUnmapped, FastFull, SlowNoStaging,
           vars, cacheVars
<1>2. QED
  BY <1>1, TypeCorrect, PTL DEF Spec, KeyedSlotsStable
-----------------------------------------------------------------------------
(* One client for each process, and weights that differ in their first 16  *)
(* bytes: the two conditions under which the cache keeps its promise.      *)

\* Nothing is open before the first client.
FreshOK ==
    /\ born = 0 => ~s_wc_mfd /\ ~client
    /\ ShapeOfOpenCache

\* With one client for each process, the shape a call is compared with is the
\* shape the open kernel was built for.
THEOREM OpenShapeCorrect ==
    ASSUME MaxClients = 1
    PROVE  Spec => []ShapeOfOpenCache
<1>1. Init => FreshOK
  BY DEF Init, FreshOK, ShapeOfOpenCache
<1>2. TypeOK /\ FreshOK /\ [Next]_vars => FreshOK'
  <2> SUFFICES ASSUME TypeOK, FreshOK, [Next]_vars
               PROVE  FreshOK'
    OBVIOUS
  <2> USE DEF FreshOK, ShapeOfOpenCache
  <2>1. CASE ClientCreate
    BY <2>1 DEF ClientCreate, TypeOK
  <2>2. CASE ClientDestroy
    BY <2>2 DEF ClientDestroy, cacheVars
  <2>3. CASE UNCHANGED <<client, born, cacheVars>>
    BY <2>3 DEF cacheVars
  <2>4. ASSUME NEW b \in Buffers, FastMiss(b)
        PROVE  FreshOK'
    BY <2>4 DEF FastMiss, procVars
  <2>5. ASSUME NEW b \in Buffers, SlowSetupFails(b)
        PROVE  FreshOK'
    BY <2>5 DEF SlowSetupFails, procVars
  <2>6. ASSUME NEW b \in Buffers, SlowPath(b)
        PROVE  FreshOK'
    BY <2>6 DEF SlowPath, Calls, procVars
  <2>7. CASE Restart
    BY <2>7 DEF Restart
  <2>8. QED
    BY <2>1, <2>2, <2>3, <2>4, <2>5, <2>6, <2>7
       DEF Next, Matmul, BufferFromHostBuffer, BufferDestroy, FastHit,
           FastMissUnmapped, FastFull, SlowNoStaging, vars, procVars, bufVars,
           cacheVars, keyVars
<1>3. QED
  BY <1>1, <1>2, TypeCorrect, PTL DEF Spec, FreshOK

\* A slot the look-up returns holds the bytes of the operand.
LEMMA HitHoldsOperand ==
    ASSUME TypeOK, CacheCoherent, HeadsDiffer,
           NEW b \in held, b \in mapped, s_wc_mfd, client,
           NEW i \in Slots, i \in Hits(FingerprintOf(b))
    PROVE  s_wc_wb[i] = content[b]
<1>1. i \in Keyed /\ mm_wsrc[i] = Head[content[b]]
  BY DEF Hits, Keyed, KeyAt, FingerprintOf, Slots, TypeOK
<1>2. content[b] \in Contents
  BY DEF TypeOK, Contents
<1>3. QED
  BY <1>1, <1>2 DEF CacheCoherent, HeadsDiffer

\* With one client for each process, and weights told apart by their first 16
\* bytes, a matmul that succeeds has used the weight it was given and the
\* kernel of that weight's shape, after any history of calls.
THEOREM ResultCorrect ==
    ASSUME MaxClients = 1, HeadsDiffer
    PROVE  Spec => []ResultIsOfW
<1>1. Init => ResultIsOfW
  BY DEF Init, ResultIsOfW, NoResult
<1>2. TypeOK /\ CacheCoherent /\ ShapeOfOpenCache /\ ResultIsOfW /\ [Next]_vars
        => ResultIsOfW'
  <2> SUFFICES ASSUME TypeOK, CacheCoherent, ShapeOfOpenCache, ResultIsOfW,
                      [Next]_vars
               PROVE  ResultIsOfW'
    OBVIOUS
  <2> USE DEF ResultIsOfW
  <2>1. CASE last' = NoResult \/ last' = last
    BY <2>1 DEF NoResult
  <2>2. ASSUME NEW b \in Buffers, FastHit(b)
        PROVE  ResultIsOfW'
    <3>1. b \in held /\ client /\ s_wc_mfd /\ s_wc_tpl = ShapeOf[content[b]]
      BY <2>2 DEF FastHit, Calls, Match, CallShape, ShapeOfOpenCache
    <3>2. CASE last' = NoResult
      BY <3>2, <2>1
    <3>3. ASSUME NEW i \in Slots, i \in Hits(FingerprintOf(b)),
                 last' = Result(b, i)
          PROVE  ResultIsOfW'
      BY <3>1, <3>3, HitHoldsOperand DEF Result
    <3>4. QED
      BY <2>2, <3>2, <3>3 DEF FastHit, RunsFrom
  <2>3. ASSUME NEW b \in Buffers, FastMiss(b)
        PROVE  ResultIsOfW'
    <3>1. s_wc_tpl = ShapeOf[content[b]]
      BY <2>3 DEF FastMiss, Match, CallShape, ShapeOfOpenCache
    <3>2. QED
      BY <2>3, <3>1 DEF FastMiss, Result, NoResult
  <2>4. ASSUME NEW b \in Buffers, SlowPath(b)
        PROVE  ResultIsOfW'
    <3>1. CASE b \in mapped
      <4>1. \/ last' = NoResult
            \/ last' = [ok |-> TRUE, mapped |-> b \in mapped,
                        w |-> content[b], used |-> content[b],
                        tpl |-> CallShape(b)]
        BY <2>4, <3>1 DEF SlowPath
      <4>2. QED
        BY <4>1, <2>1 DEF CallShape
    <3>2. CASE b \notin mapped
      <4>1. PICK staged \in Contents :
               \/ last' = NoResult
               \/ last' = [ok |-> TRUE, mapped |-> b \in mapped,
                           w |-> content[b], used |-> staged,
                           tpl |-> CallShape(b)]
        BY <2>4, <3>2 DEF SlowPath
      <4>2. CASE last' = [ok |-> TRUE, mapped |-> b \in mapped,
                          w |-> content[b], used |-> staged,
                          tpl |-> CallShape(b)]
        <5>1. last'.mapped = (b \in mapped)
          BY <4>2
        <5>2. QED
          BY <3>2, <5>1
      <4>3. QED
        BY <4>1, <4>2, <2>1
    <3>3. QED
      BY <3>1, <3>2
  <2>5. QED
    BY <2>1, <2>2, <2>3, <2>4
       DEF Next, Matmul, ClientCreate, ClientDestroy, BufferFromHostBuffer,
           BufferDestroy, FastMissUnmapped, FastFull, SlowNoStaging,
           SlowSetupFails, Restart, vars
<1>3. QED
  BY <1>1, <1>2, TypeCorrect, KeysCorrect, OpenShapeCorrect, PTL DEF Spec
=============================================================================
