-------------------------- MODULE LmForwardProofs --------------------------
(***************************************************************************)
(* Theorems about LmForward, for any layers, tokens, models and slots.     *)
(***************************************************************************)
EXTENDS LmForward, SequenceTheorems, TLAPS

USE CnaAssumption, ModelAssumption, LmAssumption
    DEF CnaAssumption, ModelAssumption, LmAssumption

LEMMA CallTypes ==
    /\ NoCall \in Calls
    /\ \A m \in Models : LoadCall(m) \in Calls
    /\ \A m \in Models, t \in Tokens : StepCall(m, t) \in Calls
<1>1. 0 \in 0 .. NLayers
  OBVIOUS
<1>2. QED
  BY <1>1 DEF NoCall, LoadCall, StepCall, Calls

LEMMA CallOps ==
    /\ NoCall.op = "none"
    /\ \A m : LoadCall(m).op = "load"
  BY DEF NoCall, LoadCall

LEMMA NewStep ==
    \A m, t : /\ StepCall(m, t).op = "step"
              /\ StepCall(m, t).m = m /\ StepCall(m, t).t = t
              /\ StepCall(m, t).i = 0 /\ StepCall(m, t).lost = {}
  BY DEF StepCall, NoCall

\* A layer counts itself and remembers a refused submit.
LEMMA LayerCall ==
    ASSUME LmTypes, NEW i \in LayerNumbers, StepLayer(i)
    PROVE  \E R \in Refusable(i) :
              /\ kv' = KvWritten(i, R)
              /\ x' = Block(InSlots(i, Reads, R), x,
                            [s \in 0 .. pos |-> kv'[i][s]])
              /\ call' \in Calls
              /\ call'.op = call.op /\ call'.m = call.m /\ call'.t = call.t
              /\ call'.i = i + 1
              /\ call'.lost = call.lost \union R
<1>1. PICK R \in Refusable(i) :
        /\ kv' = KvWritten(i, R)
        /\ x' = Block(InSlots(i, Reads, R), x, [s \in 0 .. pos |-> kv'[i][s]])
        /\ call' = [call EXCEPT !.i = i + 1, !.lost = @ \union R]
  BY DEF StepLayer
<1>2. call \in Calls /\ call.i = i /\ R \in SUBSET Reads
  BY DEF LmTypes, StepLayer, At, Refusable
<1>3. /\ call' \in Calls
      /\ call'.op = call.op /\ call'.m = call.m /\ call'.t = call.t
      /\ call'.i = i + 1
      /\ call'.lost = call.lost \union R
  <2>1. call' = [call EXCEPT !.i = i + 1, !.lost = @ \union R]
    BY <1>1
  <2>2. i + 1 \in 0 .. NLayers /\ call.lost \union R \in SUBSET Reads
    BY <1>2 DEF LayerNumbers, Calls
  <2>3. QED
    BY <1>2, <2>1, <2>2 DEF Calls
<1>4. WITNESS R \in Refusable(i)
<1>5. QED
  BY <1>1, <1>3

LEMMA JunkShape == kv' = JunkCache => KvShape'
  BY DEF JunkCache, KvShape

LEMMA WrittenShape ==
    ASSUME KvShape, NEW i \in LayerNumbers, NEW R, kv' = KvWritten(i, R)
    PROVE  KvShape'
  BY DEF KvShape, KvWritten

LEMMA Bounds == /\ 0 \in 0 .. MaxSlots
                /\ 0 \in 0 .. MaxSeq
                /\ << >> \in Seq(Tokens)
  OBVIOUS

LEMMA SetupTypes ==
    ASSUME CnaTypeOK, NEW n \in 0 .. MaxSlots, NEW o \in SetupOutcomes,
           CacheSetup(n, o)
    PROVE  CnaTypeOK'
<1>1. 0 \in 0 .. MaxSlots
  OBVIOUS
<1>2. QED
  BY <1>1 DEF CacheSetup, CnaTypeOK, SetupOutcomes

LEMMA CloseTypes ==
    ASSUME CnaTypeOK, CacheClose
    PROVE  CnaTypeOK'
  BY DEF CacheClose, CnaTypeOK

\* The loader puts each weight where lm_idx looks for it, and GPT-2 has
\* projection blocks.
Agreed == /\ LoadRoles = roles
          /\ LoadStride = roles
          /\ SwiGlu \/ ProjBlocks > 0

LEMMA MultMonotone ==
    \A a, b, n \in Nat : a <= b => a * n <= b * n
  OBVIOUS

\* Two roles below the stride have slots of their own.
LEMMA SlotsDiffer ==
    ASSUME NEW R \in Nat, NEW i \in Nat, NEW j \in Nat,
           NEW r \in 0 .. R - 1, NEW s \in 0 .. R - 1,
           i * R + r = j * R + s
    PROVE  i = j /\ r = s
<1>1. ASSUME NEW a \in Nat, NEW b \in Nat, a < b
      PROVE  a * R + R <= b * R
  <2>1. (a + 1) * R <= b * R
    BY <1>1, MultMonotone
  <2>2. (a + 1) * R = a * R + R
    OBVIOUS
  <2>3. QED
    BY <2>1, <2>2
<1>2. ~(i < j)
  BY <1>1
<1>3. ~(j < i)
  BY <1>1
<1>4. QED
  BY <1>2, <1>3

LEMMA AgreedReads ==
    ASSUME Agreed
    PROVE  Reads = 0 .. LoadRoles - 1
<1>1. CASE SwiGlu
  BY <1>1 DEF Agreed, roles, StepReads
<1>2. CASE ~SwiGlu
  <2>1. LoadRoles = 3 + ProjBlocks /\ ProjBlocks > 0
    BY <1>2 DEF Agreed, roles
  <2>2. Reads = 0 .. 2 + ProjBlocks
    BY <1>2, <2>1 DEF StepReads
  <2>3. QED
    BY <2>1, <2>2
<1>3. QED
  BY <1>1, <1>2

LEMMA LoadSlotInjective ==
    ASSUME Agreed, NEW k \in Loads, NEW l \in Loads, LoadSlot(k) = LoadSlot(l)
    PROVE  k = l
<1>1. /\ k[1] \in Nat /\ l[1] \in Nat
      /\ k[2] \in 0 .. LoadRoles - 1 /\ l[2] \in 0 .. LoadRoles - 1
      /\ k = <<k[1], k[2]>> /\ l = <<l[1], l[2]>>
  BY DEF Loads, LayerNumbers
<1>2. k[1] * LoadRoles + k[2] = l[1] * LoadRoles + l[2]
  BY DEF LoadSlot, Agreed
<1>3. k[1] = l[1] /\ k[2] = l[2]
  BY <1>1, <1>2, SlotsDiffer
<1>4. QED
  BY <1>1, <1>3

\* With slots of their own, no load overwrites another.
LEMMA LaidValue ==
    ASSUME Agreed, NEW m \in Models, NEW D \in SUBSET Loads, NEW s \in CnaSlots
    PROVE  /\ \A l \in D : LoadSlot(l) = s => Laid(m, D)[s] = <<m, l[1], l[2]>>
           /\ (\A l \in D : LoadSlot(l) # s) => Laid(m, D)[s] = wt[s]
<1> DEFINE here == {l \in D : LoadSlot(l) = s}
           last == CHOOSE l \in here : \A k \in here : k = l \/ Before(k, l)
<1>1. Laid(m, D)[s] = IF here = {} THEN wt[s] ELSE <<m, last[1], last[2]>>
  BY DEF Laid
<1>2. ASSUME NEW l \in D, LoadSlot(l) = s
      PROVE  Laid(m, D)[s] = <<m, l[1], l[2]>>
  <2>1. here = {l}
    BY <1>2, LoadSlotInjective
  <2>2. last = l
    BY <2>1
  <2> HIDE DEF last, here
  <2>3. QED
    BY <1>1, <2>1, <2>2
<1>3. ASSUME \A l \in D : LoadSlot(l) # s
      PROVE  Laid(m, D)[s] = wt[s]
  <2>1. here = {}
    BY <1>3
  <2> HIDE DEF last, here
  <2>2. QED
    BY <1>1, <2>1
<1>4. QED
  BY <1>2, <1>3

LEMMA LaidTypes ==
    ASSUME Agreed, CnaTypeOK, NEW m \in Models, NEW D \in SUBSET Loads
    PROVE  Laid(m, D) \in [CnaSlots -> SlotWeights \union {Nothing, Unfilled}]
<1> SUFFICES ASSUME NEW s \in CnaSlots
             PROVE  Laid(m, D)[s] \in SlotWeights \union {Nothing, Unfilled}
  BY DEF Laid
<1>1. CASE \A l \in D : LoadSlot(l) # s
  BY <1>1, LaidValue DEF CnaTypeOK
<1>2. ASSUME NEW l \in D, LoadSlot(l) = s
      PROVE  Laid(m, D)[s] \in SlotWeights
  <2>1. l[1] \in LayerNumbers /\ l[2] \in 0 .. LoadRoles - 1
    BY DEF Loads
  <2>2. <<m, l[1], l[2]>> \in SlotWeights
    BY <2>1
  <2>3. QED
    BY <1>2, <2>2, LaidValue
<1>3. QED
  BY <1>1, <1>2

-----------------------------------------------------------------------------
(* Types *)

\* Every operation of the model and of the rest of the process keeps the
\* variables in their types, and a step is always below the last position.
THEOREM LmTyped == ASSUME Agreed PROVE Spec => [](LmTypes /\ StepPlace)
<1>1. Init => LmTypes /\ StepPlace
  <2> SUFFICES ASSUME Init PROVE LmTypes /\ StepPlace
    OBVIOUS
  <2>1. CnaTypeOK
    BY Bounds DEF Init, CnaInit, CnaTypeOK
  <2>2. KvShape
    BY DEF Init, KvShape, JunkCache
  <2>3. StepPlace
    BY CallOps DEF Init, StepPlace
  <2>4. QED
    BY <2>1, <2>2, <2>3, Bounds, CallTypes DEF Init, LmTypes
<1>2. Agreed /\ LmTypes /\ StepPlace /\ [Next]_vars => (LmTypes /\ StepPlace)'
  <2> SUFFICES ASSUME Agreed, LmTypes, StepPlace, [Next]_vars
               PROVE  LmTypes' /\ StepPlace'
    OBVIOUS
  <2>0. ASSUME UNCHANGED <<cnaVars, lmVars, ctx, kept>>
        PROVE  LmTypes' /\ StepPlace'
    BY <2>0 DEF cnaVars, lmVars, LmTypes, CnaTypeOK, KvShape, StepPlace
  <2>1. ASSUME NEW m \in Models, LoadBegin(m)
        PROVE  LmTypes' /\ StepPlace'
    <3>1. CnaTypeOK'
      BY <2>1, SetupTypes DEF LoadBegin, CnaTypeOK, cnaVars, LmTypes
    <3>2. KvShape'
      BY <2>1, JunkShape DEF LoadBegin, LmTypes, KvShape
    <3>3. up' \in BOOLEAN
      BY <2>1 DEF LoadBegin, LmTypes
    <3>4. StepPlace'
      BY <2>1, CallOps DEF LoadBegin, StepPlace
    <3>5. QED
      BY <2>1, <3>1, <3>2, <3>3, <3>4, CallTypes DEF LoadBegin, LmTypes
  <2>2. ASSUME NEW m \in Models, LoadEnd(m)
        PROVE  LmTypes' /\ StepPlace'
    <3>1. wt' \in [CnaSlots -> SlotWeights \union {Nothing, Unfilled}]
      <4>1. CASE LoadRaises(m)
        <5>1. PICK f \in RaiseAt :
                LET done == {l \in Loads : Before(l, f)}
                IN  \/ wt' = Laid(m, done)
                    \/ wt' = [Laid(m, done) EXCEPT ![LoadSlot(f)] = Unfilled]
          BY <4>1 DEF LoadRaises
        <5> DEFINE done == {l \in Loads : Before(l, f)}
        <5>2. Laid(m, done) \in
                [CnaSlots -> SlotWeights \union {Nothing, Unfilled}]
          BY LaidTypes DEF LmTypes
        <5> HIDE DEF done
        <5>3. QED
          BY <5>1, <5>2 DEF done
      <4>2. CASE LoadCompletes(m)
        BY <4>2, LaidTypes DEF LoadCompletes, LmTypes
      <4>3. QED
        BY <2>2, <4>1, <4>2 DEF LoadEnd
    <3>2. /\ wte' \in Models \union {NoModel}
          /\ live' \subseteq Models
          /\ holder' \in Models \union {NoModel}
          /\ dead' \in BOOLEAN
      BY <2>2 DEF LoadEnd, LoadRaises, LoadCompletes, CnaTypeOK, LmTypes
    <3>3. CnaTypeOK'
      BY <2>2, <3>1, <3>2 DEF LoadEnd, CnaTypeOK, LmTypes
    <3>4. KvShape' /\ StepPlace'
      BY <2>2, CallOps DEF LoadEnd, StepPlace, KvShape, LmTypes
    <3>5. call' \in Calls
      BY <2>2, CallTypes DEF LoadEnd
    <3>6. QED
      BY <2>2, <3>2, <3>3, <3>4, <3>5 DEF LoadEnd, LmTypes
  <2>3. ASSUME NEW m \in Models, NEW t \in Tokens, StepBegin(m, t)
        PROVE  LmTypes' /\ StepPlace'
    <3>1. CnaTypeOK' /\ KvShape'
      BY <2>3 DEF StepBegin, cnaVars, CnaTypeOK, KvShape, LmTypes
    <3>2. StepPlace'
      BY <2>3, NewStep DEF StepBegin, StepPlace
    <3>3. call' \in Calls
      BY <2>3, CallTypes DEF StepBegin
    <3>4. QED
      BY <2>3, <3>1, <3>2, <3>3 DEF StepBegin, LmTypes
  <2>4. ASSUME NEW i \in LayerNumbers, StepLayer(i)
        PROVE  LmTypes' /\ StepPlace'
    <3>1. call' \in Calls
      BY <2>4, LayerCall
    <3>2. KvShape'
      BY <2>4, LayerCall, WrittenShape DEF LmTypes
    <3>3. StepPlace'
      BY <2>4, LayerCall DEF StepLayer, StepPlace
    <3>4. CnaTypeOK'
      BY <2>4 DEF StepLayer, cnaVars, CnaTypeOK, LmTypes
    <3>5. QED
      BY <2>4, <3>1, <3>2, <3>3, <3>4 DEF StepLayer, LmTypes
  <2>5. ASSUME NEW i \in LayerNumbers, StepFails(i)
        PROVE  LmTypes' /\ StepPlace'
    <3>1. KvShape'
      BY <2>5, WrittenShape DEF StepFails, KvShape, LmTypes
    <3>2. StepPlace' /\ CnaTypeOK'
      BY <2>5, CallOps DEF StepFails, StepPlace, cnaVars, CnaTypeOK, LmTypes
    <3>3. QED
      BY <2>5, <3>1, <3>2, CallTypes DEF StepFails, LmTypes
  <2>6. ASSUME NEW i \in LayerNumbers, StepCrashes(i)
        PROVE  LmTypes' /\ StepPlace'
    BY <2>6 DEF StepCrashes, cnaVars, CnaTypeOK, KvShape, LmTypes, StepPlace
  <2>7. ASSUME NEW m \in Models, LmReset(m)
        PROVE  LmTypes' /\ StepPlace'
    <3>1. StepPlace'
      BY <2>7, CallOps DEF LmReset, Quiet, StepPlace
    <3>2. CnaTypeOK' /\ KvShape'
      BY <2>7 DEF LmReset, cnaVars, CnaTypeOK, KvShape, LmTypes
    <3>3. QED
      BY <2>7, <3>1, <3>2, Bounds DEF LmReset, LmTypes
  <2>8. ASSUME NEW m \in Models, LmClose(m)
        PROVE  LmTypes' /\ StepPlace'
    <3>1. StepPlace' /\ KvShape'
      BY <2>8, CallOps, JunkShape DEF LmClose, Quiet, StepPlace
    <3>2. CnaTypeOK'
      BY <2>8, CloseTypes DEF LmClose, LmTypes
    <3>3. QED
      BY <2>8, <3>1, <3>2, Bounds DEF LmClose, LmTypes
  <2>9. ASSUME NEW n \in ForeignNw, ForeignSetup(n)
        PROVE  LmTypes' /\ StepPlace'
    <3>1. CnaTypeOK'
      BY <2>9, SetupTypes DEF ForeignSetup, LmTypes
    <3>2. QED
      BY <2>9, <3>1 DEF ForeignSetup, LmTypes, KvShape, StepPlace
  <2>10. CASE ForeignClose
    <3>1. CnaTypeOK'
      BY <2>10, CloseTypes DEF ForeignClose, LmTypes
    <3>2. QED
      BY <2>10, <3>1 DEF ForeignClose, LmTypes, KvShape, StepPlace
  <2>11. CASE Restart
    <3>1. CnaTypeOK' /\ KvShape' /\ StepPlace'
      BY <2>11, Bounds, JunkShape, CallOps DEF Restart, CnaTypeOK, StepPlace
    <3>2. QED
      BY <2>11, <3>1, Bounds, CallTypes DEF Restart, LmTypes
  <2>12. CASE StepEnd
    <3>1. call.m \in Models /\ call.t \in Tokens /\ pos + 1 \in 0 .. MaxSeq
      BY <2>12 DEF StepEnd, StepPlace, LmTypes
    <3>2. Append(ctx[call.m], call.t) \in Seq(Tokens)
      BY <3>1 DEF LmTypes
    <3>3. ctx' \in [Models -> Seq(Tokens)]
      BY <2>12, <3>1, <3>2 DEF StepEnd, LmTypes
    <3>4. CnaTypeOK' /\ KvShape' /\ StepPlace'
      BY <2>12, CallOps DEF StepEnd, cnaVars, CnaTypeOK, KvShape, StepPlace, LmTypes
    <3>5. QED
      BY <2>12, <3>1, <3>3, <3>4, CallTypes DEF StepEnd, LmTypes
  <2>13. QED
    BY <2>0, <2>1, <2>2, <2>3, <2>4, <2>5, <2>6, <2>7, <2>8, <2>9, <2>10,
       <2>11, <2>12 DEF Next, StepRefused, vars
<1>3. QED
  BY <1>1, <1>2, PTL DEF Spec
-----------------------------------------------------------------------------
(* Slots *)

LEMMA CompleteInPlace ==
    ASSUME Agreed, LmTypes, NEW m \in Models, LoadCompletes(m),
           NEW i \in LayerNumbers, NEW r \in Reads
    PROVE  /\ open /\ lm_idx(i, r) < n_w
           /\ wt'[lm_idx(i, r)] = <<m, i, r>>
<1> DEFINE l == <<i, r>>
<1>1. l \in Loads /\ l[1] = i /\ l[2] = r
  BY AgreedReads DEF Loads
<1>2. LoadSlot(l) = lm_idx(i, r)
  BY <1>1 DEF LoadSlot, lm_idx, Agreed
<1>3. InRange(LoadSlot(l))
  BY <1>1 DEF LoadCompletes
<1>4. lm_idx(i, r) \in CnaSlots
  <2>1. lm_idx(i, r) < MaxSlots
    OBVIOUS
  <2>2. i \in Nat /\ r \in Nat /\ roles \in Nat
    BY AgreedReads DEF LayerNumbers, Agreed
  <2>3. lm_idx(i, r) \in Nat
    BY <2>2 DEF lm_idx
  <2>4. QED
    BY <2>1, <2>3 DEF CnaSlots
<1>5. Laid(m, Loads)[lm_idx(i, r)] = <<m, l[1], l[2]>>
  BY <1>1, <1>2, <1>4, LaidValue
<1>6. QED
  BY <1>1, <1>2, <1>3, <1>5 DEF LoadCompletes, InRange

\* A model that was loaded, and whose slots nobody wiped since, finds each of
\* its weights at the slot lm_idx names.
THEOREM RolesCorrect ==
    ASSUME Agreed
    PROVE  Spec => [](RolesInPlace /\ HolderRead)
<1>1. Init => RolesInPlace /\ HolderRead
  BY DEF Init, RolesInPlace, HolderRead
<1>2. /\ Agreed /\ LmTypes /\ RolesInPlace /\ HolderRead /\ [Next]_vars
      => (RolesInPlace /\ HolderRead)'
  <2> SUFFICES ASSUME Agreed, LmTypes, RolesInPlace, HolderRead, [Next]_vars
               PROVE  RolesInPlace' /\ HolderRead'
    OBVIOUS
  <2>1. CASE holder' = NoModel
    BY <2>1 DEF RolesInPlace, HolderRead
  <2>2. CASE UNCHANGED <<open, n_w, wt, holder, wte>>
    BY <2>2 DEF RolesInPlace, HolderRead, InRange, lm_idx
  <2>3. ASSUME NEW m \in Models, LoadBegin(m)
        PROVE  RolesInPlace' /\ HolderRead'
    <3>1. CASE UNCHANGED cnaVars
      BY <2>2, <2>3, <3>1 DEF LoadBegin, cnaVars
    <3>2. CASE ~open
      <4>1. 0 \in LayerNumbers /\ Reads # {}
        <5>1. 0 \in StepReads
          BY DEF StepReads
        <5>2. QED
          BY <5>1 DEF LayerNumbers
      <4>2. holder = NoModel
        BY <3>2, <4>1 DEF RolesInPlace, InRange
      <4>3. QED
        BY <2>1, <2>3, <4>2 DEF LoadBegin
    <3>3. QED
      BY <2>3, <3>1, <3>2 DEF LoadBegin
  <2>4. ASSUME NEW m \in Models, LoadEnd(m)
        PROVE  RolesInPlace' /\ HolderRead'
    <3>1. CASE LoadRaises(m)
      BY <2>1, <3>1 DEF LoadRaises
    <3>2. CASE LoadCompletes(m) /\ up
      <4>1. holder' = m /\ wte' = m /\ open' = open /\ n_w' = n_w
        BY <2>4, <3>2 DEF LoadEnd, LoadCompletes
      <4>2. \A i \in LayerNumbers, r \in Reads :
               /\ open /\ lm_idx(i, r) < n_w
               /\ wt'[lm_idx(i, r)] = <<m, i, r>>
        BY <3>2, CompleteInPlace
      <4>3. QED
        BY <4>1, <4>2 DEF RolesInPlace, HolderRead, InRange, lm_idx
    <3>3. CASE LoadCompletes(m) /\ ~up
      BY <2>1, <3>3 DEF LoadCompletes
    <3>4. QED
      BY <2>4, <3>1, <3>2, <3>3 DEF LoadEnd
  <2>5. QED
    BY <2>1, <2>2, <2>3, <2>4
       DEF Next, StepRefused, StepBegin, StepLayer, StepFails, StepCrashes,
           StepEnd, LmReset, LmClose, ForeignSetup, ForeignClose, Restart,
           vars, cnaVars, lmVars
<1>3. QED
  BY <1>1, <1>2, LmTyped, PTL DEF Spec
-----------------------------------------------------------------------------
(* The position *)

\* While each model resets before its first step, the position is the number
\* of tokens the model that steps was given since then, and no context grows
\* beyond the cache.
THEOREM PositionCorrect ==
    ASSUME Agreed, ResetsFirst
    PROVE  Spec => [](TypeOK /\ PositionOfContext /\ StepOwner)
<1> DEFINE Inv == /\ \A m \in Models : Len(ctx[m]) <= MaxSeq
                  /\ PositionOfContext
                  /\ StepOwner
<1>1. Init => Inv
  <2> SUFFICES ASSUME Init PROVE Inv
    OBVIOUS
  <2>1. \A m \in Models : Len(ctx[m]) = 0
    BY DEF Init
  <2>2. PositionOfContext /\ StepOwner
    BY CallOps DEF Init, PositionOfContext, StepOwner
  <2>3. QED
    BY <2>1, <2>2
<1>2. /\ ResetsFirst /\ LmTypes /\ LmTypes' /\ StepPlace /\ Inv
      /\ [Next]_vars
      => Inv'
  <2> SUFFICES ASSUME ResetsFirst, LmTypes, LmTypes', StepPlace, Inv,
                      [Next]_vars
               PROVE  Inv'
    OBVIOUS
  <2>1. ASSUME UNCHANGED <<up, pos, call, owner, ctx>>
        PROVE  Inv'
    BY <2>1 DEF PositionOfContext, StepOwner
  <2>2. ASSUME UNCHANGED <<up, pos, owner, ctx>>, call'.op # "step"
        PROVE  Inv'
    BY <2>2 DEF PositionOfContext, StepOwner
  <2>3. ASSUME NEW m \in Models, LoadBegin(m)
        PROVE  Inv'
    <3>1. UNCHANGED <<pos, owner, ctx>> /\ call'.op # "step" /\ (up => up')
      BY <2>3, CallOps DEF LoadBegin
    <3>2. QED
      BY <3>1 DEF PositionOfContext, StepOwner
  <2>4. ASSUME NEW m \in Models, NEW t \in Tokens, StepBegin(m, t)
        PROVE  Inv'
    <3>1. owner = m /\ up /\ call'.m = m
      BY <2>4, NewStep DEF StepBegin, MayStep
    <3>2. UNCHANGED <<up, pos, owner, ctx>>
      BY <2>4 DEF StepBegin
    <3>3. QED
      BY <3>1, <3>2 DEF PositionOfContext, StepOwner
  <2>5. ASSUME NEW i \in LayerNumbers, StepLayer(i)
        PROVE  Inv'
    <3>1. call'.op = call.op /\ call'.m = call.m
      BY <2>5, LayerCall
    <3>2. UNCHANGED <<up, pos, owner, ctx>>
      BY <2>5 DEF StepLayer
    <3>3. QED
      BY <3>1, <3>2 DEF PositionOfContext, StepOwner
  <2>6. ASSUME NEW m \in Models, LmReset(m)
        PROVE  Inv'
    <3>1. /\ pos' = 0 /\ owner' = m /\ call'.op # "step"
          /\ ctx' = [ctx EXCEPT ![m] = << >>]
      BY <2>6, CallOps DEF LmReset, Quiet
    <3>2. ctx'[m] = << >> /\ \A n \in Models : n # m => ctx'[n] = ctx[n]
      BY <3>1 DEF LmTypes
    <3>3. QED
      BY <3>1, <3>2 DEF PositionOfContext, StepOwner
  <2>7. CASE StepEnd
    <3>1. /\ owner = call.m /\ call.m \in Models /\ call.t \in Tokens
          /\ up /\ pos < MaxSeq /\ pos \in Nat
      BY <2>7 DEF StepEnd, StepOwner, StepPlace, LmTypes
    <3>2. pos = Len(ctx[call.m]) /\ ctx[call.m] \in Seq(Tokens)
      BY <3>1 DEF PositionOfContext, LmTypes
    <3>3. /\ pos' = pos + 1 /\ up' = up /\ owner' = owner
          /\ call'.op # "step"
          /\ ctx' = [ctx EXCEPT ![call.m] = Append(@, call.t)]
      BY <2>7, CallOps DEF StepEnd
    <3>4. Len(Append(ctx[call.m], call.t)) = pos + 1
      BY <3>1, <3>2
    <3>5. /\ Len(ctx'[call.m]) = pos + 1
          /\ \A n \in Models : n # call.m => ctx'[n] = ctx[n]
      BY <3>1, <3>3, <3>4 DEF LmTypes
    <3>6. \A n \in Models : Len(ctx'[n]) <= MaxSeq
      BY <3>1, <3>5
    <3>L. QED
      BY <3>1, <3>3, <3>5, <3>6 DEF PositionOfContext, StepOwner
  <2>8. ASSUME owner' = NoModel, call'.op # "step",
               ctx' = [m \in Models |-> << >>]
        PROVE  Inv'
    BY <2>8 DEF PositionOfContext, StepOwner
  <2>9. ASSUME NEW m \in Models, LmClose(m)
        PROVE  Inv'
    BY <2>8, <2>9, CallOps DEF LmClose, Quiet
  <2>10. CASE Restart
    BY <2>8, <2>10, CallOps DEF Restart
  <2>11. ASSUME NEW m \in Models, LoadEnd(m)
         PROVE  Inv'
    BY <2>2, <2>11, CallOps DEF LoadEnd
  <2>12. ASSUME NEW i \in LayerNumbers, StepFails(i)
         PROVE  Inv'
    BY <2>2, <2>12, CallOps DEF StepFails
  <2> HIDE DEF Inv
  <2>13. QED
    BY <2>1, <2>3, <2>4, <2>5, <2>6, <2>7, <2>9, <2>10, <2>11, <2>12
       DEF Next, StepRefused, StepCrashes, ForeignSetup, ForeignClose,
           vars, lmVars
<1>3. QED
  BY <1>1, <1>2, LmTyped, PTL DEF Spec, TypeOK
-----------------------------------------------------------------------------
(* The cache *)

\* A context and the next token.
LEMMA Extended ==
    ASSUME NEW c \in Seq(Tokens), NEW t \in Tokens, Len(c) < MaxSeq
    PROVE  /\ Append(c, t) \in Contexts
           /\ Len(Append(c, t)) = Len(c) + 1
           /\ Append(c, t)[Len(c) + 1] = t
           /\ Prefix(Append(c, t), Len(c) + 1) = Append(c, t)
           /\ \A n \in 0 .. Len(c) : Prefix(Append(c, t), n) = Prefix(c, n)
<1> DEFINE d == Append(c, t)
<1>1. /\ d \in Seq(Tokens) /\ Len(d) = Len(c) + 1 /\ Len(c) \in Nat
      /\ \A j \in 1 .. Len(c) : d[j] = c[j]
      /\ d[Len(c) + 1] = t
  OBVIOUS
<1>2. d \in [1 .. Len(c) + 1 -> Tokens] /\ Len(c) + 1 \in 1 .. MaxSeq
  <2>1. d \in [1 .. Len(d) -> Tokens]
    BY <1>1, LenProperties
  <2>2. QED
    BY <1>1, <2>1
<1>3. d \in Contexts
  BY <1>2 DEF Contexts
<1>4. d = [j \in 1 .. Len(c) + 1 |-> d[j]]
  BY <1>2
<1> HIDE DEF d
<1>5. Prefix(d, Len(c) + 1) = d
  BY <1>4 DEF Prefix
<1>6. \A n \in 0 .. Len(c) : Prefix(d, n) = Prefix(c, n)
  BY <1>1 DEF Prefix
<1>7. QED
  BY <1>1, <1>3, <1>5, <1>6 DEF d

LEMMA SlotsOfHolder ==
    ASSUME RolesInPlace, NEW m \in Models, holder = m, NEW i \in LayerNumbers
    PROVE  /\ InSlots(i, Reads, {}) = LayerWeights(m, i)
           /\ InSlots(i, KvRoles, {}) = KvWeights(m, i)
  BY DEF RolesInPlace, InSlots, LayerWeights, KvWeights

\* What KvWritten changes.
LEMMA Written ==
    ASSUME LmTypes, NEW i \in LayerNumbers, NEW R, pos \in Positions
    PROVE  /\ KvWritten(i, R)[i][pos] = KeyValue(InSlots(i, KvRoles, R), x)
           /\ \A j \in LayerNumbers, s \in Positions :
                 j # i \/ s # pos => KvWritten(i, R)[j][s] = kv[j][s]
<1>1. kv = [j \in LayerNumbers |-> [s \in Positions |-> kv[j][s]]]
  BY DEF LmTypes, KvShape
<1>2. DOMAIN kv = LayerNumbers /\ \A j \in LayerNumbers : DOMAIN kv[j] = Positions
  BY <1>1
<1>3. KvWritten(i, R) = [kv EXCEPT ![i] = [kv[i] EXCEPT ![pos] =
                                         KeyValue(InSlots(i, KvRoles, R), x)]]
  BY DEF KvWritten
<1>4. QED
  BY <1>1, <1>2, <1>3

\* The keys and values below the position are those of the context, and a step
\* that has come to layer i holds the input of layer i.
THEOREM CacheCorrect ==
    ASSUME Agreed, ResetsFirst
    PROVE  Spec => [](CacheOfContext /\ StepValues)
<1> DEFINE Ctx == TypeOK /\ PositionOfContext /\ StepOwner
           Cache == CacheOfContext /\ StepValues
<1>1. Init => Cache
  <2> SUFFICES ASSUME Init PROVE Cache
    OBVIOUS
  <2>1. StepValues
    BY CallOps DEF Init, StepValues
  <2>2. QED
    BY <2>1 DEF Init, CacheOfContext
<1>2. /\ LmTypes /\ StepPlace /\ Ctx /\ Ctx' /\ RolesInPlace /\ HolderRead
      /\ Cache /\ [Next]_vars
      => Cache'
  <2> SUFFICES ASSUME LmTypes, StepPlace, Ctx, Ctx', RolesInPlace, HolderRead,
                      Cache, [Next]_vars
               PROVE  Cache'
    OBVIOUS
  <2>1. ASSUME UNCHANGED <<up, pos, kv, call, x, owner, ctx, kept>>,
               holder' = holder \/ call.op # "step"
        PROVE  Cache'
    BY <2>1 DEF CacheOfContext, StepValues
  <2>2. ASSUME UNCHANGED <<up, pos, kv, owner, ctx, kept>>, call'.op # "step"
        PROVE  Cache'
    BY <2>2 DEF CacheOfContext, StepValues
  <2>3. ASSUME call'.op # "step", ~up' \/ ~kept' \/ owner' = NoModel
        PROVE  Cache'
    BY <2>3 DEF CacheOfContext, StepValues
  <2>4. ASSUME call'.op # "step", pos' = 0
        PROVE  Cache'
    BY <2>4 DEF CacheOfContext, StepValues, PositionOfContext
  <2>5. ASSUME NEW m \in Models, LoadBegin(m)
        PROVE  Cache'
    <3>1. call'.op # "step" /\ UNCHANGED <<pos, owner, ctx, kept>>
      BY <2>5, CallOps DEF LoadBegin
    <3>2. CASE up
      BY <2>2, <2>5, <3>1, <3>2 DEF LoadBegin
    <3>3. CASE ~up
      BY <2>3, <2>4, <3>1, <3>3 DEF PositionOfContext
    <3>4. QED
      BY <3>2, <3>3
  <2>6. ASSUME NEW m \in Models, NEW t \in Tokens, StepBegin(m, t)
        PROVE  Cache'
    <3>1. /\ owner = m /\ up /\ pos < MaxSeq
          /\ UNCHANGED <<up, pos, kv, owner, ctx, kept, holder>>
          /\ x' = Embed(wte, t, pos)
          /\ call'.op = "step" /\ call'.m = m /\ call'.t = t /\ call'.i = 0
      BY <2>6, NewStep DEF StepBegin, MayStep, StepOwner, StepPlace, Ctx
    <3>2. CacheOfContext'
      BY <3>1 DEF CacheOfContext
    <3>3. ASSUME holder = m
          PROVE  x' = Hidden(m, 0, Append(ctx[m], t))
      <4>1. wte = m
        BY <3>3 DEF HolderRead
      <4>2. pos = Len(ctx[m]) /\ ctx[m] \in Seq(Tokens)
        BY <3>1 DEF PositionOfContext, LmTypes
      <4>3. /\ Append(ctx[m], t) \in Contexts
            /\ Len(Append(ctx[m], t)) = pos + 1
            /\ Append(ctx[m], t)[pos + 1] = t
        BY <3>1, <4>2, Extended
      <4>4. ASSUME NEW d \in Contexts
            PROVE  Hidden(m, 0, d) = Embed(m, d[Len(d)], Len(d) - 1)
        BY HiddenAssumption
      <4>5. Len(Append(ctx[m], t)) - 1 = pos
        BY <4>3 DEF LmTypes
      <4>6. QED
        BY <3>1, <4>1, <4>3, <4>4, <4>5
    <3>4. StepValues'
      BY <3>1, <3>3 DEF StepValues
    <3>5. QED
      BY <3>2, <3>4
  <2>7. ASSUME NEW i \in LayerNumbers, StepLayer(i)
        PROVE  Cache'
    <3> DEFINE m == call.m
               c == Append(ctx[m], call.t)
    <3>1. /\ m \in Models /\ call.t \in Tokens /\ call.i = i
          /\ up /\ owner = m /\ pos < MaxSeq /\ pos \in Positions
          /\ pos = Len(ctx[m]) /\ ctx[m] \in Seq(Tokens)
      BY <2>7 DEF StepLayer, At, StepPlace, StepOwner, PositionOfContext,
                  LmTypes, Positions
    <3>L. PICK R \in Refusable(i) :
              /\ kv' = KvWritten(i, R)
              /\ x' = Block(InSlots(i, Reads, R), x,
                            [s \in 0 .. pos |-> kv'[i][s]])
              /\ call'.op = call.op /\ call'.m = call.m /\ call'.t = call.t
              /\ call'.i = i + 1
              /\ call'.lost = call.lost \union R
      BY <2>7, LayerCall
    <3>2. /\ UNCHANGED <<up, pos, owner, ctx, kept, holder>>
          /\ kv' = KvWritten(i, R)
          /\ call'.op = "step" /\ call'.m = m /\ call'.t = call.t
          /\ call'.i = i + 1
      BY <2>7, <3>L DEF StepLayer, At
    <3>3. CacheOfContext'
      <4>1. \A j \in LayerNumbers, s \in 0 .. pos - 1 : kv'[j][s] = kv[j][s]
        <5>1. \A s \in 0 .. pos - 1 : s \in Positions /\ s # pos
          BY <3>1 DEF Positions
        <5>2. \A j \in LayerNumbers, s \in Positions :
                 s # pos => KvWritten(i, R)[j][s] = kv[j][s]
          BY <3>1, Written
        <5>3. QED
          BY <3>2, <5>1, <5>2
      <4>2. pos' = pos /\ owner' = owner /\ ctx' = ctx /\ up' = up /\ kept' = kept
        BY <3>2
      <4>3. QED
        BY <4>1, <4>2 DEF CacheOfContext
    <3>4. ASSUME kept, holder = m, call.lost = {}, R = {}
          PROVE  /\ x' = Hidden(m, i + 1, c)
                 /\ \A j \in 0 .. i :
                      kv'[j][pos] = KeyValue(KvWeights(m, j), Hidden(m, j, c))
      <4>1. x = Hidden(m, i, c)
        BY <2>7, <3>1, <3>4 DEF StepLayer, At, StepValues
      <4>2. /\ InSlots(i, Reads, R) = LayerWeights(m, i)
            /\ InSlots(i, KvRoles, R) = KvWeights(m, i)
        BY <3>1, <3>4, SlotsOfHolder
      <4>3. kv'[i][pos] = KeyValue(KvWeights(m, i), Hidden(m, i, c))
        BY <3>1, <3>2, <4>1, <4>2, Written
      <4>4. /\ c \in Contexts /\ Len(c) = pos + 1 /\ Len(c) - 1 = pos
            /\ Prefix(c, pos + 1) = c
            /\ \A n \in 0 .. pos : Prefix(c, n) = Prefix(ctx[m], n)
        BY <3>1, Extended
      <4>5. \A s \in 0 .. pos :
              kv'[i][s] = KeyValue(KvWeights(m, i),
                                   Hidden(m, i, Prefix(c, s + 1)))
        <5>1. SUFFICES ASSUME NEW s \in 0 .. pos, s # pos
                       PROVE  kv'[i][s] = KeyValue(KvWeights(m, i),
                                            Hidden(m, i, Prefix(c, s + 1)))
          BY <4>3, <4>4
        <5>2. s \in 0 .. pos - 1 /\ s \in Positions /\ s + 1 \in 0 .. pos
          BY <3>1, <5>1 DEF Positions
        <5>3. kv[i][s] = KeyValue(KvWeights(m, i),
                                  Hidden(m, i, Prefix(ctx[m], s + 1)))
          BY <3>1, <3>4, <5>2 DEF CacheOfContext
        <5>4. kv'[i][s] = kv[i][s]
          BY <3>1, <3>2, <5>1, <5>2, Written
        <5>5. QED
          BY <4>4, <5>2, <5>3, <5>4
      <4>6. x' = Block(LayerWeights(m, i), Hidden(m, i, c),
                       [s \in 0 .. pos |->
                          KeyValue(KvWeights(m, i),
                                   Hidden(m, i, Prefix(c, s + 1)))])
        <5>1. x' = Block(InSlots(i, Reads, R), x,
                         [s \in 0 .. pos |-> kv'[i][s]])
          BY <3>L
        <5>2. [s \in 0 .. pos |-> kv'[i][s]] =
                [s \in 0 .. pos |->
                   KeyValue(KvWeights(m, i), Hidden(m, i, Prefix(c, s + 1)))]
          BY <4>5
        <5>3. QED
          BY <4>1, <4>2, <5>1, <5>2
      <4>7. x' = Hidden(m, i + 1, c)
        BY <3>1, <4>4, <4>6, HiddenAssumption
      <4>8. ASSUME NEW j \in 0 .. i
            PROVE  kv'[j][pos] = KeyValue(KvWeights(m, j), Hidden(m, j, c))
        <5>1. CASE j = i
          BY <4>3, <5>1
        <5>2. CASE j # i
          <6>1. j \in 0 .. call.i - 1 /\ j \in LayerNumbers
            BY <3>1, <5>2 DEF LayerNumbers
          <6>2. kv[j][pos] = KeyValue(KvWeights(m, j), Hidden(m, j, c))
            BY <2>7, <3>4, <6>1 DEF StepLayer, At, StepValues
          <6>3. QED
            BY <3>1, <3>2, <5>2, <6>1, <6>2, Written
        <5>3. QED
          BY <5>1, <5>2
      <4>9. QED
        BY <4>7, <4>8
    <3>5. StepValues'
      <4>1. kept' = kept /\ holder' = holder /\ ctx' = ctx /\ pos' = pos
        BY <3>2
      <4>2. Append(ctx'[call'.m], call'.t) = c
        BY <3>2
      <4>3. SUFFICES ASSUME kept', holder' = call'.m, call'.lost = {}
                     PROVE  /\ x' = Hidden(call'.m, call'.i,
                                           Append(ctx'[call'.m], call'.t))
                            /\ \A j \in 0 .. call'.i - 1 :
                                 kv'[j][pos'] =
                                   KeyValue(KvWeights(call'.m, j),
                                     Hidden(call'.m, j,
                                            Append(ctx'[call'.m], call'.t)))
        BY Zenon DEF StepValues
      <4>4. kept /\ holder = m /\ call.lost = {} /\ R = {}
        BY <3>2, <3>L, <4>1, <4>3
      <4>5. /\ x' = Hidden(m, i + 1, c)
            /\ \A j \in 0 .. i :
                 kv'[j][pos] = KeyValue(KvWeights(m, j), Hidden(m, j, c))
        BY <3>4, <4>4
      <4>6. call'.m = m /\ call'.i = i + 1
        BY <3>2
      <4> HIDE DEF c, m
      <4>7. x' = Hidden(call'.m, call'.i, Append(ctx'[call'.m], call'.t))
        BY <4>2, <4>5, <4>6
      <4>8. ASSUME NEW j \in 0 .. call'.i - 1
            PROVE  kv'[j][pos'] =
                     KeyValue(KvWeights(call'.m, j),
                       Hidden(call'.m, j, Append(ctx'[call'.m], call'.t)))
        <5>1. i \in Int
          BY DEF LayerNumbers
        <5>2. j \in 0 .. i
          BY <4>6, <5>1
        <5>3. QED
          BY <4>1, <4>2, <4>5, <4>6, <5>2
      <4>9. QED
        BY <4>7, <4>8
    <3>6. QED
      BY <3>3, <3>5
  <2>8. ASSUME NEW i \in LayerNumbers, StepFails(i)
        PROVE  Cache'
    <3>1. /\ up /\ owner = call.m /\ pos \in Positions
          /\ call'.op # "step"
          /\ UNCHANGED <<up, pos, owner, ctx, kept>>
          /\ kv' = kv \/ \E R : kv' = KvWritten(i, R)
      BY <2>8, CallOps DEF StepFails, At, StepPlace, StepOwner, LmTypes, Positions
    <3>2. ASSUME NEW j \in LayerNumbers, NEW s \in 0 .. pos - 1
          PROVE  kv'[j][s] = kv[j][s]
      BY <3>1, Written DEF Positions
    <3>3. QED
      BY <3>1, <3>2 DEF CacheOfContext, StepValues
  <2>9. CASE StepEnd
    <3> DEFINE m == call.m
               c == Append(ctx[m], call.t)
    <3>1. /\ m \in Models /\ call.t \in Tokens /\ call.i = NLayers
          /\ call.op = "step"
          /\ up /\ owner = m /\ pos < MaxSeq /\ pos \in Positions
          /\ pos = Len(ctx[m]) /\ ctx[m] \in Seq(Tokens)
      BY <2>9 DEF StepEnd, StepPlace, StepOwner, PositionOfContext,
                  LmTypes, Positions
    <3>2. /\ UNCHANGED <<up, owner, kv>> /\ pos' = pos + 1
          /\ kept' = (kept /\ holder = m /\ call.lost = {})
          /\ ctx'[m] = c
          /\ call'.op # "step"
      BY <2>9, <3>1, CallOps DEF StepEnd, LmTypes
    <3>3. /\ Len(c) = pos + 1 /\ Prefix(c, pos + 1) = c
          /\ \A n \in 0 .. pos : Prefix(c, n) = Prefix(ctx[m], n)
      BY <3>1, Extended
    <3>4. ASSUME kept, holder = m, call.lost = {}, 
                 NEW j \in LayerNumbers, NEW s \in 0 .. pos
          PROVE  kv[j][s] = KeyValue(KvWeights(m, j),
                                     Hidden(m, j, Prefix(c, s + 1)))
      <4>1. CASE s = pos
        <5>1. j \in 0 .. call.i - 1
          BY <3>1 DEF LayerNumbers
        <5>2. QED
          BY <3>1, <3>3, <3>4, <4>1, <5>1 DEF StepValues
      <4>2. CASE s # pos
        <5>1. s \in 0 .. pos - 1 /\ s + 1 \in 0 .. pos
          BY <3>1, <4>2 DEF Positions
        <5>2. QED
          BY <3>1, <3>3, <3>4, <5>1 DEF CacheOfContext
      <4>3. QED
        BY <4>1, <4>2
    <3>5. CacheOfContext'
      <4>1. pos' - 1 = pos
        BY <3>1, <3>2 DEF Positions
      <4>2. kept' => kept /\ holder = m /\ call.lost = {}
        BY <3>2
      <4>3. owner' = m /\ ctx'[owner'] = c
        BY <3>1, <3>2
      <4>4. SUFFICES ASSUME kept'
                     PROVE  /\ pos' = Len(c)
                            /\ \A j \in LayerNumbers, s \in 0 .. pos :
                                 kv[j][s] = KeyValue(KvWeights(m, j),
                                              Hidden(m, j, Prefix(c, s + 1)))
        BY <3>2, <4>1, <4>3 DEF CacheOfContext
      <4>5. QED
        BY <3>2, <3>3, <3>4, <4>2, <4>4
    <3>6. QED
      BY <3>2, <3>5 DEF StepValues
  <2>10. ASSUME NEW m \in Models, LoadEnd(m)
         PROVE  Cache'
    BY <2>2, <2>10, CallOps DEF LoadEnd
  <2>11. ASSUME NEW m \in Models, LmReset(m)
         PROVE  Cache'
    BY <2>4, <2>11, CallOps DEF LmReset, Quiet
  <2>12. ASSUME NEW m \in Models, LmClose(m)
         PROVE  Cache'
    BY <2>3, <2>12, CallOps DEF LmClose, Quiet
  <2>13. CASE Restart
    BY <2>3, <2>13, CallOps DEF Restart
  <2>14. CASE ForeignClose \/ \E n \in ForeignNw : ForeignSetup(n)
    BY <2>1, <2>14, CallOps DEF ForeignSetup, ForeignClose, Quiet
  <2> HIDE DEF Cache
  <2>15. QED
    BY <2>1, <2>5, <2>6, <2>7, <2>8, <2>9, <2>10, <2>11, <2>12, <2>13, <2>14
       DEF Next, StepRefused, StepCrashes, vars, lmVars
<1>3. QED
  BY <1>1, <1>2, LmTyped, PositionCorrect, RolesCorrect, PTL DEF Spec
-----------------------------------------------------------------------------
(* The answers *)

LEMMA Answers ==
    /\ NoAnswer.ok = FALSE
    /\ \A m, y : /\ Answer(m, y).ok = TRUE
                 /\ Answer(m, y).model = m
                 /\ Answer(m, y).logits = y
  BY DEF NoAnswer, Answer

Sound == /\ LmTypes /\ StepPlace
         /\ TypeOK /\ PositionOfContext /\ StepOwner
         /\ RolesInPlace /\ HolderRead
         /\ CacheOfContext /\ StepValues

\* The last step of a token on the weights of its model.
LEMMA EndAnswers ==
    ASSUME Sound, StepEnd, kept, holder = call.m, call.lost = {}
    PROVE  /\ call.m \in Models
           /\ ctx'[call.m] \in Contexts
           /\ out' = Answer(call.m, Logits(call.m, ctx'[call.m]))
<1> DEFINE c == Append(ctx[call.m], call.t)
<1>1. /\ call.op = "step" /\ call.i = NLayers
      /\ call.m \in Models /\ call.t \in Tokens /\ pos < MaxSeq
      /\ owner = call.m
  BY DEF Sound, StepEnd, StepPlace, StepOwner
<1>2. Len(ctx[call.m]) < MaxSeq /\ ctx[call.m] \in Seq(Tokens)
  BY <1>1 DEF Sound, PositionOfContext, LmTypes
<1>3. c \in Contexts
  BY <1>1, <1>2, Extended
<1>4. ctx'[call.m] = c
  BY <1>1 DEF StepEnd, Sound, LmTypes
<1>5. x = Hidden(call.m, NLayers, c)
  BY <1>1 DEF Sound, StepValues
<1>6. wte = call.m
  BY <1>1 DEF Sound, HolderRead
<1>7. out' = Answer(call.m, <<wte, x>>)
  BY DEF StepEnd
<1> HIDE DEF c
<1>8. QED
  BY <1>1, <1>3, <1>4, <1>5, <1>6, <1>7 DEF Logits

LEMMA AlwaysSound == ASSUME Agreed, ResetsFirst PROVE Spec => []Sound
  BY LmTyped, PositionCorrect, RolesCorrect, CacheCorrect, PTL DEF Sound

\* The logits that a step answers with are the transformer's on the tokens the
\* model was given since its reset.
THEOREM LogitsCorrect ==
    ASSUME Agreed, ResetsFirst
    PROVE  Spec => []LogitsOfContext
<1>1. Init => LogitsOfContext
  BY Answers DEF Init, LogitsOfContext
<1>2. Sound /\ LogitsOfContext /\ [Next]_vars => LogitsOfContext'
  <2> SUFFICES ASSUME Sound, LogitsOfContext, [Next]_vars
               PROVE  LogitsOfContext'
    OBVIOUS
  <2>1. CASE UNCHANGED <<ctx, kept, out>>
    BY <2>1 DEF LogitsOfContext
  <2>2. CASE out' = NoAnswer
    BY <2>2, Answers DEF LogitsOfContext
  <2>3. CASE StepEnd
    <3>1. SUFFICES ASSUME kept'
                   PROVE  /\ ctx'[out'.model] \in Contexts
                          /\ out'.logits = Logits(out'.model, ctx'[out'.model])
      BY DEF LogitsOfContext
    <3>2. kept /\ holder = call.m /\ call.lost = {}
      BY <2>3, <3>1 DEF StepEnd
    <3>3. QED
      BY <2>3, <3>2, EndAnswers, Answers
  <2>4. QED
    BY <2>1, <2>2, <2>3
       DEF Next, LoadBegin, LoadEnd, StepRefused, StepBegin, StepLayer,
           StepFails, StepCrashes, LmReset, LmClose, ForeignSetup,
           ForeignClose, Restart, vars
<1>3. QED
  BY <1>1, <1>2, AlwaysSound, PTL DEF Spec

\* lm_forward.c with its cache, position and slots does what a model that
\* computes each answer from the whole context does.
THEOREM LmImplements ==
    ASSUME Agreed, ResetsFirst
    PROVE  Spec => Implements
<1>1. Init => Abstract!Init
  BY DEF Init, Abstract!Init, NoAnswer, Abstract!NoAnswer
<1>2. Sound /\ [Next]_vars => [Abstract!Next]_<<ctx, kept, out>>
  <2> SUFFICES ASSUME Sound, [Next]_vars
               PROVE  Abstract!Next \/ UNCHANGED <<ctx, kept, out>>
    OBVIOUS
  <2>1. CASE UNCHANGED <<ctx, kept, out>>
    BY <2>1
  <2>2. CASE UNCHANGED <<ctx, kept>> /\ out' = NoAnswer
    BY <2>2 DEF Abstract!Next, Abstract!Fail, NoAnswer, Abstract!NoAnswer
  <2>3. CASE StepEnd
    <3>1. /\ call.m \in Models /\ call.t \in Tokens /\ pos < MaxSeq
          /\ owner = call.m /\ Len(ctx[call.m]) < MaxSeq
      BY <2>3 DEF Sound, StepEnd, StepPlace, StepOwner, PositionOfContext, LmTypes
    <3>2. ctx' = [ctx EXCEPT ![call.m] = Append(@, call.t)]
      BY <2>3 DEF StepEnd
    <3>3. CASE kept /\ holder = call.m /\ call.lost = {}
      <4>1. out' = Answer(call.m, Logits(call.m, ctx'[call.m]))
        BY <2>3, <3>3, EndAnswers
      <4>2. kept' = kept
        BY <2>3, <3>3 DEF StepEnd
      <4>3. Abstract!Step(call.m)
        BY <3>1, <3>2, <3>3, <4>1, <4>2
           DEF Abstract!Step, Answer, Abstract!Answer, Logits, Abstract!Logits
      <4>4. QED
        BY <3>1, <4>3 DEF Abstract!Next
    <3>4. CASE ~(kept /\ holder = call.m /\ call.lost = {})
      <4>1. kept' = FALSE
        BY <2>3, <3>4 DEF StepEnd
      <4>2. out'.ok
        BY <2>3, Answers DEF StepEnd
      <4>3. Abstract!BrokenStep(call.m)
        BY <3>1, <3>2, <4>1, <4>2 DEF Abstract!BrokenStep
      <4>4. QED
        BY <3>1, <4>3 DEF Abstract!Next
    <3>5. QED
      BY <3>3, <3>4
  <2>4. ASSUME NEW m \in Models, LmReset(m)
        PROVE  Abstract!Next
    <3>1. Abstract!Reset(m)
      BY <2>4 DEF LmReset, Abstract!Reset, NoAnswer, Abstract!NoAnswer
    <3>2. QED
      BY <3>1 DEF Abstract!Next
  <2>5. CASE Restart \/ \E m \in Models : LmClose(m)
    BY <2>5 DEF Restart, LmClose, Abstract!Next, Abstract!Forget, NoAnswer,
                Abstract!NoAnswer
  <2>6. QED
    BY <2>1, <2>2, <2>3, <2>4, <2>5
       DEF Next, LoadBegin, LoadEnd, StepRefused, StepBegin, StepLayer,
           StepFails, StepCrashes, ForeignSetup, ForeignClose, vars
<1>3. QED
  BY <1>1, <1>2, AlwaysSound, PTL DEF Spec, Implements, Abstract!Spec
=============================================================================
