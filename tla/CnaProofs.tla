------------------------------ MODULE CnaProofs ------------------------------
(***************************************************************************)
(* Theorems about cna_matmul.c.                                            *)
(*                                                                         *)
(* First CnaUsers, the parts of a process that share its weight slots: for *)
(* any slots, set-ups and users.  Then NpuBatch, the three-core run: the   *)
(* types and the count of the domain for any number of processes, cores    *)
(* and timeouts; what the cores run and what a process adds up, for one    *)
(* process that never times out.  The two share no variable.               *)
(***************************************************************************)
EXTENDS CnaUsers, NpuBatch, FiniteSetTheorems, TLAPS

-----------------------------------------------------------------------------
(* The users of the CNA context *)

USE CnaAssumption, UserAssumption DEF CnaAssumption, UserAssumption

\* Each user is closed before the next one starts, all look at the results of
\* their loads, and the slots of attention are no user's.
Disciplined ==
    /\ Exclusive
    /\ Checking = AllUsers
    /\ Attends => \A u \in Users : Uses[u] <= AttnK /\ Uses[u] <= AttnV

LEMMA UserSlots ==
    ASSUME NEW u \in Users
    PROVE  /\ u \in AllUsers /\ u # "attention"
           /\ Uses[u] \in Nat /\ Asks[u] \in 0 .. MaxSlots
           /\ SlotsOf(u) \subseteq CnaSlots
           /\ \A s \in SlotsOf(u) : <<u, s>> \in SlotWeights
  BY DEF SlotsOf, CnaSlots, AllUsers

\* What a matmul can have used.
Sources == SlotWeights \union ({"op6"} \X (0 .. CacheSlots - 1))
              \union {Nothing, Unfilled, Stale}

LEMMA Runs ==
    /\ NoRun \in Matmuls /\ ~NoRun.ok
    /\ \A h \in {"slot", "refused", "template", "attention"},
          u \in AllUsers \union {"attention"}, s \in CnaSlots \union Keys,
          x \in Sources :
             Ran(h, u, s, x) \in Matmuls
    /\ \A h, u, s, x : /\ Ran(h, u, s, x).how = h
                       /\ Ran(h, u, s, x).user = u
                       /\ Ran(h, u, s, x).slot = s
                       /\ Ran(h, u, s, x).used = x
  BY DEF NoRun, Ran, Matmuls, Sources

LEMMA SetupTypes ==
    ASSUME CnaTypeOK, NEW n \in 0 .. MaxSlots, NEW o \in SetupOutcomes,
           CacheSetup(n, o)
    PROVE  CnaTypeOK'
<1>1. 0 \in 0 .. MaxSlots
  OBVIOUS
<1>2. QED
  BY <1>1 DEF CacheSetup, CnaTypeOK, SetupOutcomes

\* Every operation of every user keeps the variables in their types.
THEOREM UsersTyped == UsersSpec => []UsersTypeOK
<1>1. UsersInit => UsersTypeOK
  <2> SUFFICES ASSUME UsersInit PROVE UsersTypeOK
    OBVIOUS
  <2>1. 0 \in 0 .. MaxSlots
    OBVIOUS
  <2>2. -1 \in -1 .. CacheSlots
    OBVIOUS
  <2>3. CnaTypeOK
    BY <2>1 DEF UsersInit, CnaInit, CnaTypeOK
  <2>4. QED
    BY <2>2, <2>3, Runs DEF UsersInit, UsersTypeOK
<1>2. UsersTypeOK /\ [UsersNext]_usersVars => UsersTypeOK'
  <2> SUFFICES ASSUME UsersTypeOK, [UsersNext]_usersVars PROVE UsersTypeOK'
    OBVIOUS
  <2> DEFINE Rest == /\ cached' \in -1 .. CacheSlots
                     /\ up' \subseteq Users
                     /\ has' \in [Users -> SUBSET CnaSlots]
                     /\ last' \in Matmuls
                     /\ crashed' \in BOOLEAN
  <2>0. ASSUME CnaTypeOK', Rest
        PROVE  UsersTypeOK'
    BY <2>0 DEF UsersTypeOK, Matmuls
  <2>1. CASE "vision" \in Users /\ VisionInit
    <3>1. CnaTypeOK'
      BY <2>1, SetupTypes, UserSlots DEF VisionInit, UsersTypeOK
    <3>2. Rest
      BY <2>1, Runs DEF VisionInit, UsersTypeOK
    <3>3. QED
      BY <2>0, <3>1, <3>2
  <2>2. CASE "lm" \in Users /\ LmInit
    <3>1. CnaTypeOK'
      <4>1. CASE UNCHANGED cnaVars
        BY <4>1 DEF cnaVars, CnaTypeOK, UsersTypeOK
      <4>2. CASE \E o \in SetupOutcomes : CacheSetup(Asks["lm"], o)
        BY <2>2, <4>2, SetupTypes, UserSlots DEF UsersTypeOK
      <4>3. QED
        BY <2>2, <4>1, <4>2 DEF LmInit
    <3>2. Rest
      BY <2>2, Runs DEF LmInit, UsersTypeOK
    <3>3. QED
      BY <2>0, <3>1, <3>2
  <2>3. CASE "plugin" \in Users /\ ClientCreate
    <3>1. PICK S \in SUBSET SlotsOf("plugin") :
             /\ wt' = [s \in CnaSlots |->
                         IF s \in S THEN <<"plugin", s>> ELSE Nothing]
             /\ open' \in BOOLEAN /\ whole' \in BOOLEAN
             /\ n_w' = 0 \/ n_w' = Asks["plugin"]
      BY <2>3 DEF ClientCreate
    <3>2. \A s \in S : <<"plugin", s>> \in SlotWeights
      BY <2>3, UserSlots
    <3>3. n_w' \in 0 .. MaxSlots
      BY <2>3, <3>1, UserSlots
    <3>4. CnaTypeOK'
      BY <3>1, <3>2, <3>3 DEF CnaTypeOK, UsersTypeOK
    <3>5. Rest
      BY <2>3, Runs, UserSlots DEF ClientCreate, UsersTypeOK
    <3>6. QED
      BY <2>0, <3>4, <3>5
  <2>4. CASE "script" \in Users /\ ScriptSetup
    <3>1. CnaTypeOK'
      BY <2>4, SetupTypes, UserSlots DEF ScriptSetup, UsersTypeOK
    <3>2. Rest
      BY <2>4, Runs DEF ScriptSetup, UsersTypeOK
    <3>3. QED
      BY <2>0, <3>1, <3>2
  <2>5. ASSUME NEW u \in Loaders, NEW s \in SlotsOf(u),
               Load(u, s) \/ LoadFails(u, s)
        PROVE  UsersTypeOK'
    <3>1. u \in Users /\ s \in CnaSlots /\ <<u, s>> \in SlotWeights
      BY UserSlots DEF Loaders
    <3>2. CnaTypeOK'
      <4>1. CASE Load(u, s)
        BY <3>1, <4>1 DEF Load, CacheLoad, CnaTypeOK, UsersTypeOK
      <4>2. CASE LoadFails(u, s)
        BY <3>1, <4>2 DEF LoadFails, CacheLoadFails, CnaTypeOK, UsersTypeOK
      <4>3. QED
        BY <2>5, <4>1, <4>2
    <3>3. Rest
      BY <2>5, <3>1 DEF Load, LoadFails, UsersTypeOK, Matmuls
    <3>4. QED
      BY <2>0, <3>2, <3>3
  <2>6. ASSUME NEW u \in Users, NEW s \in SlotsOf(u),
               Run(u, s) \/ RunFails(u, s)
        PROVE  UsersTypeOK'
    <3>1. /\ u \in AllUsers /\ s \in CnaSlots
          /\ wt[s] \in Sources /\ Nothing \in Sources /\ Stale \in Sources
      BY UserSlots DEF CnaTypeOK, UsersTypeOK, Sources
    <3>2. /\ UNCHANGED <<cnaVars, cached, up, has>>
          /\ crashed' = crashed \/ crashed' = TRUE
          /\ \/ last' = NoRun
             \/ \E h \in {"slot", "refused"}, x \in {wt[s], Nothing, Stale} :
                   last' = Ran(h, u, s, x)
      BY <2>6 DEF Run, RunFails
    <3>3. last' \in Matmuls
      BY <3>1, <3>2, Runs
    <3>4. CnaTypeOK'
      BY <3>2 DEF cnaVars, CnaTypeOK, UsersTypeOK
    <3>5. QED
      BY <2>0, <3>2, <3>3, <3>4 DEF UsersTypeOK
  <2>7. CASE OpSix
    <3>1. cached' \in -1 .. CacheSlots
      BY <2>7 DEF OpSix, UsersTypeOK
    <3>2. CnaTypeOK'
      BY <2>7 DEF OpSix, cnaVars, CnaTypeOK, UsersTypeOK
    <3>3. QED
      BY <2>0, <2>7, <3>1, <3>2, Runs DEF OpSix, UsersTypeOK
  <2>8. ASSUME NEW s \in SlotsOf("plugin"), RunFallsBack(s)
        PROVE  UsersTypeOK'
    <3>1. PICK x \in {<<"op6", s>>, Nothing} : last' = Ran("template", "plugin", s, x)
      BY <2>8 DEF RunFallsBack
    <3>2. s \in CnaSlots /\ s < CacheSlots /\ s \in 0 .. CacheSlots - 1
      BY <2>8 DEF RunFallsBack, SlotsOf, CnaSlots, AllUsers
    <3>3. x \in Sources
      BY <3>1, <3>2 DEF Sources
    <3>4. last' \in Matmuls
      BY <3>1, <3>2, <3>3, Runs DEF AllUsers
    <3>5. CnaTypeOK'
      BY <2>8 DEF RunFallsBack, cnaVars, CnaTypeOK, UsersTypeOK
    <3>6. QED
      BY <2>0, <2>8, <3>4, <3>5 DEF RunFallsBack, UsersTypeOK
  <2>9. ASSUME NEW k \in Keys, Attention(k)
        PROVE  UsersTypeOK'
    <3>1. PICK wk \in Reloaded(AttnK, k), wv \in Reloaded(AttnV, k) :
             /\ wt' = [wt EXCEPT ![AttnK] = wk, ![AttnV] = wv]
             /\ \/ last' = NoRun
                \/ \E x \in Product(AttnK, wk), y \in Product(AttnV, wv) :
                      last' = Ran("attention", "attention", k,
                                  IF x = <<"attention", k>> THEN y ELSE x)
             /\ crashed' = crashed \/ crashed' = TRUE
      BY <2>9 DEF Attention
    <3>2. {wk, wv} \subseteq SlotWeights \union {Nothing, Unfilled}
      BY DEF Reloaded, CnaTypeOK, UsersTypeOK
    <3>3. CnaTypeOK'
      BY <2>9, <3>1, <3>2 DEF Attention, CnaTypeOK, UsersTypeOK
    <3>4. last' \in Matmuls
      <4>1. \A x \in Product(AttnK, wk) \union Product(AttnV, wv) : x \in Sources
        BY <3>2 DEF Product, Sources
      <4>2. \A x \in Sources : Ran("attention", "attention", k, x) \in Matmuls
        BY Runs
      <4>3. CASE last' = NoRun
        BY <4>3, Runs
      <4>4. ASSUME NEW x \in Product(AttnK, wk), NEW y \in Product(AttnV, wv),
                   last' = Ran("attention", "attention", k,
                               IF x = <<"attention", k>> THEN y ELSE x)
            PROVE  last' \in Matmuls
        BY <4>1, <4>2, <4>4
      <4>5. QED
        BY <3>1, <4>3, <4>4
    <3>5. QED
      BY <2>0, <2>9, <3>1, <3>3, <3>4 DEF Attention, UsersTypeOK
  <2>10. ASSUME NEW u \in Users, Close(u)
        PROVE  UsersTypeOK'
    <3>1. CnaTypeOK'
      BY <2>10 DEF Close, CacheClose, cnaVars, CnaTypeOK, UsersTypeOK
    <3>2. Rest
      BY <2>10, Runs DEF Close, UsersTypeOK
    <3>3. QED
      BY <2>0, <3>1, <3>2
  <2>11. CASE Restart
    <3>1. CnaTypeOK'
      <4>1. 0 \in 0 .. MaxSlots
        OBVIOUS
      <4>2. QED
        BY <2>11, <4>1 DEF Restart, CnaTypeOK
    <3>2. Rest
      <4>1. -1 \in -1 .. CacheSlots
        OBVIOUS
      <4>2. QED
        BY <2>11, <4>1, Runs DEF Restart
    <3>3. QED
      BY <2>0, <3>1, <3>2
  <2>12. CASE UNCHANGED usersVars
    BY <2>12 DEF usersVars, CnaTypeOK, UsersTypeOK
  <2>13. QED
    BY <2>1, <2>2, <2>3, <2>4, <2>5, <2>6, <2>7, <2>8, <2>9, <2>10, <2>11, <2>12
       DEF UsersNext, Start
<1>3. QED
  BY <1>1, <1>2, PTL DEF UsersSpec
-----------------------------------------------------------------------------
(* Whose weights *)

OneUser == \A u, v \in up : u = v

\* A client's slots hold its own weights or none; a load that failed is never
\* noticed.
ClientSlots ==
    "plugin" \in up =>
        \A s \in SlotsOf("plugin") : wt[s] \in {<<"plugin", s>>, Nothing}

LoadedInUse == \A u \in Users : has[u] \subseteq SlotsOf(u)

UsersInv == OneUser /\ ClientSlots /\ LoadedInUse /\ LoadedStays

\* After a start, its user is the only one and has loaded nothing but what a
\* client loads at once.
LEMMA Started ==
    ASSUME UsersTypeOK, LoadedInUse, NEW u \in Users, up' \subseteq {u},
           u # "plugin", has' = [has EXCEPT ![u] = {}]
    PROVE  UsersInv'
  BY DEF UsersTypeOK, UsersInv, OneUser, ClientSlots, LoadedInUse, LoadedStays

\* After a stop nobody is up.
LEMMA Stopped ==
    ASSUME up' = {}, LoadedInUse'
    PROVE  UsersInv'
  BY DEF UsersInv, OneUser, ClientSlots, LoadedStays

LEMMA SlotsKept ==
    ASSUME UsersInv, UNCHANGED <<cnaVars, up, has>>
    PROVE  UsersInv'
  BY DEF UsersInv, OneUser, ClientSlots, LoadedInUse, LoadedStays, InRange, cnaVars

LEMMA UsersInvInit == UsersInit => UsersInv
  BY DEF UsersInit, CnaInit, UsersInv, OneUser, ClientSlots, LoadedInUse, LoadedStays

LEMMA UsersInvNext ==
    Disciplined /\ UsersTypeOK /\ UsersInv /\ [UsersNext]_usersVars => UsersInv'
<1> SUFFICES ASSUME Disciplined, UsersTypeOK, UsersInv, [UsersNext]_usersVars
             PROVE  UsersInv'
  OBVIOUS
<1>0. LoadedInUse /\ OneUser /\ ClientSlots /\ LoadedStays
  BY DEF UsersInv
<1>1. CASE "vision" \in Users /\ VisionInit
  <2>1. up = {}
    BY <1>1 DEF Disciplined, VisionInit, MayStart
  <2>2. QED
    BY <1>0, <1>1, <2>1, Started DEF VisionInit
<1>2. CASE "lm" \in Users /\ LmInit
  <2>1. up = {}
    BY <1>2 DEF Disciplined, LmInit, MayStart
  <2>2. QED
    BY <1>0, <1>2, <2>1, Started DEF LmInit
<1>3. CASE "plugin" \in Users /\ ClientCreate
  <2>1. up = {} /\ up' = {"plugin"}
    BY <1>3 DEF Disciplined, ClientCreate, MayStart
  <2>2. /\ \A s \in CnaSlots : wt'[s] \in {<<"plugin", s>>, Nothing}
        /\ has' = [has EXCEPT !["plugin"] = SlotsOf("plugin")]
    BY <1>3 DEF ClientCreate
  <2>3. ClientSlots'
    BY <1>3, <2>2, UserSlots DEF ClientSlots
  <2>4. LoadedInUse'
    BY <1>0, <2>2 DEF LoadedInUse, UsersTypeOK
  <2>5. OneUser' /\ LoadedStays'
    BY <1>3, <2>1, <2>2 DEF OneUser, LoadedStays
  <2>6. QED
    BY <2>3, <2>4, <2>5 DEF UsersInv
<1>4. CASE "script" \in Users /\ ScriptSetup
  <2>1. up' \subseteq {"script"}
    BY <1>4 DEF Disciplined, ScriptSetup
  <2>2. QED
    BY <1>0, <1>4, <2>1, Started DEF ScriptSetup
<1>5. ASSUME NEW u \in Loaders, NEW s \in SlotsOf(u),
             Load(u, s) \/ LoadFails(u, s)
      PROVE  UsersInv'
  <2>1. u \in Users /\ u # "plugin" /\ u \in up /\ s \in CnaSlots
    BY <1>5, UserSlots DEF Loaders, Load, LoadFails
  <2>2. up' = up /\ n_w' = n_w /\ open' = open
    BY <1>5 DEF Load, LoadFails, CacheLoad, CacheLoadFails
  <2>3. up = {u}
    BY <1>0, <2>1 DEF OneUser
  <2>4. LoadedInUse'
    BY <1>0, <1>5, <2>1 DEF Load, LoadFails, LoadedInUse, UsersTypeOK
  <2>5. LoadedStays'
    <3>1. ASSUME NEW r \in has'[u]
          PROVE  InRange(r)' /\ wt'[r] = <<u, r>>
      <4>1. CASE Load(u, s)
        <5>1. r \in CnaSlots /\ (r = s \/ r \in has[u])
          BY <2>1, <3>1, <4>1 DEF Load, UsersTypeOK
        <5>2. /\ InRange(s) /\ wt' = [wt EXCEPT ![s] = <<u, s>>]
              /\ InRange(r)' = InRange(r)
          BY <4>1 DEF Load, CacheLoad, InRange
        <5>3. CASE r = s
          BY <2>1, <5>2, <5>3 DEF UsersTypeOK, CnaTypeOK
        <5>4. CASE r # s
          <6>1. InRange(r) /\ wt[r] = <<u, r>>
            BY <1>0, <2>1, <5>1, <5>4 DEF LoadedStays
          <6>2. QED
            BY <5>1, <5>2, <5>4, <6>1 DEF UsersTypeOK, CnaTypeOK
        <5>5. QED
          BY <5>3, <5>4
      <4>2. CASE LoadFails(u, s)
        <5>1. r \in CnaSlots /\ r # s /\ r \in has[u]
          BY <2>1, <3>1, <4>2 DEF LoadFails, UsersTypeOK
        <5>2. wt' = wt \/ wt' = [wt EXCEPT ![s] = Unfilled]
          BY <4>2 DEF LoadFails, CacheLoadFails
        <5>3. InRange(r) /\ wt[r] = <<u, r>>
          BY <1>0, <2>1, <5>1 DEF LoadedStays
        <5>4. QED
          BY <2>2, <5>1, <5>2, <5>3 DEF InRange, UsersTypeOK, CnaTypeOK
      <4>3. QED
        BY <1>5, <4>1, <4>2
    <3>2. QED
      BY <2>2, <2>3, <3>1 DEF LoadedStays
  <2>6. OneUser' /\ ClientSlots'
    BY <1>0, <2>1, <2>2, <2>3 DEF OneUser, ClientSlots
  <2>7. QED
    BY <2>4, <2>5, <2>6 DEF UsersInv
<1>6. ASSUME NEW u \in Users, NEW s \in SlotsOf(u),
             Run(u, s) \/ RunFails(u, s)
      PROVE  UsersInv'
  BY <1>6, SlotsKept DEF Run, RunFails
<1>7. CASE OpSix \/ \E s \in SlotsOf("plugin") : RunFallsBack(s)
  BY <1>7, SlotsKept DEF OpSix, RunFallsBack
<1>8. ASSUME NEW k \in Keys, Attention(k)
      PROVE  UsersInv'
  <2>1. UNCHANGED <<open, n_w, up, has>>
    BY <1>8 DEF Attention
  <2>2. ASSUME NEW u \in Users, NEW s \in SlotsOf(u)
        PROVE  wt'[s] = wt[s]
    <3>1. s \in CnaSlots /\ s < Uses[u] /\ s \in Int
      BY UserSlots DEF SlotsOf
    <3>2. Uses[u] <= AttnK /\ Uses[u] <= AttnV
      BY <1>8 DEF Attention, Disciplined
    <3>3. s # AttnK /\ s # AttnV
      BY <3>1, <3>2, UserSlots DEF CnaSlots
    <3>4. PICK x, y : wt' = [wt EXCEPT ![AttnK] = x, ![AttnV] = y]
      BY <1>8 DEF Attention
    <3>5. QED
      BY <3>1, <3>3, <3>4 DEF UsersTypeOK, CnaTypeOK
  <2>3. ClientSlots' /\ LoadedStays'
    BY <1>0, <2>1, <2>2 DEF ClientSlots, LoadedStays, LoadedInUse, InRange, UsersTypeOK
  <2>4. QED
    BY <1>0, <2>1, <2>3 DEF UsersInv, OneUser, LoadedInUse
<1>9. ASSUME NEW u \in Users, Close(u)
      PROVE  UsersInv'
  <2>1. up' = {}
    BY <1>0, <1>9 DEF Close, OneUser
  <2>2. LoadedInUse'
    BY <1>0, <1>9 DEF Close, LoadedInUse, UsersTypeOK
  <2>3. QED
    BY <2>1, <2>2, Stopped
<1>10. CASE Restart
  BY <1>10, Stopped DEF Restart, LoadedInUse
<1>11. CASE UNCHANGED usersVars
  BY <1>11, SlotsKept DEF usersVars, cnaVars
<1>12. QED
  BY <1>1, <1>2, <1>3, <1>4, <1>5, <1>6, <1>7, <1>8, <1>9, <1>10, <1>11
     DEF UsersNext, Start

\* While each user is closed before the next one starts and attention has
\* slots of its own, what a user loaded stays in its slots until it stops.
THEOREM LoadedKept == ASSUME Disciplined PROVE UsersSpec => []LoadedStays
<1>1. UsersInv => LoadedStays
  BY DEF UsersInv
<1>2. QED
  BY <1>1, UsersTyped, UsersInvInit, UsersInvNext, PTL DEF UsersSpec

\* And every matmul in a slot of the context that a user takes for a success
\* and whose submits the driver took used the weight the user loaded there
\* (npu_cna_cache_run_m and its callers).
THEOREM OwnWeightsUsed == ASSUME Disciplined PROVE UsersSpec => []OwnWeights
<1>1. UsersInit => OwnWeights
  BY Runs DEF UsersInit, OwnWeights
<1>2. Disciplined /\ UsersTypeOK /\ UsersInv /\ OwnWeights /\ [UsersNext]_usersVars
      => OwnWeights'
  <2> SUFFICES ASSUME Disciplined, UsersTypeOK, UsersInv, OwnWeights, [UsersNext]_usersVars
               PROVE  OwnWeights'
    OBVIOUS
  <2>1. CASE last' = NoRun \/ last' = last
    BY <2>1, Runs DEF OwnWeights
  <2>2. ASSUME NEW u \in Users, Ready(u), NEW s \in SlotsOf(u), u # "plugin"
        PROVE  InRange(s) /\ wt[s] = <<u, s>>
    <3>1. u \in up /\ s \in has[u]
      BY <2>2, UserSlots DEF Ready, ChecksLoads, Disciplined
    <3>2. QED
      BY <2>2, <3>1 DEF UsersInv, LoadedStays
  <2>3. ASSUME NEW u \in Users, NEW s \in SlotsOf(u), Run(u, s)
        PROVE  OwnWeights'
    <3>1. wt[s] = <<u, s>>
      <4>1. CASE u # "plugin"
        BY <2>2, <2>3, <4>1 DEF Run
      <4>2. CASE u = "plugin"
        <5>1. wt[s] # Nothing /\ "plugin" \in up
          BY <2>3, <4>2 DEF Run, Ready, Refused
        <5>2. QED
          BY <4>2, <5>1 DEF UsersInv, ClientSlots
      <4>3. QED
        BY <4>1, <4>2
    <3>2. CASE last' = Ran("slot", u, s, wt[s])
      BY <3>1, <3>2, Runs DEF OwnWeights
    <3>3. CASE last' = Ran("refused", u, s, Stale)
      BY <3>3, Runs DEF OwnWeights
    <3>4. QED
      BY <2>1, <2>3, <3>2, <3>3 DEF Run
  <2>4. ASSUME NEW u \in Users, NEW s \in SlotsOf(u), RunFails(u, s)
        PROVE  OwnWeights'
    <3>1. CASE u = "vision"
      BY <2>2, <2>4, <3>1 DEF RunFails
    <3>2. CASE u # "vision"
      BY <2>1, <2>4, <3>2 DEF RunFails, ChecksRun
    <3>3. QED
      BY <3>1, <3>2
  <2>5. ASSUME NEW s \in SlotsOf("plugin"), RunFallsBack(s)
        PROVE  OwnWeights'
    BY <2>5, Runs DEF RunFallsBack, OwnWeights
  <2>6. ASSUME NEW k \in Keys, Attention(k)
        PROVE  OwnWeights'
    <3>1. CASE last' = NoRun
      BY <2>1, <3>1
    <3>2. CASE \E x : last' = Ran("attention", "attention", k, x)
      BY <3>2, Runs DEF OwnWeights
    <3>3. QED
      BY <2>6, <3>1, <3>2 DEF Attention
  <2>7. QED
    BY <2>1, <2>3, <2>4, <2>5, <2>6
       DEF UsersNext, Start, VisionInit, LmInit, ClientCreate, ScriptSetup, Load,
           LoadFails, OpSix, Close, Restart, usersVars
<1>3. QED
  BY <1>1, <1>2, UsersTyped, UsersInvInit, UsersInvNext, PTL DEF UsersSpec

HIDE DEF CnaAssumption, UserAssumption
-----------------------------------------------------------------------------
(* The three-core run *)

USE BatchAssumption DEF BatchAssumption

\* A core's list names jobs of that core, each once and none that the core
\* has already taken; whatever is on a list or a core holds the domain.
ListsHold ==
    \A c \in Irqs : \A n \in 1 .. Len(todo[c]) :
        /\ todo[c][n] \in held
        /\ todo[c][n][3] = c
        /\ todo[c][n] # job[c]
        /\ \A m \in 1 .. Len(todo[c]) : todo[c][m] = todo[c][n] => m = n

JobsHold == \A c \in Irqs : job[c] # NoJob => job[c] \in held /\ job[c][3] = c

\* Between the two phases a process has the domain for the jobs up to idx, and
\* none of its jobs is on a list or a core.
GetsInOrder ==
    \A p \in Procs, c \in Cores :
        /\ pc[p] = "get" => (Mine(p, c) \in held <=> c < idx[p])
        /\ pc[p] = "queue" => Mine(p, c) \in held
        /\ pc[p] \in {"get", "queue"} /\ c \in Irqs =>
              /\ job[c] # Mine(p, c)
              /\ \A n \in 1 .. Len(todo[c]) : todo[c][n] # Mine(p, c)

HoldInv == /\ refs = Cardinality(held)
           /\ ListsHold /\ JobsHold /\ GetsInOrder

\* One process, and no poll times out.
Alone == ~MayTimeOut /\ \A p, q \in Procs : p = q

Quiet(c) == job[c] = NoJob /\ hw[c] = NoJob

Working(p, c) == /\ job[c] = Mine(p, c) /\ hw[c] = Mine(p, c)
                 /\ fence[Mine(p, c)] = "waiting"

Answered(p, c) == /\ Quiet(c) /\ fence[Mine(p, c)] = "signalled"
                  /\ product[p][c] = tile[p]

\* The job of the core is recorded but not committed.
Recorded(p, c) == /\ job[c] = Mine(p, c) /\ hw[c] = NoJob
                  /\ run_count[Mine(p, c)] = 1
                  /\ fence[Mine(p, c)] = "waiting"

\* Nothing ever waits on a list: where the cores are, for each step of a tile.
CoresOfStep(p) ==
    /\ pc[p] = "queue" => idx[p] = 0
    /\ pc[p] \notin {"commit", "poll"} => \A c \in Irqs : Quiet(c)
    /\ pc[p] \in {"get", "queue"} =>
          \A c \in Cores : run_count[Mine(p, c)] = 1 /\ fence[Mine(p, c)] = "waiting"
    /\ pc[p] = "commit" =>
          \A c \in Irqs : IF c < idx[p] THEN Working(p, c) \/ Answered(p, c)
                          ELSE Recorded(p, c)
    /\ pc[p] = "poll" =>
          /\ \A c \in Irqs : Working(p, c) \/ Answered(p, c)
          /\ \A c \in Cores : c < idx[p] => fence[Mine(p, c)] = "signalled"
    /\ pc[p] \in {"commit", "poll"} =>
          \A c \in Cores \ Irqs : fence[Mine(p, c)] = "waiting"

\* The inputs of a tile are in place until it is added.
Filled(p) == pc[p] \notin {"idle", "fill"} => in[p] = tile[p]

CoreInv == /\ \A c \in Irqs : todo[c] = << >>
           /\ \A p \in Procs : Filled(p) /\ CoresOfStep(p)

\* What the sums hold so far.
InOrder(p, c) == \A n \in 1 .. Len(z[p][c]) : z[p][c][n] = n

SumInv ==
    \A p \in Procs : ~broken[p] =>
        \A c \in Cores :
            /\ InOrder(p, c)
            /\ pc[p] = "idle" => Len(z[p][c]) \in {0, NTiles}
            /\ pc[p] # "idle" => Len(z[p][c]) = tile[p] - 1
            /\ pc[p] = "add" => product[p][c] = tile[p]
-----------------------------------------------------------------------------
(* Jobs and lists *)

LEMMA JobNames ==
    ASSUME TypeOK, NEW p \in Procs, NEW c \in Cores
    PROVE  /\ Mine(p, c) \in Jobs /\ Mine(p, c) # NoJob
           /\ Mine(p, c)[1] = p /\ Mine(p, c)[3] = c
           /\ \A q \in Procs, d \in Cores : Mine(p, c) = Mine(q, d) => p = q /\ c = d
  BY DEF TypeOK, Mine, Jobs

LEMMA JobsAreFinite == IsFiniteSet(Jobs)
<1>1. IsFiniteSet(1 .. NTiles) /\ IsFiniteSet(Cores)
  <2>1. \A a, b \in Int : IsFiniteSet(a .. b)
    BY FS_Interval
  <2>2. 0 \in Int /\ 1 \in Int /\ 2 \in Int /\ NTiles \in Int
    OBVIOUS
  <2>. QED
    BY <2>1, <2>2 DEF Cores
<1>2. IsFiniteSet((1 .. NTiles) \X Cores)
  BY <1>1, FS_Product
<1>. DEFINE Pairs == Procs \X ((1 .. NTiles) \X Cores)
            Name(x) == <<x[1], x[2][1], x[2][2]>>
<1>3. IsFiniteSet(Pairs)
  BY <1>2, FS_Product
<1>4. \A j \in Jobs : \E x \in Pairs : Name(x) = j
  <2>. SUFFICES ASSUME NEW p \in Procs, NEW t \in 1 .. NTiles, NEW c \in Cores
                PROVE  \E x \in Pairs : Name(x) = <<p, t, c>>
    BY DEF Jobs
  <2>1. <<p, <<t, c>>>> \in Pairs /\ Name(<<p, <<t, c>>>>) = <<p, t, c>>
    OBVIOUS
  <2>. QED
    BY <2>1
<1>. DEFINE f == [x \in Pairs |-> Name(x)]
<1>5. f \in Surjection(Pairs, Jobs)
  <2>1. f \in [Pairs -> Jobs]
    BY DEF Jobs
  <2>. QED
    BY <1>4, <2>1 DEF Surjection
<1>. QED
  BY <1>3, <1>5, FS_Surjection

LEMMA CountOfHeld ==
    ASSUME NEW S \in SUBSET Jobs
    PROVE  /\ IsFiniteSet(S) /\ Cardinality(S) \in 0 .. Cardinality(Jobs)
           /\ \A j \in S : Cardinality(S \ {j}) = Cardinality(S) - 1
           /\ \A j \in Jobs \ S : Cardinality(S \union {j}) = Cardinality(S) + 1
<1>1. IsFiniteSet(S) /\ Cardinality(S) <= Cardinality(Jobs)
  BY JobsAreFinite, FS_Subset
<1>2. Cardinality(S) \in Nat /\ Cardinality(Jobs) \in Nat
  BY <1>1, JobsAreFinite, FS_CardinalityType
<1>. QED
  BY <1>1, <1>2, FS_AddElement, FS_RemoveElement

\* A job goes to the end of a list, and the first of a list may leave it.
LEMMA Lists ==
    ASSUME NEW S, NEW s \in Seq(S), NEW j \in S
    PROVE  /\ Append(s, j) \in Seq(S) /\ Append(s, j) # << >>
           /\ Len(Append(s, j)) = Len(s) + 1
           /\ Append(s, j)[Len(s) + 1] = j
           /\ \A n \in 1 .. Len(s) : Append(s, j)[n] = s[n]
  OBVIOUS

LEMMA Shorter ==
    ASSUME NEW S, NEW s \in Seq(S), s # << >>
    PROVE  /\ Head(s) \in S /\ Head(s) = s[1] /\ Len(s) \in Nat \ {0}
           /\ Tail(s) \in Seq(S) /\ Len(Tail(s)) = Len(s) - 1
           /\ \A n \in 1 .. Len(Tail(s)) : n + 1 \in 1 .. Len(s) /\ Tail(s)[n] = s[n + 1]
  OBVIOUS
-----------------------------------------------------------------------------
(* Types and the count of the domain *)

Labels == {"idle", "fill", "alloc", "get", "queue", "commit", "poll", "add"}

\* The end of a pass of a loop over the cores.
Onwards(p, label) ==
    IF idx[p] = 2 THEN Goto(p, label) /\ idx' = [idx EXCEPT ![p] = 0]
    ELSE idx' = [idx EXCEPT ![p] = @ + 1] /\ UNCHANGED pc

LEMMA LoopStep ==
    ASSUME TypeOK, NEW p \in Procs, NEW label \in Labels, Onwards(p, label)
    PROVE  /\ pc' \in [Procs -> Labels] /\ idx' \in [Procs -> Cores]
           /\ \A q \in Procs \ {p} : pc'[q] = pc[q] /\ idx'[q] = idx[q]
           /\ \/ idx[p] = 2 /\ pc'[p] = label /\ idx'[p] = 0
              \/ idx[p] \in {0, 1} /\ pc'[p] = pc[p] /\ idx'[p] = idx[p] + 1
<1>1. pc \in [Procs -> Labels] /\ idx \in [Procs -> Cores] /\ idx[p] \in {0, 1, 2}
  BY DEF TypeOK, Labels, Cores
<1>2. CASE idx[p] = 2
  <2>1. pc' = [pc EXCEPT ![p] = label] /\ idx' = [idx EXCEPT ![p] = 0]
    BY <1>2 DEF Onwards, Goto
  <2>. QED
    BY <1>1, <1>2, <2>1 DEF Cores
<1>3. CASE idx[p] # 2
  <2>1. pc' = pc /\ idx' = [idx EXCEPT ![p] = idx[p] + 1]
    BY <1>3 DEF Onwards
  <2>. QED
    BY <1>1, <1>3, <2>1 DEF Cores
<1>. QED
  BY <1>2, <1>3

\* A step of one process that leaves lists, cores and domain alone.
OwnStep(p) ==
    /\ UNCHANGED kernelVars
    /\ pc'[p] \notin {"get", "queue"}
    /\ \A q \in Procs \ {p} : pc'[q] = pc[q] /\ tile'[q] = tile[q] /\ idx'[q] = idx[q]

LEMMA OwnStepHolds ==
    ASSUME TypeOK, HoldInv, NEW p \in Procs, OwnStep(p)
    PROVE  HoldInv'
<1>1. (refs = Cardinality(held))' /\ ListsHold' /\ JobsHold'
  BY DEF OwnStep, kernelVars, HoldInv, ListsHold, JobsHold
<1>2. GetsInOrder'
  <2>. SUFFICES ASSUME NEW q \in Procs, NEW c \in Cores, pc'[q] \in {"get", "queue"}
                PROVE  /\ pc'[q] = "get" => (Mine(q, c)' \in held' <=> c < idx'[q])
                       /\ pc'[q] = "queue" => Mine(q, c)' \in held'
                       /\ c \in Irqs =>
                            /\ job'[c] # Mine(q, c)'
                            /\ \A n \in 1 .. Len(todo'[c]) : todo'[c][n] # Mine(q, c)'
    BY DEF GetsInOrder
  <2>1. q # p
    BY DEF OwnStep
  <2>2. /\ pc'[q] = pc[q] /\ idx'[q] = idx[q] /\ Mine(q, c)' = Mine(q, c)
        /\ held' = held /\ job' = job /\ todo' = todo
    BY <2>1 DEF OwnStep, kernelVars, Mine
  <2>. QED
    BY <2>2 DEF HoldInv, GetsInOrder
<1>. QED
  BY <1>1, <1>2 DEF HoldInv

LEMMA InitHolds == Init => TypeOK /\ HoldInv
<1>. SUFFICES ASSUME Init PROVE TypeOK /\ HoldInv
  OBVIOUS
<1>1. Cardinality({}) = 0 /\ 0 \in 0 .. Cardinality(Jobs)
  BY FS_EmptySet, JobsAreFinite, FS_CardinalityType
<1>2. TypeOK
  BY <1>1 DEF Init, TypeOK, Cores
<1>3. HoldInv
  BY <1>1 DEF Init, HoldInv, ListsHold, JobsHold, GetsInOrder
<1>. QED
  BY <1>2, <1>3

LEMMA StartRunHolds ==
    ASSUME TypeOK, HoldInv, NEW p \in Procs, StartRun(p)
    PROVE  TypeOK' /\ HoldInv'
<1>1. TypeOK'
  BY DEF StartRun, Goto, TypeOK, kernelVars
<1>2. OwnStep(p)
  BY DEF StartRun, Goto, TypeOK, OwnStep
<1>. QED
  BY <1>1, <1>2, OwnStepHolds

LEMMA FillHolds ==
    ASSUME TypeOK, HoldInv, NEW p \in Procs, Fill(p)
    PROVE  TypeOK' /\ HoldInv'
<1>1. TypeOK'
  BY DEF Fill, Goto, TypeOK, kernelVars
<1>2. OwnStep(p)
  BY DEF Fill, Goto, TypeOK, OwnStep
<1>. QED
  BY <1>1, <1>2, OwnStepHolds

LEMMA AllocFailsHolds ==
    ASSUME TypeOK, HoldInv, NEW p \in Procs, AllocFails(p)
    PROVE  TypeOK' /\ HoldInv'
<1>1. TypeOK'
  BY DEF AllocFails, Goto, TypeOK, kernelVars
<1>2. OwnStep(p)
  BY DEF AllocFails, Goto, TypeOK, OwnStep
<1>. QED
  BY <1>1, <1>2, OwnStepHolds

LEMMA PollHolds ==
    ASSUME TypeOK, HoldInv, NEW p \in Procs, Poll(p)
    PROVE  TypeOK' /\ HoldInv'
<1>1. TypeOK'
  <2>1. broken' \in [Procs -> BOOLEAN]
    <3>1. \A b \in BOOLEAN : [broken EXCEPT ![p] = b] \in [Procs -> BOOLEAN]
      BY DEF TypeOK
    <3>2. (broken[p] \/ ~(fence[Mine(p, idx[p])] = "signalled")) \in BOOLEAN
      OBVIOUS
    <3>. QED
      BY <3>1, <3>2, Zenon DEF Poll
  <2>2. UNCHANGED <<tile, in, product, z, kernelVars>>
    BY DEF Poll
  <2>3. pc' \in [Procs -> Labels] /\ idx' \in [Procs -> Cores]
    BY LoopStep DEF Poll, Onwards, Labels
  <2>. QED
    BY <2>1, <2>2, <2>3 DEF TypeOK, kernelVars, Labels
<1>2. OwnStep(p)
  BY DEF Poll, Goto, TypeOK, OwnStep
<1>. QED
  BY <1>1, <1>2, OwnStepHolds

LEMMA AddHolds ==
    ASSUME TypeOK, HoldInv, NEW p \in Procs, Add(p)
    PROVE  TypeOK' /\ HoldInv'
<1>1. TypeOK'
  <2>1. z' \in [Procs -> [Cores -> Seq(0 .. NTiles)]]
    <3>1. \A c \in Cores : Append(z[p][c], product[p][c]) \in Seq(0 .. NTiles)
      BY DEF TypeOK
    <3>2. [c \in Cores |-> Append(z[p][c], product[p][c])] \in [Cores -> Seq(0 .. NTiles)]
      BY <3>1
    <3>3. z' = [z EXCEPT ![p] = [c \in Cores |-> Append(z[p][c], product[p][c])]]
      BY DEF Add
    <3>. QED
      BY <3>2, <3>3, Zenon DEF TypeOK
  <2>2. tile' \in [Procs -> 1 .. NTiles]
    <3>1. CASE tile[p] = NTiles
      BY <3>1 DEF Add, TypeOK
    <3>2. CASE tile[p] # NTiles
      <4>1. tile[p] + 1 \in 1 .. NTiles
        BY <3>2 DEF TypeOK
      <4>2. tile' = [tile EXCEPT ![p] = tile[p] + 1]
        BY <3>2 DEF Add
      <4>. QED
        BY <4>1, <4>2 DEF TypeOK
    <3>. QED
      BY <3>1, <3>2
  <2>. QED
    BY <2>1, <2>2 DEF Add, Goto, TypeOK, kernelVars
<1>2. OwnStep(p)
  BY DEF Add, Goto, TypeOK, OwnStep
<1>. QED
  BY <1>1, <1>2, OwnStepHolds

LEMMA AllocHolds ==
    ASSUME TypeOK, HoldInv, NEW p \in Procs, Alloc(p)
    PROVE  TypeOK' /\ HoldInv'
<1>1. TypeOK'
  <2>1. run_count' \in [Jobs -> Int] /\ fence' \in [Jobs -> {"none", "waiting", "signalled"}]
    BY DEF Alloc, TypeOK
  <2>2. idx' \in [Procs -> Cores]
    BY DEF Alloc, TypeOK, Cores
  <2>. QED
    BY <2>1, <2>2 DEF Alloc, Goto, TypeOK, userVars
<1>2. /\ UNCHANGED <<tile, todo, job, refs, held>>
      /\ pc'[p] = "get" /\ idx'[p] = 0
      /\ \A c \in Cores : Mine(p, c) \notin held
      /\ \A q \in Procs \ {p} : pc'[q] = pc[q] /\ idx'[q] = idx[q]
      /\ \A q \in Procs, c \in Cores : Mine(q, c)' = Mine(q, c)
  BY DEF Alloc, Goto, TypeOK, Mine
<1>3. (refs = Cardinality(held))' /\ ListsHold' /\ JobsHold'
  BY <1>2 DEF HoldInv, ListsHold, JobsHold
<1>4. GetsInOrder'
  <2>. SUFFICES ASSUME NEW q \in Procs, NEW c \in Cores
                PROVE  /\ pc'[q] = "get" => (Mine(q, c) \in held <=> c < idx'[q])
                       /\ pc'[q] = "queue" => Mine(q, c) \in held
                       /\ pc'[q] \in {"get", "queue"} /\ c \in Irqs =>
                            /\ job[c] # Mine(q, c)
                            /\ \A n \in 1 .. Len(todo[c]) : todo[c][n] # Mine(q, c)
    BY <1>2 DEF GetsInOrder
  <2>1. CASE q # p
    BY <1>2, <2>1 DEF HoldInv, GetsInOrder
  <2>2. CASE q = p
    <3>1. Mine(p, c) # NoJob
      BY JobNames
    <3>. QED
      BY <1>2, <2>2, <3>1 DEF HoldInv, ListsHold, JobsHold, Cores
  <2>. QED
    BY <2>1, <2>2
<1>. QED
  BY <1>1, <1>3, <1>4 DEF HoldInv

LEMMA GetDomainHolds ==
    ASSUME TypeOK, HoldInv, NEW p \in Procs, GetDomain(p)
    PROVE  TypeOK' /\ HoldInv'
<1>. DEFINE j == Mine(p, idx[p])
<1>1. /\ idx[p] \in Cores /\ j \in Jobs /\ j \notin held /\ pc[p] = "get"
  <2>1. idx[p] \in Cores /\ pc[p] = "get"
    BY DEF GetDomain, TypeOK
  <2>2. ~(idx[p] < idx[p])
    BY <2>1 DEF Cores
  <2>. QED
    BY <2>1, <2>2, JobNames DEF HoldInv, GetsInOrder
<1>2. /\ UNCHANGED <<tile, todo, job>> /\ held' = held \union {j} /\ refs' = refs + 1
      /\ \A q \in Procs \ {p} : pc'[q] = pc[q] /\ idx'[q] = idx[q]
      /\ \A q \in Procs, c \in Cores : Mine(q, c)' = Mine(q, c)
      /\ \/ pc'[p] = "queue" /\ idx[p] = 2
         \/ pc'[p] = "get" /\ idx'[p] = idx[p] + 1 /\ idx[p] # 2
  BY LoopStep DEF GetDomain, Onwards, Labels, TypeOK, Mine
<1>3. held' \subseteq Jobs /\ refs' = Cardinality(held')
  BY <1>1, <1>2, CountOfHeld DEF HoldInv, TypeOK
<1>4. TypeOK'
  <2>1. refs' \in 0 .. Cardinality(Jobs)
    BY <1>3, CountOfHeld
  <2>2. pc' \in [Procs -> Labels] /\ idx' \in [Procs -> Cores]
    BY LoopStep DEF GetDomain, Onwards, Labels
  <2>. QED
    BY <1>3, <2>1, <2>2 DEF GetDomain, TypeOK, userVars, Labels
<1>5. ListsHold' /\ JobsHold'
  BY <1>2 DEF HoldInv, ListsHold, JobsHold
<1>6. GetsInOrder'
  <2>. SUFFICES ASSUME NEW q \in Procs, NEW c \in Cores
                PROVE  /\ pc'[q] = "get" => (Mine(q, c) \in held' <=> c < idx'[q])
                       /\ pc'[q] = "queue" => Mine(q, c) \in held'
                       /\ pc'[q] \in {"get", "queue"} /\ c \in Irqs =>
                            /\ job[c] # Mine(q, c)
                            /\ \A n \in 1 .. Len(todo[c]) : todo[c][n] # Mine(q, c)
    BY <1>2 DEF GetsInOrder
  <2>1. CASE q # p
    <3>1. Mine(q, c) # j
      BY <1>1, <2>1, JobNames
    <3>. QED
      BY <1>2, <2>1, <3>1 DEF HoldInv, GetsInOrder
  <2>2. CASE q = p
    <3>1. Mine(p, c) = j <=> c = idx[p]
      BY <1>1, JobNames
    <3>2. Mine(p, c) \in held' <=> c <= idx[p]
      BY <1>1, <1>2, <3>1 DEF HoldInv, GetsInOrder, Cores
    <3>3. /\ pc'[p] = "get" => (Mine(p, c) \in held' <=> c < idx'[p])
          /\ pc'[p] = "queue" => Mine(p, c) \in held'
      BY <1>1, <1>2, <3>2 DEF Cores
    <3>. QED
      BY <1>1, <2>2, <3>3 DEF HoldInv, GetsInOrder
  <2>. QED
    BY <2>1, <2>2
<1>. QED
  BY <1>3, <1>4, <1>5, <1>6 DEF HoldInv

LEMMA CommitHolds ==
    ASSUME TypeOK, HoldInv, NEW p \in Procs, Commit(p)
    PROVE  TypeOK' /\ HoldInv'
<1>1. idx[p] \in Cores /\ Mine(p, idx[p]) \in Jobs
  BY JobNames DEF TypeOK
<1>2. TypeOK'
  <2>1. run_count' \in [Jobs -> Int]
    <3>1. [run_count EXCEPT ![Mine(p, idx[p])] = @ - 1] \in [Jobs -> Int]
      BY <1>1 DEF TypeOK
    <3>. QED
      BY <3>1 DEF Commit, TypeOK
  <2>3. hw' \in [Irqs -> Jobs \union {NoJob}]
    <3>1. [hw EXCEPT ![idx[p]] = Mine(p, idx[p])] \in [Irqs -> Jobs \union {NoJob}]
      BY <1>1 DEF TypeOK
    <3>. QED
      BY <3>1 DEF Commit, TypeOK
  <2>2. pc' \in [Procs -> Labels] /\ idx' \in [Procs -> Cores]
    BY LoopStep DEF Commit, Onwards, Labels
  <2>. QED
    BY <2>1, <2>2, <2>3 DEF Commit, TypeOK, userVars, Labels
<1>3. /\ UNCHANGED <<tile, todo, job, refs, held>>
      /\ pc'[p] \in {"commit", "poll"}
      /\ \A q \in Procs \ {p} : pc'[q] = pc[q] /\ idx'[q] = idx[q]
      /\ \A q \in Procs, c \in Cores : Mine(q, c)' = Mine(q, c)
  BY LoopStep DEF Commit, Onwards, Labels, TypeOK, Mine
<1>4. (refs = Cardinality(held))' /\ ListsHold' /\ JobsHold'
  BY <1>3 DEF HoldInv, ListsHold, JobsHold
<1>5. GetsInOrder'
  BY <1>3 DEF HoldInv, GetsInOrder
<1>. QED
  BY <1>2, <1>4, <1>5 DEF HoldInv

LEMMA QueueHolds ==
    ASSUME TypeOK, HoldInv, NEW p \in Procs, Queue(p)
    PROVE  TypeOK' /\ HoldInv'
<1>1. /\ UNCHANGED <<tile, held, refs>> /\ pc[p] = "queue" /\ pc'[p] = "commit"
      /\ \A q \in Procs \ {p} : pc'[q] = pc[q] /\ idx'[q] = idx[q]
      /\ \A q \in Procs, c \in Cores : Mine(q, c)' = Mine(q, c)
  BY DEF Queue, Goto, TypeOK, Mine
<1>. DEFINE Queued(c) == Append(todo[c], Mine(p, c))
<1>2. \A c \in Irqs :
         \/ job[c] # NoJob /\ todo'[c] = Queued(c) /\ job'[c] = job[c]
         \/ job[c] = NoJob /\ todo'[c] = Tail(Queued(c)) /\ job'[c] = Head(Queued(c))
  BY DEF Queue
<1>3. ASSUME NEW c \in Irqs
      PROVE  /\ Queued(c) \in Seq(Jobs) /\ Queued(c) # << >>
             /\ \A n \in 1 .. Len(Queued(c)) :
                  /\ Queued(c)[n] \in held /\ Queued(c)[n][3] = c /\ Queued(c)[n] # job[c]
                  /\ \A m \in 1 .. Len(Queued(c)) : Queued(c)[m] = Queued(c)[n] => m = n
                  /\ \A q \in Procs \ {p} : pc[q] \in {"get", "queue"} =>
                       Queued(c)[n] # Mine(q, c)
  <2>1. /\ c \in Cores /\ Mine(p, c) \in Jobs /\ Mine(p, c)[3] = c
        /\ todo[c] \in Seq(Jobs) /\ Len(todo[c]) \in Nat
    BY JobNames DEF TypeOK
  <2>2. /\ Queued(c) \in Seq(Jobs) /\ Queued(c) # << >>
        /\ Len(Queued(c)) = Len(todo[c]) + 1
        /\ Queued(c)[Len(todo[c]) + 1] = Mine(p, c)
        /\ \A n \in 1 .. Len(todo[c]) : Queued(c)[n] = todo[c][n]
    BY <2>1, Lists
  <2>3. /\ Mine(p, c) \in held /\ Mine(p, c) # job[c]
        /\ \A n \in 1 .. Len(todo[c]) : todo[c][n] # Mine(p, c)
    BY <1>1, <2>1 DEF HoldInv, GetsInOrder
  <2>4. \A q \in Procs \ {p} : Mine(p, c) # Mine(q, c)
    BY <2>1, JobNames
  <2>. HIDE DEF Queued
  <2>5. ASSUME NEW n \in 1 .. Len(Queued(c))
        PROVE  \/ n \in 1 .. Len(todo[c]) /\ Queued(c)[n] = todo[c][n]
               \/ n = Len(todo[c]) + 1 /\ Queued(c)[n] = Mine(p, c)
    BY <2>1, <2>2
  <2>6. ASSUME NEW n \in 1 .. Len(Queued(c))
        PROVE  /\ Queued(c)[n] \in held /\ Queued(c)[n][3] = c /\ Queued(c)[n] # job[c]
               /\ \A q \in Procs \ {p} : pc[q] \in {"get", "queue"} =>
                       Queued(c)[n] # Mine(q, c)
    BY <2>1, <2>3, <2>4, <2>5 DEF HoldInv, ListsHold, GetsInOrder
  <2>7. ASSUME NEW n \in 1 .. Len(Queued(c)), NEW m \in 1 .. Len(Queued(c)),
               Queued(c)[m] = Queued(c)[n]
        PROVE  m = n
    BY <2>3, <2>5, <2>7 DEF HoldInv, ListsHold
  <2>. QED
    BY <2>2, <2>6, <2>7
<1>4. ASSUME NEW c \in Irqs
      PROVE  /\ todo'[c] \in Seq(Jobs) /\ job'[c] \in Jobs \union {NoJob}
             /\ \A n \in 1 .. Len(todo'[c]) :
                  /\ todo'[c][n] \in held /\ todo'[c][n][3] = c
                  /\ todo'[c][n] # job'[c]
                  /\ \A m \in 1 .. Len(todo'[c]) : todo'[c][m] = todo'[c][n] => m = n
                  /\ \A q \in Procs \ {p} : pc[q] \in {"get", "queue"} =>
                       todo'[c][n] # Mine(q, c)
             /\ job'[c] # NoJob => job'[c] \in held /\ job'[c][3] = c
             /\ \A q \in Procs \ {p} : pc[q] \in {"get", "queue"} =>
                    job'[c] # Mine(q, c)
  <2>. HIDE DEF Queued
  <2>1. CASE job[c] # NoJob
    <3>1. todo'[c] = Queued(c) /\ job'[c] = job[c] /\ c \in Cores
      BY <1>2, <2>1
    <3>2. job[c] \in held /\ job[c][3] = c /\ job[c] \in Jobs
      BY <2>1 DEF HoldInv, JobsHold, TypeOK
    <3>3. \A q \in Procs \ {p} : pc[q] \in {"get", "queue"} => job[c] # Mine(q, c)
      BY <3>1 DEF HoldInv, GetsInOrder
    <3>. QED
      BY <1>3, <3>1, <3>2, <3>3
  <2>2. CASE job[c] = NoJob
    <3>. DEFINE s == Queued(c)
    <3>1. todo'[c] = Tail(s) /\ job'[c] = Head(s)
      BY <1>2, <2>2
    <3>2. s \in Seq(Jobs) /\ s # << >>
      BY <1>3
    <3>3. /\ Head(s) \in Jobs /\ Head(s) = s[1] /\ Len(s) \in Nat \ {0}
          /\ Tail(s) \in Seq(Jobs) /\ Len(Tail(s)) = Len(s) - 1
          /\ \A n \in 1 .. Len(Tail(s)) : n + 1 \in 1 .. Len(s) /\ Tail(s)[n] = s[n + 1]
      BY <3>2, Shorter
    <3>4. /\ 1 \in 1 .. Len(s)
          /\ \A n \in 1 .. Len(Tail(s)) : n + 1 # 1
          /\ \A n, m \in 1 .. Len(Tail(s)) : n + 1 = m + 1 => n = m
      BY <3>3
    <3>. HIDE DEF s
    <3>5. /\ \A n \in 1 .. Len(s) :
                /\ s[n] \in held /\ s[n][3] = c
                /\ \A m \in 1 .. Len(s) : s[m] = s[n] => m = n
                /\ \A q \in Procs \ {p} : pc[q] \in {"get", "queue"} => s[n] # Mine(q, c)
      BY <1>3 DEF s
    <3>. QED
      BY <3>1, <3>3, <3>4, <3>5
  <2>. QED
    BY <2>1, <2>2
<1>5. TypeOK'
  <2>1. todo' \in [Irqs -> Seq(Jobs)] /\ job' \in [Irqs -> Jobs \union {NoJob}]
    <3>1. todo' = [c \in Irqs |-> todo'[c]] /\ job' = [c \in Irqs |-> job'[c]]
      BY DEF Queue
    <3>. QED
      BY <1>4, <3>1
  <2>. QED
    BY <2>1 DEF Queue, Goto, TypeOK, userVars
<1>6. ListsHold' /\ JobsHold'
  BY <1>1, <1>4 DEF ListsHold, JobsHold
<1>7. GetsInOrder'
  <2>. SUFFICES ASSUME NEW q \in Procs, NEW c \in Cores, pc'[q] \in {"get", "queue"}
                PROVE  /\ pc'[q] = "get" => (Mine(q, c) \in held <=> c < idx'[q])
                       /\ pc'[q] = "queue" => Mine(q, c) \in held
                       /\ c \in Irqs =>
                            /\ job'[c] # Mine(q, c)
                            /\ \A n \in 1 .. Len(todo'[c]) : todo'[c][n] # Mine(q, c)
    BY <1>1 DEF GetsInOrder
  <2>1. q \in Procs \ {p} /\ pc'[q] = pc[q] /\ idx'[q] = idx[q]
    BY <1>1
  <2>. QED
    BY <1>4, <2>1 DEF HoldInv, GetsInOrder
<1>. QED
  BY <1>1, <1>5, <1>6, <1>7 DEF HoldInv

LEMMA DoneHolds ==
    ASSUME TypeOK, HoldInv, NEW c \in Irqs, Done(c)
    PROVE  TypeOK' /\ HoldInv'
<1>1. /\ UNCHANGED <<pc, tile, idx, in, z, broken, todo, run_count>>
      /\ pending' = pending \union {c} /\ hw' = [hw EXCEPT ![c] = NoJob]
      /\ \A q \in Procs, d \in Cores : Mine(q, d)' = Mine(q, d)
  BY DEF Done, Mine
<1>2. product' \in [Procs -> [Cores -> 0 .. NTiles]]
  <2>. DEFINE q == hw[c][1]
  <2>1. hw[c] \in Jobs
    BY DEF Done, TypeOK
  <2>2. q \in Procs /\ c \in Cores
    BY <2>1 DEF Jobs
  <2>3. in[q] \in 0 .. NTiles /\ product[q] \in [Cores -> 0 .. NTiles]
    BY <2>2 DEF TypeOK
  <2>. HIDE DEF q
  <2>4. [product[q] EXCEPT ![c] = in[q]] \in [Cores -> 0 .. NTiles]
    BY <2>2, <2>3
  <2>5. product' = [product EXCEPT ![q] = [product[q] EXCEPT ![c] = in[q]]]
    BY DEF Done, q
  <2>. QED
    BY <2>2, <2>4, <2>5, Zenon DEF TypeOK
<1>3. hw' \in [Irqs -> Jobs \union {NoJob}] /\ pending' \subseteq Irqs
  BY <1>1 DEF TypeOK
<1>4. CASE job[c] = NoJob
  <2>1. UNCHANGED <<job, fence, refs, held>>
    BY <1>4 DEF Done
  <2>2. TypeOK'
    BY <1>1, <1>2, <1>3, <2>1 DEF TypeOK
  <2>. QED
    BY <1>1, <2>1, <2>2 DEF HoldInv, ListsHold, JobsHold, GetsInOrder
<1>5. CASE job[c] # NoJob
  <2>1. /\ job' = [job EXCEPT ![c] = NoJob] /\ fence' = [fence EXCEPT ![job[c]] = "signalled"]
        /\ refs' = refs - 1 /\ held' = held \ {job[c]}
    BY <1>5 DEF Done
  <2>2. job[c] \in Jobs /\ job[c] \in held /\ job[c][3] = c /\ held \subseteq Jobs
    BY <1>5 DEF HoldInv, JobsHold, TypeOK
  <2>3. held' \subseteq Jobs /\ refs' = Cardinality(held')
    BY <2>1, <2>2, CountOfHeld DEF HoldInv
  <2>4. TypeOK'
    <3>1. refs' \in 0 .. Cardinality(Jobs)
      BY <2>3, CountOfHeld
    <3>2. fence' \in [Jobs -> {"none", "waiting", "signalled"}]
      BY <2>1, <2>2 DEF TypeOK
    <3>3. job' \in [Irqs -> Jobs \union {NoJob}]
      BY <2>1 DEF TypeOK
    <3>. QED
      BY <1>1, <1>2, <1>3, <2>3, <3>1, <3>2, <3>3 DEF TypeOK
  <2>5. job'[c] = NoJob /\ \A d \in Irqs \ {c} : job'[d] = job[d]
    BY <2>1 DEF TypeOK
  <2>6. ListsHold'
    <3>. SUFFICES ASSUME NEW d \in Irqs, NEW n \in 1 .. Len(todo[d])
                  PROVE  /\ todo[d][n] \in held'
                         /\ todo[d][n][3] = d
                         /\ todo[d][n] # job'[d]
                         /\ \A m \in 1 .. Len(todo[d]) : todo[d][m] = todo[d][n] => m = n
      BY <1>1 DEF ListsHold
    <3>1. /\ todo[d][n] \in held /\ todo[d][n][3] = d /\ todo[d][n] # job[d]
          /\ \A m \in 1 .. Len(todo[d]) : todo[d][m] = todo[d][n] => m = n
      BY DEF HoldInv, ListsHold
    <3>2. todo[d][n] # job[c] /\ todo[d][n] # NoJob
      BY <2>2, <3>1
    <3>. QED
      BY <2>1, <2>5, <3>1, <3>2
  <2>7. JobsHold'
    <3>. SUFFICES ASSUME NEW d \in Irqs, job'[d] # NoJob
                  PROVE  job'[d] \in held' /\ job'[d][3] = d
      BY DEF JobsHold
    <3>1. d # c /\ job'[d] = job[d]
      BY <2>5
    <3>2. job[d] \in held /\ job[d][3] = d
      BY <3>1 DEF HoldInv, JobsHold
    <3>. QED
      BY <2>1, <2>2, <3>1, <3>2
  <2>8. GetsInOrder'
    <3>. SUFFICES ASSUME NEW q \in Procs, NEW d \in Cores, pc[q] \in {"get", "queue"}
                  PROVE  /\ pc[q] = "get" => (Mine(q, d) \in held' <=> d < idx[q])
                         /\ pc[q] = "queue" => Mine(q, d) \in held'
                         /\ d \in Irqs =>
                              /\ job'[d] # Mine(q, d)
                              /\ \A n \in 1 .. Len(todo[d]) : todo[d][n] # Mine(q, d)
      BY <1>1 DEF GetsInOrder
    <3>1. Mine(q, d) # NoJob /\ Mine(q, d)[3] = d
      BY JobNames
    <3>2. Mine(q, d) # job[c]
      BY <2>2, <3>1 DEF HoldInv, GetsInOrder
    <3>. QED
      BY <2>1, <2>5, <3>1, <3>2 DEF HoldInv, GetsInOrder
  <2>. QED
    BY <2>3, <2>4, <2>6, <2>7, <2>8 DEF HoldInv
<1>. QED
  BY <1>4, <1>5

LEMMA NextJobHolds ==
    ASSUME TypeOK, HoldInv, NEW c \in Irqs, NextJob(c)
    PROVE  TypeOK' /\ HoldInv'
<1>1. /\ UNCHANGED <<pc, tile, idx, userVars, fence, refs, held>>
      /\ pending' = pending \ {c}
      /\ \A q \in Procs, d \in Cores : Mine(q, d)' = Mine(q, d)
  BY DEF NextJob, Mine
<1>2. CASE job[c] # NoJob \/ todo[c] = << >>
  <2>1. UNCHANGED <<todo, job, hw, run_count>>
    BY <1>2 DEF NextJob
  <2>2. TypeOK'
    BY <1>1, <2>1 DEF TypeOK, userVars
  <2>. QED
    BY <1>1, <2>1, <2>2 DEF HoldInv, ListsHold, JobsHold, GetsInOrder
<1>3. CASE ~(job[c] # NoJob \/ todo[c] = << >>)
  <2>. DEFINE s == todo[c]
              j == Head(s)
              rest == Tail(s)
  <2>1. /\ s \in Seq(Jobs) /\ s # << >>
        /\ todo' = [todo EXCEPT ![c] = rest] /\ job' = [job EXCEPT ![c] = j]
        /\ run_count' = [run_count EXCEPT ![j] = run_count[j] - 1]
        /\ hw' = [hw EXCEPT ![c] = j] \/ hw' = hw
    BY <1>3 DEF NextJob, TypeOK
  <2>2. /\ j \in Jobs /\ j = s[1] /\ Len(s) \in Nat \ {0}
        /\ rest \in Seq(Jobs) /\ Len(rest) = Len(s) - 1
        /\ \A n \in 1 .. Len(rest) : n + 1 \in 1 .. Len(s) /\ rest[n] = s[n + 1]
    BY <2>1, Shorter
  <2>3. /\ 1 \in 1 .. Len(s)
        /\ \A n \in 1 .. Len(rest) : n + 1 # 1
        /\ \A n, m \in 1 .. Len(rest) : n + 1 = m + 1 => n = m
    BY <2>2
  <2>4. /\ todo'[c] = rest /\ job'[c] = j
        /\ \A d \in Irqs \ {c} : todo'[d] = todo[d] /\ job'[d] = job[d]
    BY <2>1 DEF TypeOK
  <2>5. TypeOK'
    <3>. HIDE DEF s, j, rest
    <3>1. todo' \in [Irqs -> Seq(Jobs)]
      BY <2>1, <2>2, Zenon DEF TypeOK
    <3>2. job' \in [Irqs -> Jobs \union {NoJob}] /\ hw' \in [Irqs -> Jobs \union {NoJob}]
      BY <2>1, <2>2 DEF TypeOK
    <3>3. run_count' \in [Jobs -> Int]
      BY <2>1, <2>2 DEF TypeOK
    <3>. QED
      BY <1>1, <3>1, <3>2, <3>3 DEF TypeOK, userVars
  <2>6. /\ \A n \in 1 .. Len(s) :
              /\ s[n] \in held /\ s[n][3] = c
              /\ \A m \in 1 .. Len(s) : s[m] = s[n] => m = n
        /\ \A q \in Procs : pc[q] \in {"get", "queue"} =>
              \A n \in 1 .. Len(s) : s[n] # Mine(q, c)
    BY DEF HoldInv, ListsHold, GetsInOrder
  <2>. HIDE DEF s, j, rest
  <2>7. ASSUME NEW n \in 1 .. Len(rest)
        PROVE  /\ rest[n] \in held /\ rest[n][3] = c /\ rest[n] # j
               /\ \A m \in 1 .. Len(rest) : rest[m] = rest[n] => m = n
               /\ \A q \in Procs : pc[q] \in {"get", "queue"} => rest[n] # Mine(q, c)
    <3>1. n + 1 \in 1 .. Len(s) /\ rest[n] = s[n + 1] /\ n + 1 # 1 /\ 1 \in 1 .. Len(s)
      BY <2>2, <2>3
    <3>2. ASSUME NEW m \in 1 .. Len(rest), rest[m] = rest[n]
          PROVE  m = n
      <4>1. m + 1 \in 1 .. Len(s) /\ rest[m] = s[m + 1]
        BY <2>2
      <4>2. m + 1 = n + 1
        BY <2>6, <3>1, <3>2, <4>1
      <4>. QED
        BY <4>2
    <3>. QED
      BY <2>2, <2>6, <3>1, <3>2
  <2>8. /\ j \in held /\ j[3] = c
        /\ \A q \in Procs : pc[q] \in {"get", "queue"} => j # Mine(q, c)
    BY <2>2, <2>3, <2>6
  <2>9. ASSUME NEW d \in Irqs \ {c}
        PROVE  todo'[d] = todo[d] /\ job'[d] = job[d] /\ d \in Cores
    BY <2>4
  <2>10. ListsHold' /\ JobsHold'
    <3>1. ASSUME NEW d \in Irqs, NEW n \in 1 .. Len(todo'[d])
          PROVE  /\ todo'[d][n] \in held /\ todo'[d][n][3] = d
                 /\ todo'[d][n] # job'[d]
                 /\ \A m \in 1 .. Len(todo'[d]) : todo'[d][m] = todo'[d][n] => m = n
      <4>1. CASE d = c
        BY <2>4, <2>7, <4>1
      <4>2. CASE d # c
        BY <2>9, <4>2 DEF HoldInv, ListsHold
      <4>. QED
        BY <4>1, <4>2
    <3>2. ASSUME NEW d \in Irqs, job'[d] # NoJob
          PROVE  job'[d] \in held /\ job'[d][3] = d
      BY <2>4, <2>8, <2>9, <3>2 DEF HoldInv, JobsHold
    <3>. QED
      BY <1>1, <3>1, <3>2 DEF ListsHold, JobsHold
  <2>11. GetsInOrder'
    <3>1. ASSUME NEW q \in Procs, NEW d \in Irqs, pc[q] \in {"get", "queue"}
          PROVE  /\ job'[d] # Mine(q, d)
                 /\ \A n \in 1 .. Len(todo'[d]) : todo'[d][n] # Mine(q, d)
      <4>1. CASE d = c
        BY <2>4, <2>7, <2>8, <3>1, <4>1
      <4>2. CASE d # c
        BY <2>9, <3>1, <4>2 DEF HoldInv, GetsInOrder
      <4>. QED
        BY <4>1, <4>2
    <3>. QED
      BY <1>1, <3>1 DEF HoldInv, GetsInOrder
  <2>. QED
    BY <1>1, <2>5, <2>10, <2>11 DEF HoldInv
<1>. QED
  BY <1>2, <1>3

LEMMA HoldStep == TypeOK /\ HoldInv /\ [Next]_vars => TypeOK' /\ HoldInv'
<1>. SUFFICES ASSUME TypeOK, HoldInv, [Next]_vars
              PROVE  TypeOK' /\ HoldInv'
  OBVIOUS
<1>1. ASSUME NEW p \in Procs, StartRun(p) \/ InRun(p)
      PROVE  TypeOK' /\ HoldInv'
  BY <1>1, StartRunHolds, FillHolds, AllocHolds, AllocFailsHolds, GetDomainHolds,
     QueueHolds, CommitHolds, PollHolds, AddHolds DEF InRun
<1>2. ASSUME NEW c \in Irqs, Done(c) \/ NextJob(c)
      PROVE  TypeOK' /\ HoldInv'
  BY <1>2, DoneHolds, NextJobHolds
<1>3. CASE UNCHANGED vars
  <2>1. TypeOK'
    BY <1>3 DEF vars, userVars, kernelVars, TypeOK
  <2>2. HoldInv'
    BY <1>3 DEF vars, userVars, kernelVars, HoldInv, ListsHold, JobsHold, GetsInOrder, Mine
  <2>. QED
    BY <2>1, <2>2
<1>. QED
  BY <1>1, <1>2, <1>3 DEF Next

LEMMA HoldCorrect == Spec => [](TypeOK /\ HoldInv)
<1>1. Init => TypeOK /\ HoldInv
  BY InitHolds
<1>. QED
  BY <1>1, HoldStep, PTL DEF Spec

\* Every variable keeps its type, for any number of processes and tiles:
\* the domain's count never goes below zero, although Done and the phases of
\* the ioctl change it in any order.
THEOREM BatchTyped == Spec => []TypeOK
  BY HoldCorrect, PTL

\* The reference count of the IOMMU domain is the number of jobs that hold it,
\* and a job on a list or on a core is one of them, whatever the order of the
\* ioctls and the interrupts (rknpu_iommu_domain_get_and_switch and _put).
THEOREM DomainCounted == Spec => [](refs = Cardinality(held) /\ ListsHold /\ JobsHold)
<1>1. HoldInv => refs = Cardinality(held) /\ ListsHold /\ JobsHold
  BY DEF HoldInv
<1>. QED
  BY <1>1, HoldCorrect, PTL
-----------------------------------------------------------------------------
(* The cores, with one process *)

LEMMA InitCores == Init => CoreInv
  BY DEF Init, CoreInv, Filled, CoresOfStep, Quiet

LEMMA CoresFollow ==
    ASSUME Alone, TypeOK, CoreInv, NEW p \in Procs,
           StartRun(p) \/ Fill(p) \/ AllocFails(p) \/ Add(p)
    PROVE  CoreInv'
<1>1. /\ UNCHANGED <<todo, job, hw>> /\ pc'[p] \in {"idle", "fill", "alloc", "add"}
      /\ pc[p] \notin {"commit", "poll"}
      /\ \A q \in Procs : q = p
  BY DEF StartRun, Fill, AllocFails, Add, Goto, TypeOK, kernelVars, Alone
<1>2. CoresOfStep(p)'
  BY <1>1 DEF CoreInv, CoresOfStep, Quiet
<1>3. Filled(p)'
  BY DEF StartRun, Fill, AllocFails, Add, Goto, TypeOK, CoreInv, Filled
<1>. QED
  BY <1>1, <1>2, <1>3, Zenon DEF CoreInv

LEMMA AllocCores ==
    ASSUME Alone, TypeOK, CoreInv, NEW p \in Procs, Alloc(p)
    PROVE  CoreInv'
<1>1. /\ UNCHANGED <<todo, job, hw, in, tile>> /\ pc'[p] = "get" /\ pc[p] = "alloc"
      /\ \A q \in Procs : q = p
  BY DEF Alloc, Goto, TypeOK, userVars, Alone
<1>2. \A c \in Cores : run_count'[Mine(p, c)'] = 1 /\ fence'[Mine(p, c)'] = "waiting"
  <2>. SUFFICES ASSUME NEW c \in Cores
                PROVE  run_count'[Mine(p, c)] = 1 /\ fence'[Mine(p, c)] = "waiting"
    BY <1>1 DEF Mine
  <2>. QED
    BY JobNames DEF Alloc
<1>3. CoresOfStep(p)'
  BY <1>1, <1>2 DEF CoreInv, CoresOfStep, Quiet
<1>4. Filled(p)'
  BY <1>1 DEF CoreInv, Filled
<1>. QED
  BY <1>1, <1>3, <1>4, Zenon DEF CoreInv

LEMMA GetDomainCores ==
    ASSUME Alone, TypeOK, CoreInv, NEW p \in Procs, GetDomain(p)
    PROVE  CoreInv'
<1>1. /\ UNCHANGED <<todo, job, hw, in, tile, run_count, fence>> /\ pc[p] = "get"
      /\ \A q \in Procs : q = p
      /\ \A c \in Cores : Mine(p, c)' = Mine(p, c)
  BY DEF GetDomain, userVars, Alone, Mine
<1>2. \/ pc'[p] = "get"
      \/ pc'[p] = "queue" /\ idx'[p] = 0
  BY <1>1, LoopStep DEF GetDomain, Onwards, Labels
<1>3. CoresOfStep(p)'
  BY <1>1, <1>2 DEF CoreInv, CoresOfStep, Quiet
<1>4. Filled(p)'
  BY <1>1 DEF CoreInv, Filled
<1>. QED
  BY <1>1, <1>3, <1>4, Zenon DEF CoreInv

LEMMA QueueCores ==
    ASSUME Alone, TypeOK, CoreInv, NEW p \in Procs, Queue(p)
    PROVE  CoreInv'
<1>1. /\ UNCHANGED <<hw, in, tile, idx, run_count, fence>>
      /\ pc[p] = "queue" /\ pc'[p] = "commit"
      /\ \A q \in Procs : q = p
      /\ \A c \in Cores : Mine(p, c)' = Mine(p, c)
  BY DEF Queue, Goto, TypeOK, userVars, Alone, Mine
<1>2. ASSUME NEW c \in Irqs
      PROVE  todo'[c] = << >> /\ job'[c] = Mine(p, c) /\ hw[c] = NoJob
  <2>1. todo[c] = << >> /\ job[c] = NoJob /\ hw[c] = NoJob
    BY <1>1 DEF CoreInv, CoresOfStep, Quiet
  <2>2. /\ todo'[c] = Tail(Append(todo[c], Mine(p, c)))
        /\ job'[c] = Head(Append(todo[c], Mine(p, c)))
    BY <2>1 DEF Queue
  <2>. QED
    BY <2>1, <2>2
<1>3. idx[p] = 0
  BY <1>1 DEF CoreInv, CoresOfStep
<1>4. ASSUME NEW c \in Cores
      PROVE  run_count[Mine(p, c)] = 1 /\ fence[Mine(p, c)] = "waiting" /\ ~(c < 0)
  BY <1>1 DEF CoreInv, CoresOfStep, Cores
<1>5. CoresOfStep(p)'
  BY <1>1, <1>2, <1>3, <1>4 DEF CoresOfStep, Recorded
<1>6. Filled(p)'
  BY <1>1 DEF CoreInv, Filled
<1>. QED
  BY <1>1, <1>2, <1>5, <1>6, Zenon DEF CoreInv

LEMMA CommitCores ==
    ASSUME Alone, TypeOK, CoreInv, NEW p \in Procs, Commit(p)
    PROVE  CoreInv'
<1>1. /\ UNCHANGED <<todo, job, in, tile, product, fence>> /\ pc[p] = "commit"
      /\ \A q \in Procs : q = p
      /\ \A c \in Cores : Mine(p, c)' = Mine(p, c)
      /\ idx[p] \in Cores
  BY DEF Commit, userVars, Alone, Mine, TypeOK
<1>2. ASSUME NEW c \in Irqs, c = idx[p]
      PROVE  Working(p, c)'
  <2>1. Recorded(p, c)
    BY <1>1, <1>2 DEF CoreInv, CoresOfStep, Cores
  <2>2. hw' = [hw EXCEPT ![c] = Mine(p, c)]
    BY <1>2, <2>1 DEF Commit, Recorded
  <2>3. hw'[c] = Mine(p, c)
    BY <2>2 DEF TypeOK
  <2>. QED
    BY <1>1, <2>1, <2>3 DEF Recorded, Working
<1>3. ASSUME NEW c \in Irqs, c # idx[p]
      PROVE  hw'[c] = hw[c] /\ run_count'[Mine(p, c)] = run_count[Mine(p, c)]
  <2>1. Mine(p, c) \in Jobs /\ Mine(p, c) # Mine(p, idx[p])
    BY <1>1, <1>3, JobNames
  <2>. QED
    BY <1>3, <2>1 DEF Commit, TypeOK
<1>4. ASSUME NEW c \in Irqs, c <= idx[p]
      PROVE  (Working(p, c) \/ Answered(p, c))'
  <2>1. CASE c = idx[p]
    BY <1>2, <2>1
  <2>2. CASE c # idx[p]
    <3>1. c < idx[p] /\ c \in Cores
      <4>1. \A a, b \in Cores : a <= b /\ a # b => a < b
        BY DEF Cores
      <4>. QED
        BY <1>1, <1>4, <2>2, <4>1
    <3>2. Working(p, c) \/ Answered(p, c)
      BY <1>1, <3>1 DEF CoreInv, CoresOfStep
    <3>. QED
      BY <1>1, <1>3, <2>2, <3>1, <3>2 DEF Working, Answered, Quiet
  <2>. QED
    BY <2>1, <2>2
<1>5. ASSUME NEW c \in Irqs, c > idx[p]
      PROVE  Recorded(p, c)'
  <2>1. c \in Cores /\ ~(c < idx[p]) /\ c # idx[p]
    BY <1>1, <1>5 DEF Cores
  <2>2. Recorded(p, c)
    BY <1>1, <2>1 DEF CoreInv, CoresOfStep
  <2>. QED
    BY <1>1, <1>3, <2>1, <2>2 DEF Recorded
<1>6. \/ idx[p] = 2 /\ pc'[p] = "poll" /\ idx'[p] = 0
      \/ idx[p] \in {0, 1} /\ pc'[p] = "commit" /\ idx'[p] = idx[p] + 1
  BY <1>1, LoopStep DEF Commit, Onwards, Labels
<1>7. CoresOfStep(p)'
  <2>1. \A c \in Cores \ Irqs : fence'[Mine(p, c)'] = "waiting"
    BY <1>1 DEF CoreInv, CoresOfStep
  <2>2. pc'[p] = "commit" =>
          \A c \in Irqs : IF c < idx'[p] THEN (Working(p, c) \/ Answered(p, c))'
                          ELSE Recorded(p, c)'
    <3>1. \A c \in Cores : /\ c < idx[p] + 1 => c <= idx[p]
                           /\ ~(c < idx[p] + 1) => c > idx[p]
      BY <1>1 DEF Cores
    <3>. QED
      BY <1>4, <1>5, <1>6, <3>1
  <2>3. pc'[p] = "poll" =>
          /\ \A c \in Irqs : (Working(p, c) \/ Answered(p, c))'
          /\ \A c \in Cores : ~(c < idx'[p])
    <3>1. \A c \in Cores : c <= 2 /\ ~(c < 0)
      BY DEF Cores
    <3>2. pc'[p] = "poll" => idx[p] = 2 /\ idx'[p] = 0
      BY <1>6
    <3>3. \A c \in Irqs : c <= 2
      BY <3>1
    <3>. QED
      BY <1>4, <3>1, <3>2, <3>3
  <2>. QED
    BY <1>6, <2>1, <2>2, <2>3 DEF CoresOfStep
<1>8. Filled(p)'
  BY <1>1 DEF CoreInv, Filled
<1>. QED
  BY <1>1, <1>7, <1>8, Zenon DEF CoreInv

\* A process gets past the last fence only if every core has answered.
LEMMA PollEnds ==
    ASSUME Alone, TypeOK, CoreInv, NEW p \in Procs, Poll(p), pc'[p] = "add"
    PROVE  \A c \in Cores : c \in Irqs /\ Answered(p, c)
<1>1. fence[Mine(p, idx[p])] = "signalled" /\ pc[p] = "poll"
  BY DEF Poll, Alone
<1>2. idx[p] = 2
  BY <1>1, LoopStep DEF Poll, Onwards, Labels
<1>3. \A c \in Cores : c < 2 \/ c = 2
  BY DEF Cores
<1>4. \A c \in Cores : fence[Mine(p, c)] = "signalled"
  BY <1>1, <1>2, <1>3 DEF CoreInv, CoresOfStep
<1>. QED
  BY <1>1, <1>4 DEF CoreInv, CoresOfStep, Working

LEMMA PollCores ==
    ASSUME Alone, TypeOK, CoreInv, NEW p \in Procs, Poll(p)
    PROVE  CoreInv'
<1>1. /\ UNCHANGED <<todo, job, hw, in, tile, product, run_count, fence>>
      /\ pc[p] = "poll" /\ fence[Mine(p, idx[p])] = "signalled"
      /\ \A q \in Procs : q = p
      /\ \A c \in Cores : Mine(p, c)' = Mine(p, c)
      /\ idx[p] \in Cores
  BY DEF Poll, kernelVars, Alone, Mine, TypeOK
<1>2. \/ pc'[p] = "add"
      \/ pc'[p] = "poll" /\ idx'[p] = idx[p] + 1
  BY <1>1, LoopStep DEF Poll, Onwards, Labels
<1>3. CoresOfStep(p)'
  <2>1. CASE pc'[p] = "add"
    <3>1. \A c \in Irqs : Quiet(c)
      BY <2>1, PollEnds DEF Answered
    <3>. QED
      BY <1>1, <2>1, <3>1 DEF CoresOfStep, Quiet
  <2>2. CASE pc'[p] = "poll" /\ idx'[p] = idx[p] + 1
    <3>1. \A c \in Cores : c < idx[p] + 1 => c < idx[p] \/ c = idx[p]
      BY <1>1 DEF Cores
    <3>2. \A c \in Cores : c < idx'[p] => fence'[Mine(p, c)'] = "signalled"
      BY <1>1, <2>2, <3>1 DEF CoreInv, CoresOfStep
    <3>3. \A c \in Irqs : (Working(p, c) \/ Answered(p, c))'
      BY <1>1 DEF CoreInv, CoresOfStep, Working, Answered, Quiet
    <3>4. \A c \in Cores \ Irqs : fence'[Mine(p, c)'] = "waiting"
      BY <1>1 DEF CoreInv, CoresOfStep
    <3>. QED
      BY <2>2, <3>2, <3>3, <3>4 DEF CoresOfStep
  <2>. QED
    BY <1>2, <2>1, <2>2
<1>4. Filled(p)'
  BY <1>1 DEF CoreInv, Filled
<1>. QED
  BY <1>1, <1>3, <1>4, Zenon DEF CoreInv

\* The registers of a busy core are those of the job it was given.
LEMMA BusyCore ==
    ASSUME Alone, TypeOK, CoreInv, NEW c \in Irqs, hw[c] # NoJob
    PROVE  \E p \in Procs : Working(p, c) /\ pc[p] \in {"commit", "poll"}
<1>1. hw[c] \in Jobs
  BY DEF TypeOK
<1>2. PICK p \in Procs : TRUE
  BY <1>1 DEF Jobs
<1>3. ~Quiet(c) /\ ~Answered(p, c) /\ ~Recorded(p, c)
  BY DEF Quiet, Answered, Recorded
<1>4. pc[p] \in {"commit", "poll"}
  BY <1>3 DEF CoreInv, CoresOfStep
<1>5. Working(p, c)
  BY <1>3, <1>4 DEF CoreInv, CoresOfStep
<1>. QED
  BY <1>4, <1>5

LEMMA DoneCores ==
    ASSUME Alone, TypeOK, CoreInv, NEW c \in Irqs, Done(c)
    PROVE  CoreInv'
<1>1. PICK p \in Procs : Working(p, c) /\ pc[p] \in {"commit", "poll"}
  BY BusyCore DEF Done
<1>2. /\ \A q \in Procs : q = p
      /\ UNCHANGED <<pc, tile, idx, in, todo, run_count>>
      /\ \A d \in Cores : Mine(p, d)' = Mine(p, d)
  BY DEF Done, Alone, Mine
<1>3. Mine(p, c) \in Jobs /\ Mine(p, c) # NoJob /\ Mine(p, c)[1] = p /\ c \in Cores
  BY JobNames
<1>4. in[p] = tile[p]
  BY <1>1 DEF CoreInv, Filled
<1>5. /\ job' = [job EXCEPT ![c] = NoJob] /\ hw' = [hw EXCEPT ![c] = NoJob]
      /\ fence' = [fence EXCEPT ![Mine(p, c)] = "signalled"]
      /\ product' = [product EXCEPT ![p] = [product[p] EXCEPT ![c] = tile[p]]]
  BY <1>1, <1>3, <1>4 DEF Done, Working
<1>6. Answered(p, c)'
  <2>1. job'[c] = NoJob /\ hw'[c] = NoJob /\ fence'[Mine(p, c)] = "signalled"
    BY <1>3, <1>5 DEF TypeOK
  <2>2. product'[p][c] = tile[p]
    BY <1>3, <1>5 DEF TypeOK
  <2>. QED
    BY <1>2, <1>3, <2>1, <2>2 DEF Answered, Quiet
<1>7. ASSUME NEW d \in Cores, d # c
      PROVE  /\ fence'[Mine(p, d)] = fence[Mine(p, d)] /\ product'[p][d] = product[p][d]
             /\ d \in Irqs => job'[d] = job[d] /\ hw'[d] = hw[d]
  <2>1. Mine(p, d) \in Jobs /\ Mine(p, d) # Mine(p, c)
    BY <1>3, <1>7, JobNames
  <2>2. product'[p][d] = product[p][d]
    BY <1>3, <1>5, <1>7 DEF TypeOK
  <2>. QED
    BY <1>5, <1>7, <2>1, <2>2 DEF TypeOK
<1>8. ASSUME NEW d \in Irqs, Working(p, d) \/ Answered(p, d)
      PROVE  (Working(p, d) \/ Answered(p, d))'
  <2>1. CASE d = c
    BY <1>6, <2>1
  <2>2. CASE d # c
    <3>1. d \in Cores
      OBVIOUS
    <3>. QED
      BY <1>2, <1>7, <1>8, <2>2, <3>1 DEF Working, Answered, Quiet
  <2>. QED
    BY <2>1, <2>2
<1>9. ASSUME NEW d \in Irqs, Recorded(p, d)
      PROVE  Recorded(p, d)'
  <2>1. d # c /\ d \in Cores
    BY <1>1, <1>3, <1>9 DEF Recorded, Working
  <2>. QED
    BY <1>2, <1>7, <1>9, <2>1 DEF Recorded
<1>10. ASSUME NEW d \in Cores, fence[Mine(p, d)] = "signalled"
       PROVE  fence'[Mine(p, d)'] = "signalled"
  <2>1. d # c
    BY <1>1, <1>10 DEF Working
  <2>. QED
    BY <1>2, <1>7, <1>10, <2>1
<1>11. \A d \in Cores \ Irqs : fence'[Mine(p, d)'] = "waiting"
  <2>. SUFFICES ASSUME NEW d \in Cores \ Irqs
                PROVE  fence'[Mine(p, d)'] = "waiting"
    OBVIOUS
  <2>1. fence[Mine(p, d)] = "waiting" /\ d # c
    BY <1>1 DEF CoreInv, CoresOfStep
  <2>. QED
    BY <1>2, <1>7, <2>1
<1>12. CoresOfStep(p)'
  <2>1. CASE pc[p] = "commit"
    <3>1. \A d \in Irqs : IF d < idx[p] THEN (Working(p, d) \/ Answered(p, d))'
                          ELSE Recorded(p, d)'
      BY <1>8, <1>9, <2>1 DEF CoreInv, CoresOfStep
    <3>. QED
      BY <1>2, <1>11, <2>1, <3>1 DEF CoresOfStep
  <2>2. CASE pc[p] = "poll"
    <3>1. \A d \in Irqs : (Working(p, d) \/ Answered(p, d))'
      BY <1>8, <2>2 DEF CoreInv, CoresOfStep
    <3>2. \A d \in Cores : d < idx[p] => fence'[Mine(p, d)'] = "signalled"
      BY <1>10, <2>2 DEF CoreInv, CoresOfStep
    <3>. QED
      BY <1>2, <1>11, <2>2, <3>1, <3>2 DEF CoresOfStep
  <2>. QED
    BY <1>1, <2>1, <2>2
<1>13. Filled(p)'
  BY <1>2 DEF CoreInv, Filled
<1>. QED
  BY <1>2, <1>12, <1>13, Zenon DEF CoreInv

LEMMA CoreStep ==
    ASSUME Alone, TypeOK, CoreInv, [Next]_vars
    PROVE  CoreInv'
<1>1. ASSUME NEW p \in Procs, StartRun(p) \/ InRun(p)
      PROVE  CoreInv'
  BY <1>1, CoresFollow, AllocCores, GetDomainCores, QueueCores, CommitCores, PollCores
  DEF InRun
<1>2. ASSUME NEW c \in Irqs, Done(c)
      PROVE  CoreInv'
  BY <1>2, DoneCores
<1>. DEFINE Same == UNCHANGED <<pc, tile, idx, in, product, todo, job, hw, run_count, fence>>
<1>3. ASSUME NEW c \in Irqs, NextJob(c)
      PROVE  Same
  BY <1>3 DEF NextJob, CoreInv, userVars
<1>4. UNCHANGED vars => Same
  BY DEF vars, userVars, kernelVars
<1>5. Same => CoreInv'
  BY DEF CoreInv, Filled, CoresOfStep, Quiet, Working, Answered, Recorded, Mine
<1>. QED
  BY <1>1, <1>2, <1>3, <1>4, <1>5 DEF Next

LEMMA CoreCorrect == ASSUME Alone PROVE Spec => [](TypeOK /\ HoldInv /\ CoreInv)
<1>1. Init => CoreInv
  BY InitCores
<1>2. Alone /\ TypeOK /\ CoreInv /\ [Next]_vars => CoreInv'
  BY CoreStep
<1>. QED
  BY <1>1, <1>2, HoldCorrect, PTL DEF Spec

LEMMA CoresHold == ASSUME Alone PROVE Spec => [](CoreRunsItsJob /\ DomainHeld)
<1>1. Alone /\ TypeOK /\ HoldInv /\ CoreInv => CoreRunsItsJob /\ DomainHeld
  <2>. SUFFICES ASSUME Alone, TypeOK, HoldInv, CoreInv
                PROVE  CoreRunsItsJob /\ DomainHeld
    OBVIOUS
  <2>1. ASSUME NEW c \in Irqs, hw[c] # NoJob
        PROVE  job[c] = hw[c] /\ hw[c] \in held
    <3>1. job[c] = hw[c]
      BY <2>1, BusyCore DEF Working
    <3>. QED
      BY <2>1, <3>1 DEF HoldInv, JobsHold
  <2>. QED
    BY <2>1 DEF CoreRunsItsJob, DomainHeld, HoldInv
<1>. QED
  BY <1>1, CoreCorrect, PTL

\* With one process that waits for its fences, a core only ever works on the
\* job the driver has recorded for it: Commit finds no core that still has
\* another job (rknpu_batch_submit, phases 3 and 4).  With two processes the
\* run NpuBatch_busy refutes this.
THEOREM CoresCorrect == ASSUME Alone PROVE Spec => []CoreRunsItsJob
  BY CoresHold, PTL

\* And the job a core works on holds the domain, whose count is the number of
\* its holders (rknpu_iommu_domain_get_and_switch and _put).
THEOREM DomainKept == ASSUME Alone PROVE Spec => []DomainHeld
  BY CoresHold, PTL
-----------------------------------------------------------------------------
(* The sums, with one process *)

\* A step that adds nothing: the sums are as before, and the process is not
\* about to add but for a Poll.
LEMMA SumsKept ==
    ASSUME Alone, TypeOK, SumInv, NEW p \in Procs,
           UNCHANGED <<tile, z>>,
           broken'[p] \/ ~broken[p],
           pc'[p] = "idle" <=> pc[p] = "idle",
           pc'[p] = "add" /\ ~broken'[p] => \A c \in Cores : product'[p][c] = tile[p]
    PROVE  SumInv'
<1>1. \A q \in Procs : q = p
  BY DEF Alone
<1>2. ASSUME ~broken'[p], NEW c \in Cores
      PROVE  (/\ InOrder(p, c)
              /\ pc[p] = "idle" => Len(z[p][c]) \in {0, NTiles}
              /\ pc[p] # "idle" => Len(z[p][c]) = tile[p] - 1
              /\ pc[p] = "add" => product[p][c] = tile[p])'
  BY <1>2 DEF SumInv, InOrder
<1>. QED
  BY <1>1, <1>2, Zenon DEF SumInv

LEMMA StartSums ==
    ASSUME Alone, TypeOK, NEW p \in Procs, StartRun(p)
    PROVE  SumInv'
<1>1. \A q \in Procs : q = p
  BY DEF Alone
<1>2. pc'[p] = "fill" /\ tile'[p] = 1 /\ z'[p] = [c \in Cores |-> << >>]
  BY DEF StartRun, Goto, TypeOK
<1>3. ASSUME NEW c \in Cores
      PROVE  Len(z'[p][c]) = 0
  BY <1>2
<1>. QED
  BY <1>1, <1>2, <1>3 DEF SumInv, InOrder

LEMMA AddSums ==
    ASSUME Alone, TypeOK, SumInv, NEW p \in Procs, Add(p)
    PROVE  SumInv'
<1>1. /\ \A q \in Procs : q = p
      /\ pc[p] = "add" /\ tile[p] \in 1 .. NTiles /\ broken' = broken
  BY DEF Add, Alone, TypeOK
<1>2. ASSUME ~broken[p], NEW c \in Cores
      PROVE  InOrder(p, c)' /\ Len(z'[p][c]) = tile[p]
  <2>1. /\ InOrder(p, c) /\ Len(z[p][c]) = tile[p] - 1 /\ product[p][c] = tile[p]
    BY <1>1, <1>2 DEF SumInv
  <2>2. z'[p][c] = Append(z[p][c], tile[p]) /\ z[p][c] \in Seq(0 .. NTiles)
    BY <2>1 DEF Add, TypeOK
  <2>3. /\ Len(z'[p][c]) = Len(z[p][c]) + 1
        /\ z'[p][c][Len(z[p][c]) + 1] = tile[p]
        /\ \A n \in 1 .. Len(z[p][c]) : z'[p][c][n] = z[p][c][n]
    BY <1>1, <2>2, Lists
  <2>4. Len(z'[p][c]) = tile[p] /\ z'[p][c][tile[p]] = tile[p]
    BY <1>1, <2>1, <2>3
  <2>5. ASSUME NEW n \in 1 .. Len(z'[p][c])
        PROVE  z'[p][c][n] = n
    <3>1. n = tile[p] \/ n \in 1 .. Len(z[p][c])
      BY <1>1, <2>1, <2>4
    <3>. QED
      BY <2>1, <2>3, <2>4, <3>1 DEF InOrder
  <2>. QED
    BY <2>4, <2>5 DEF InOrder
<1>3. CASE tile[p] = NTiles
  <2>1. pc'[p] = "idle"
    BY <1>3 DEF Add, Goto, TypeOK
  <2>. QED
    BY <1>1, <1>2, <1>3, <2>1 DEF SumInv
<1>4. CASE tile[p] # NTiles
  <2>1. pc'[p] = "fill" /\ tile'[p] = tile[p] + 1
    BY <1>4 DEF Add, Goto, TypeOK
  <2>. QED
    BY <1>1, <1>2, <2>1 DEF SumInv
<1>. QED
  BY <1>3, <1>4

LEMMA SumStep ==
    ASSUME Alone, TypeOK, CoreInv, SumInv, [Next]_vars
    PROVE  SumInv'
<1>1. ASSUME NEW p \in Procs, StartRun(p) \/ Add(p)
      PROVE  SumInv'
  BY <1>1, StartSums, AddSums
<1>2. ASSUME NEW p \in Procs, Fill(p) \/ Alloc(p) \/ Queue(p)
      PROVE  SumInv'
  <2>1. UNCHANGED <<tile, z, broken>> /\ pc[p] # "idle" /\ pc'[p] \notin {"idle", "add"}
    BY <1>2 DEF Fill, Alloc, Queue, Goto, TypeOK, userVars
  <2>. QED
    BY <2>1, SumsKept
<1>3. ASSUME NEW p \in Procs, GetDomain(p) \/ Commit(p)
      PROVE  SumInv'
  <2>1. UNCHANGED <<tile, z, broken>> /\ pc[p] # "idle" /\ pc'[p] \notin {"idle", "add"}
    BY <1>3, LoopStep DEF GetDomain, Commit, Onwards, Labels, TypeOK, userVars
  <2>. QED
    BY <2>1, SumsKept
<1>4. ASSUME NEW p \in Procs, AllocFails(p)
      PROVE  SumInv'
  <2>1. UNCHANGED <<tile, z>> /\ broken'[p] /\ pc[p] # "idle" /\ pc'[p] # "idle"
    BY <1>4 DEF AllocFails, Goto, TypeOK
  <2>. QED
    BY <2>1, SumsKept
<1>5. ASSUME NEW p \in Procs, Poll(p)
      PROVE  SumInv'
  <2>1. UNCHANGED <<tile, z, product>> /\ pc[p] # "idle" /\ pc'[p] # "idle"
    BY <1>5, LoopStep DEF Poll, Onwards, Labels
  <2>2. broken'[p] \/ ~broken[p]
    BY <1>5 DEF Poll, TypeOK
  <2>3. pc'[p] = "add" => \A c \in Cores : product[p][c] = tile[p]
    BY <1>5, PollEnds DEF Answered
  <2>. QED
    BY <2>1, <2>2, <2>3, SumsKept
<1>6. ASSUME NEW c \in Irqs, Done(c)
      PROVE  SumInv'
  <2>1. PICK p \in Procs : pc[p] \in {"commit", "poll"}
    BY <1>6, BusyCore DEF Done
  <2>2. UNCHANGED <<tile, z, broken, pc>>
    BY <1>6 DEF Done
  <2>. QED
    BY <2>1, <2>2, SumsKept
<1>. DEFINE Same == UNCHANGED <<pc, tile, product, z, broken>>
<1>7. ASSUME NEW c \in Irqs, NextJob(c)
      PROVE  Same
  BY <1>7 DEF NextJob, userVars
<1>8. UNCHANGED vars => Same
  BY DEF vars, userVars
<1>9. Same => SumInv'
  BY DEF SumInv, InOrder
<1>. QED
  BY <1>1, <1>2, <1>3, <1>4, <1>5, <1>6, <1>7, <1>8, <1>9 DEF Next, InRun

\* A run of npu_cna_3core_run in which no ioctl failed has added, for each
\* core, the product of every tile, once and in order, for any number of tiles.
THEOREM SumsCorrect == ASSUME Alone PROVE Spec => []SumsAreWhole
<1>1. Init => SumInv
  BY DEF Init, SumInv, InOrder
<1>2. Alone /\ TypeOK /\ CoreInv /\ SumInv /\ [Next]_vars => SumInv'
  BY SumStep
<1>3. SumInv => SumsAreWhole
  BY DEF SumInv, SumsAreWhole, InOrder
<1>. QED
  BY <1>1, <1>2, <1>3, CoreCorrect, PTL DEF Spec
=============================================================================
