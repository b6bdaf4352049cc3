-------------------------- MODULE TemplateRunProofs --------------------------
(***************************************************************************)
(* Theorems about TemplateRun, for any captured programs whose chain words *)
(* follow their task tables, any placement, any sequence of calls; and for *)
(* those that go right as captured (CapturedAssumption), what every call   *)
(* of a program in place touches and answers.                              *)
(***************************************************************************)
EXTENDS CapturedRun, FiniteSetTheorems, SequenceTheorems, WellFoundedInduction, TLAPS

(***************************************************************************)
(* The two patchers, for every capture, placement and word: up to six BOs, *)
(* of any size, anywhere.                                                  *)
(***************************************************************************)
Roles == 1 .. OUTPUT
USE DEF Roles, TASK, REGCMD, SCRATCH, INPUT, WEIGHTS, OUTPUT

LEMMA FirstExists ==
    ASSUME NEW W, W \subseteq Roles, W # {}
    PROVE  \E r \in W : \A q \in W : r <= q
<1>1. PICK x \in W : TRUE
  OBVIOUS
<1>2. CASE 1 \in W  BY <1>2
<1>3. CASE 1 \notin W /\ 2 \in W  BY <1>3
<1>4. CASE 1 \notin W /\ 2 \notin W /\ 3 \in W  BY <1>4
<1>5. CASE 1 \notin W /\ 2 \notin W /\ 3 \notin W /\ 4 \in W  BY <1>5
<1>6. CASE 1 \notin W /\ 2 \notin W /\ 3 \notin W /\ 4 \notin W /\ 5 \in W  BY <1>6
<1>7. CASE W \subseteq {6}  BY <1>1, <1>7
<1>8. QED
  BY <1>2, <1>3, <1>4, <1>5, <1>6, <1>7

LEMMA FirstWindowIs ==
    ASSUME NEW n \in Roles, NEW cap \in [1 .. n -> Int], NEW sz \in [1 .. n -> Nat],
           NEW a \in Int, Windows(a, cap, sz) # {}
    PROVE  /\ FirstWindow(a, cap, sz) \in Windows(a, cap, sz)
           /\ FirstWindow(a, cap, sz) \in 1 .. n
<1>1. Windows(a, cap, sz) \subseteq Roles
  <2>1. Windows(a, cap, sz) \subseteq 1 .. n
    BY DEF Windows
  <2>2. 1 .. n \subseteq Roles
    OBVIOUS
  <2>3. QED
    BY <2>1, <2>2, Zenon
<1>2. \E r \in Windows(a, cap, sz) : \A q \in Windows(a, cap, sz) : r <= q
  BY <1>1, FirstExists
<1>3. FirstWindow(a, cap, sz) \in Windows(a, cap, sz)
  BY <1>2, Zenon DEF FirstWindow
<1>4. QED
  BY <1>3 DEF Windows

LEMMA OneWindow ==
    ASSUME NEW n \in Roles, NEW cap \in [1 .. n -> Int], NEW sz \in [1 .. n -> Nat],
           Disjoint(cap, sz), NEW a \in Int,
           NEW r \in 1 .. n, Within(a, cap[r], sz[r])
    PROVE  Windows(a, cap, sz) = {r}
<1>1. ASSUME NEW q \in 1 .. n, q # r PROVE ~Within(a, cap[q], sz[q])
  <2>1. cap[q] + sz[q] <= cap[r] \/ cap[r] + sz[r] <= cap[q]
    BY <1>1 DEF Disjoint
  <2>2. cap[q] \in Int /\ sz[q] \in Nat /\ cap[r] \in Int /\ sz[r] \in Nat
    OBVIOUS
  <2>3. QED
    BY <2>1, <2>2 DEF Within
<1>2. QED
  BY <1>1, Zenon DEF Windows

\* Where a DMA word of a role goes (pjrt_npu_impl.c:1124): to the same offset
\* of the BO that plays this role now, and so inside that BO.
THEOREM RepointKeepsRole ==
    ASSUME NEW n \in Roles, NEW cap \in [1 .. n -> Int], NEW sz \in [1 .. n -> Nat],
           NEW my \in [1 .. n -> Int], Disjoint(cap, sz), NEW a \in Int,
           NEW r \in 1 .. n, Within(a, cap[r], sz[r])
    PROVE  /\ Repoint(a, cap, my, sz) - my[r] = a - cap[r]
           /\ Within(Repoint(a, cap, my, sz), my[r], sz[r])
<1>1. Windows(a, cap, sz) = {r}
  BY OneWindow
<1>2. FirstWindow(a, cap, sz) = r
  BY <1>1, FirstWindowIs
<1>3. Repoint(a, cap, my, sz) = my[r] + (a - cap[r])
  BY <1>1, <1>2 DEF Repoint
<1>4. QED
  BY <1>3 DEF Within

\* No two addresses of a program fall together: what the capture kept apart, in
\* one BO or in two, the patched program keeps apart.
THEOREM RepointKeepsApart ==
    ASSUME NEW n \in Roles, NEW cap \in [1 .. n -> Int], NEW sz \in [1 .. n -> Nat],
           NEW my \in [1 .. n -> Int], Disjoint(cap, sz), Disjoint(my, sz),
           NEW a \in Int, NEW b \in Int, a # b,
           Windows(a, cap, sz) # {}, Windows(b, cap, sz) # {}
    PROVE  Repoint(a, cap, my, sz) # Repoint(b, cap, my, sz)
<1>1. PICK r \in 1 .. n : Within(a, cap[r], sz[r])
  BY DEF Windows
<1>2. PICK q \in 1 .. n : Within(b, cap[q], sz[q])
  BY DEF Windows
<1> DEFINE ra == Repoint(a, cap, my, sz)
           rb == Repoint(b, cap, my, sz)
<1>3. ra - my[r] = a - cap[r] /\ Within(ra, my[r], sz[r])
  BY <1>1, RepointKeepsRole
<1>4. rb - my[q] = b - cap[q] /\ Within(rb, my[q], sz[q])
  BY <1>2, RepointKeepsRole
<1>5. ra \in Int /\ rb \in Int
  <2>1. FirstWindow(a, cap, sz) \in 1 .. n /\ FirstWindow(b, cap, sz) \in 1 .. n
    BY FirstWindowIs
  <2>2. QED
    BY <2>1 DEF Repoint
<1>6. /\ my[r] \in Int /\ my[q] \in Int /\ cap[r] \in Int /\ cap[q] \in Int
      /\ sz[r] \in Nat /\ sz[q] \in Nat
  OBVIOUS
<1> HIDE DEF ra, rb
<1>7. ASSUME q = r PROVE ra # rb
  <2>1. ra - my[r] # rb - my[r]
    BY <1>3, <1>4, <1>5, <1>6, <1>7
  <2>2. QED
    BY <2>1
<1>8. ASSUME q # r PROVE ra # rb
  <2>1. my[q] + sz[q] <= my[r] \/ my[r] + sz[r] <= my[q]
    BY <1>8 DEF Disjoint
  <2>2. my[r] <= ra /\ ra < my[r] + sz[r] /\ my[q] <= rb /\ rb < my[q] + sz[q]
    BY <1>3, <1>4 DEF Within
  <2>3. my[q] + sz[q] \in Int /\ my[r] + sz[r] \in Int
    BY <1>6
  <2>4. CASE my[q] + sz[q] <= my[r]
    <3>1. rb < my[r]
      BY <1>5, <1>6, <2>2, <2>3, <2>4
    <3>2. QED
      BY <1>5, <1>6, <2>2, <3>1
  <2>5. CASE my[r] + sz[r] <= my[q]
    <3>1. ra < my[q]
      BY <1>5, <1>6, <2>2, <2>3, <2>5
    <3>2. QED
      BY <1>5, <1>6, <2>2, <3>1
  <2>6. QED
    BY <2>1, <2>4, <2>5
<1>9. ra # rb
  BY <1>7, <1>8
<1>10. QED
  BY <1>9 DEF ra, rb

\* Exactly when a word with a DMA core id moves: it lies in a window of the
\* capture and the BO of the first such window lies elsewhere.  Nothing asks
\* whether the word is an address: a notch or a word of a lookup table that
\* looks like one moves too.
THEOREM WordMoves ==
    ASSUME NEW n \in Roles, NEW cap \in [1 .. n -> Int], NEW sz \in [1 .. n -> Nat],
           NEW my \in [1 .. n -> Int], NEW a \in Int
    PROVE  Repoint(a, cap, my, sz) # a <=>
               /\ Windows(a, cap, sz) # {}
               /\ my[FirstWindow(a, cap, sz)] # cap[FirstWindow(a, cap, sz)]
<1>1. CASE Windows(a, cap, sz) = {}
  BY <1>1 DEF Repoint
<1>2. CASE Windows(a, cap, sz) # {}
  <2>1. FirstWindow(a, cap, sz) \in 1 .. n
    BY <1>2, FirstWindowIs
  <2>2. QED
    BY <1>2, <2>1 DEF Repoint
<1>3. QED
  BY <1>1, <1>2

\* A program loaded where it was captured is the captured one, word by word,
\* task by task: patching is then the identity, constants included.
THEOREM InPlaceIsCaptured ==
    ASSUME NEW n \in Roles, REGCMD <= n,
           NEW cap \in [1 .. n -> Int], NEW sz \in [1 .. n -> Nat],
           NEW m \in Nat, NEW R, NEW regs \in [1 .. m -> SUBSET R],
           NEW blocks, blocks = [b \in 1 .. m |-> blocks[b]],
           \A b \in 1 .. m : blocks[b] \in [regs[b] -> Int],
           NEW k \in Nat, NEW tasks \in [1 .. k -> Int]
    PROVE  /\ patch_regcmd_tmpl(blocks, cap, cap, sz) = blocks
           /\ patch_task_tmpl(tasks, cap, cap, sz) = tasks
<1>1. \A a \in Int : Repoint(a, cap, cap, sz) = a /\ Rechain(a, cap, cap, sz) = a
  <2> SUFFICES ASSUME NEW a \in Int
               PROVE  Repoint(a, cap, cap, sz) = a /\ Rechain(a, cap, cap, sz) = a
    OBVIOUS
  <2>1. Repoint(a, cap, cap, sz) = a
    <3>1. CASE Windows(a, cap, sz) = {}
      BY <3>1 DEF Repoint
    <3>2. CASE Windows(a, cap, sz) # {}
      <4>1. cap[FirstWindow(a, cap, sz)] \in Int
        BY <3>2, FirstWindowIs
      <4>2. QED
        BY <3>2, <4>1 DEF Repoint
    <3>3. QED
      BY <3>1, <3>2
  <2>2. Rechain(a, cap, cap, sz) = a
    BY DEF Rechain
  <2>3. QED
    BY <2>1, <2>2
<1>2. ASSUME NEW b \in 1 .. m PROVE PatchBlock(blocks[b], cap, cap, sz) = blocks[b]
  <2>1. blocks[b] \in [regs[b] -> Int]
    BY <1>2
  <2>2. \A reg \in regs[b] : blocks[b][reg] \in Int
    BY <2>1
  <2>3. QED
    BY <1>1, <2>1, <2>2 DEF PatchBlock
<1>3. patch_regcmd_tmpl(blocks, cap, cap, sz) = blocks
  <2>1. DOMAIN blocks = 1 .. m
    OBVIOUS
  <2>2. QED
    BY <1>2, <2>1 DEF patch_regcmd_tmpl
<1>4. patch_task_tmpl(tasks, cap, cap, sz) = tasks
  BY <1>1 DEF patch_task_tmpl
<1>5. QED
  BY <1>3, <1>4

(***************************************************************************)
(* A program loaded with m BOs of the size of W below its six, its words   *)
(* of W patched to the first of these.                                     *)
(***************************************************************************)

\* The sizes of the BOs: the first of the m is as large as W.
LEMMA SizesBelow ==
    ASSUME NEW n \in Roles, WEIGHTS <= n, NEW sz \in [1 .. n -> Nat], NEW m \in Nat \ {0},
           NEW x, x = [i \in 1 .. m |-> sz[WEIGHTS]]
    PROVE  /\ \A q \in 1 .. n : (sz \o x)[q] = sz[q]
           /\ (sz \o x)[n + 1] = sz[WEIGHTS]
<1>1. sz \in Seq(Nat) /\ Len(sz) = n
  <2>1. sz \in Seq(Nat) /\ DOMAIN sz = 1 .. n
    OBVIOUS
  <2>2. QED
    BY <2>1, LenProperties
<1>2. x \in Seq(Nat) /\ Len(x) = m
  <2>1. x \in Seq(Nat) /\ DOMAIN x = 1 .. m
    OBVIOUS
  <2>2. QED
    BY <2>1, LenProperties
<1>3. \A i \in 1 .. n + m : (sz \o x)[i] = IF i <= n THEN sz[i] ELSE x[i - n]
  BY <1>1, <1>2, ConcatProperties
<1>4. x[1] = sz[WEIGHTS]
  OBVIOUS
<1>5. QED
  BY <1>3, <1>4

\* A word in one of two BOs that are apart is not in the other.
LEMMA NotInBoth ==
    ASSUME NEW x \in Int, NEW y \in Int, NEW k \in Nat, NEW m \in Nat,
           x + k <= y \/ y + m <= x, NEW a \in Int, Within(a, x, k)
    PROVE  ~Within(a, y, m)
  BY DEF Within

\* Role w of a capture goes to another BO of its size, the k-th: n BOs and that
\* one, all apart.
HasSlot(n, cap, sz, w, at, all, k) ==
    /\ n \in Roles /\ cap \in [1 .. n -> Int] /\ sz \in [1 .. n -> Nat] /\ w \in 1 .. n
    /\ Disjoint(cap, sz) /\ Disjoint(at, all)
    /\ \A q \in 1 .. n : q \in DOMAIN at /\ at[q] \in Int /\ all[q] = sz[q]
    /\ k \in DOMAIN at /\ k \notin 1 .. n /\ at[k] \in Int /\ all[k] = sz[w]
ToSlot(n, w, at, k) == [q \in 1 .. n |-> IF q = w THEN at[k] ELSE at[q]]

\* Patched, a word lies in that BO exactly if it lay in w when captured, provided
\* a word that is no address does not look as if it did.
LEMMA WordMovesToSlot ==
    ASSUME NEW n, NEW cap, NEW sz, NEW w, NEW at, NEW all, NEW k,
           HasSlot(n, cap, sz, w, at, all, k),
           NEW a \in Int, Windows(a, cap, sz) = {} => ~Within(a, at[k], sz[w])
    PROVE  /\ Repoint(a, cap, ToSlot(n, w, at, k), sz) \in Int
           /\ Within(Repoint(a, cap, ToSlot(n, w, at, k), sz), at[k], sz[w])
                <=> Within(a, cap[w], sz[w])
<1> DEFINE my == ToSlot(n, w, at, k)
           v == Repoint(a, cap, my, sz)
<1>0. /\ n \in Roles /\ cap \in [1 .. n -> Int] /\ sz \in [1 .. n -> Nat] /\ w \in 1 .. n
      /\ Disjoint(cap, sz) /\ Disjoint(at, all)
      /\ \A q \in 1 .. n : q \in DOMAIN at /\ at[q] \in Int /\ all[q] = sz[q]
      /\ k \in DOMAIN at /\ k \notin 1 .. n /\ at[k] \in Int /\ all[k] = sz[w]
  BY DEF HasSlot
<1> USE <1>0
<1>1. /\ my \in [1 .. n -> Int]
      /\ \A q \in 1 .. n : my[q] = IF q = w THEN at[k] ELSE at[q]
  BY DEF ToSlot
<1>2. v = Repoint(a, cap, my, sz)
  OBVIOUS
<1> SUFFICES v \in Int /\ (Within(v, at[k], sz[w]) <=> Within(a, cap[w], sz[w]))
  OBVIOUS
<1> HIDE DEF v, my
<1>3. CASE Windows(a, cap, sz) = {}
  <2>1. v = a
    BY <1>2, <1>3 DEF Repoint
  <2>2. w \notin Windows(a, cap, sz)
    BY <1>3
  <2>3. ~Within(a, cap[w], sz[w])
    BY <2>2 DEF Windows
  <2>4. QED
    BY <1>2, <1>3, <2>1, <2>3 DEF my
<1>4. CASE Windows(a, cap, sz) # {}
  <2>1. PICK q \in 1 .. n : Within(a, cap[q], sz[q])
    BY <1>4 DEF Windows
  <2>2. Within(v, my[q], sz[q])
    BY <1>1, <1>2, <2>1, RepointKeepsRole
  <2>4. v \in Int
    <3>1. FirstWindow(a, cap, sz) \in 1 .. n
      BY <1>4, FirstWindowIs
    <3>2. v = my[FirstWindow(a, cap, sz)] + (a - cap[FirstWindow(a, cap, sz)])
      BY <1>2, <1>4 DEF Repoint
    <3>3. my[FirstWindow(a, cap, sz)] \in Int /\ cap[FirstWindow(a, cap, sz)] \in Int
      BY <1>1, <3>1
    <3>4. QED
      BY <3>2, <3>3
  <2>5. Within(a, cap[w], sz[w]) <=> q = w
    <3>1. cap[q] \in Int /\ sz[q] \in Nat /\ cap[w] \in Int /\ sz[w] \in Nat
      OBVIOUS
    <3>2. q # w => cap[q] + sz[q] <= cap[w] \/ cap[w] + sz[w] <= cap[q]
      BY DEF Disjoint
    <3>3. QED
      BY <2>1, <3>1, <3>2, NotInBoth
  <2>6. CASE q = w
    <3>1. my[q] = at[k]
      BY <1>1, <2>6
    <3>2. QED
      BY <1>2, <2>2, <2>4, <2>5, <2>6, <3>1
  <2>7. CASE q # w
    <3>1. my[q] = at[q]
      BY <1>1, <2>7
    <3>2. at[q] \in Int /\ at[k] \in Int /\ sz[q] \in Nat /\ sz[w] \in Nat
      OBVIOUS
    <3>3. q \in DOMAIN at /\ k \in DOMAIN at /\ q # k
      OBVIOUS
    <3>4. at[q] + all[q] <= at[k] \/ at[k] + all[k] <= at[q]
      BY <3>3 DEF Disjoint
    <3>5. at[q] + sz[q] <= at[k] \/ at[k] + sz[w] <= at[q]
      BY <3>4
    <3>6. Within(v, at[q], sz[q])
      BY <2>2, <3>1
    <3>7. ~Within(v, at[k], sz[w])
      BY <2>4, <3>2, <3>5, <3>6, NotInBoth
    <3>8. QED
      BY <1>2, <2>4, <2>5, <2>7, <3>7
  <2>8. QED
    BY <2>6, <2>7
<1>5. QED
  BY <1>3, <1>4

HIDE DEF Roles, TASK, REGCMD, SCRATCH, INPUT, WEIGHTS, OUTPUT

(***************************************************************************)
(* The task table and the chain words.                                     *)
(***************************************************************************)

\* Where an address of the captured commands lies now.
Moved(a) == IF Within(a, T(tpl).cap[REGCMD], T(tpl).sz[REGCMD])
            THEN lo[REGCMD] + (a - T(tpl).cap[REGCMD]) ELSE a

\* The task table and the chain words are those of the capture, moved together.
\* A cached run rewrites words of W only, never a chain word.
ChainInv ==
    /\ \A e \in io1 : e[2] \in Words
    /\ open # "closed" =>
         /\ tpl \in DOMAIN Templates
         /\ tk = [i \in DOMAIN T(tpl).task_tmpl |-> Moved(T(tpl).task_tmpl[i])]
         /\ DOMAIN rc = DOMAIN T(tpl).regcmd_tmpl
         /\ \A b \in DOMAIN rc :
              /\ "next" \in DOMAIN rc[b] <=> "next" \in DOMAIN T(tpl).regcmd_tmpl[b].words
              /\ "next" \in DOMAIN rc[b] =>
                   rc[b]["next"] = Moved(T(tpl).regcmd_tmpl[b].words["next"])

\* The state ChainInv reads, without the words of W.
Program == <<open, tpl, lo, tk>>

LEMMA LoadChains ==
    ASSUME NEW kind, NEW t \in DOMAIN Templates, NEW at, NEW exists, NEW w,
           Load(kind, t, at, exists, w), \A e \in io1' : e[2] \in Words
    PROVE  ChainInv'
<1> DEFINE my == [r \in 1 .. OUTPUT |-> IF r = WEIGHTS THEN at[w] ELSE at[r]]
<1>1. my[REGCMD] = at[REGCMD]
  BY DEF REGCMD, WEIGHTS, OUTPUT
<1>2. /\ tpl' = t /\ lo' = at
      /\ rc' = patch_regcmd_tmpl(Blocks(t), T(t).cap, my, T(t).sz)
      /\ tk' = patch_task_tmpl(T(t).task_tmpl, T(t).cap, my, T(t).sz)
  BY DEF Load
<1> HIDE DEF my
<1>3. \A a : Moved(a)' = Rechain(a, T(t).cap, my, T(t).sz)
  BY <1>1, <1>2 DEF Moved, Rechain, T
<1>4. tk' = [i \in DOMAIN T(tpl').task_tmpl |-> Moved(T(tpl).task_tmpl[i])']
  BY <1>2, <1>3 DEF patch_task_tmpl, T
<1>5. /\ DOMAIN rc' = DOMAIN T(t).regcmd_tmpl
      /\ \A b \in DOMAIN rc' :
            rc'[b] = PatchBlock(T(t).regcmd_tmpl[b].words, T(t).cap, my, T(t).sz)
  BY <1>2 DEF patch_regcmd_tmpl, Blocks
<1>6. \A b \in DOMAIN rc' :
         /\ "next" \in DOMAIN rc'[b] <=> "next" \in DOMAIN T(t).regcmd_tmpl[b].words
         /\ "next" \in DOMAIN rc'[b] =>
              rc'[b]["next"] = Rechain(T(t).regcmd_tmpl[b].words["next"], T(t).cap, my, T(t).sz)
  BY <1>5 DEF PatchBlock
<1>7. QED
  BY <1>2, <1>3, <1>4, <1>5, <1>6 DEF ChainInv, T

LEMMA KeepChains ==
    ASSUME ChainInv, UNCHANGED Program,
           DOMAIN rc' = DOMAIN rc,
           \A b \in DOMAIN rc : /\ DOMAIN rc'[b] = DOMAIN rc[b]
                                /\ "next" \in DOMAIN rc[b] => rc'[b]["next"] = rc[b]["next"],
           \A e \in io1' : e[2] \in Words
    PROVE  ChainInv'
  BY DEF ChainInv, Program, Moved, T

LEMMA SameChains ==
    ASSUME ChainInv, UNCHANGED Program, UNCHANGED rc, UNCHANGED io1
    PROVE  ChainInv'
  BY DEF ChainInv, Program, Moved, T

LEMMA ShutChains == ASSUME Shut PROVE ChainInv'
  BY DEF Shut, ChainInv

LEMMA RepointedChains ==
    ASSUME ChainInv, NEW i, NEW x, NEW z, CachedMatmul(i, x, z)
    PROVE  ChainInv'
<1>1. rc' = Io1Repointed(i) /\ UNCHANGED Program /\ UNCHANGED io1
  BY DEF CachedMatmul, Program, bo
<1>2. \A e \in io1 : e[2] # "next"
  BY DEF ChainInv, Words
<1>3. DOMAIN rc' = DOMAIN rc
  BY <1>1 DEF Io1Repointed
<1>4. \A b \in DOMAIN rc : /\ DOMAIN rc'[b] = DOMAIN rc[b]
                           /\ "next" \in DOMAIN rc[b] => rc'[b]["next"] = rc[b]["next"]
  BY <1>1, <1>2 DEF Io1Repointed
<1>5. QED
  BY <1>1, <1>3, <1>4, KeepChains DEF ChainInv

LEMMA ChainStep == ChainInv /\ [Next]_vars => ChainInv'
<1> SUFFICES ASSUME ChainInv, [Next]_vars PROVE ChainInv'
  OBVIOUS
<1>1. ASSUME NEW t \in DOMAIN Templates, NEW x \in Xs, NEW w \in Ws, npu_matmul_raw(t, x, w)
      PROVE  ChainInv'
  <2>1. CASE Reuse(t)
    BY <1>1, <2>1, SameChains DEF npu_matmul_raw, Program, bo
  <2>2. CASE ~Reuse(t)
    BY <1>1, <2>2, LoadChains DEF npu_matmul_raw
  <2>3. QED
    BY <2>1, <2>2
<1>2. CASE MatmulRawFails \/ npu_matmul_close \/ npu_mm_cache_close
  BY <1>2, ShutChains DEF MatmulRawFails, npu_matmul_close, npu_mm_cache_close
<1>3. ASSUME NEW t \in DOMAIN Templates, npu_mm_cache_setup(t)
      PROVE  ChainInv'
  <2>1. \A e \in io1' : e[2] \in Words
    BY <1>3 DEF npu_mm_cache_setup
  <2>2. QED
    BY <1>3, <2>1, LoadChains DEF npu_mm_cache_setup
<1>4. ASSUME NEW i \in DOMAIN win, NEW w \in Ws, npu_mm_cache_load(i, w)
      PROVE  ChainInv'
  BY <1>4, SameChains DEF npu_mm_cache_load, Program, bo
<1>5. ASSUME NEW i \in DOMAIN win, NEW x \in Xs,
             npu_mm_cache_run(i, x) \/ npu_mm_cache_run_bias(i, x)
      PROVE  ChainInv'
  BY <1>5, RepointedChains DEF npu_mm_cache_run, npu_mm_cache_run_bias
<1>6. ASSUME NEW x \in Xs, NEW w \in Ws,
             \/ \E n \in Fillers, t \in DOMAIN Templates : npu_test_reach(n, t, x, w)
             \/ \E n \in Extras, t \in DOMAIN Templates : npu_test_wbelow(n, t, x, w)
             \/ \E r \in LowRoles : npu_test_bo_low(r, x, w)
             \/ npu_test_coexist(x, w) \/ npu_test_crossfd(x, w) \/ npu_test_coldpath(x, w)
      PROVE  ChainInv'
  <2>1. PICK t \in DOMAIN Templates : \E at, exists, wbo : Probe(t, at, exists, wbo, x, w)
    BY <1>6, ConstantAssumption
       DEF ConstantAssumption, npu_test_reach, npu_test_wbelow, npu_test_bo_low,
           npu_test_coexist, npu_test_crossfd, npu_test_coldpath
  <2>2. PICK at, exists, wbo : Probe(t, at, exists, wbo, x, w)
    BY <2>1
  <2>3. QED
    BY <2>2, LoadChains DEF Probe
<1>7. CASE NpuBlock
  BY <1>7, SameChains DEF NpuBlock, Program, bo
<1>8. CASE SubmitDone \/ SubmitFails
  BY <1>8, SameChains, ShutChains DEF SubmitDone, SubmitFails, Program, bo
<1>9. CASE UNCHANGED vars
  BY <1>9, SameChains DEF vars, Program, bo
<1>10. QED
  BY <1>1, <1>2, <1>3, <1>4, <1>5, <1>6, <1>7, <1>8, <1>9 DEF Next

LEMMA ChainInvGivesTable == ChainInv => ChainFollowsTable
<1> SUFFICES ASSUME ChainInv, open # "closed", NEW i \in DOMAIN tk
             PROVE  \E b \in DOMAIN rc :
                      /\ tk[i] = lo[REGCMD] + T(tpl).regcmd_tmpl[b].at
                      /\ IF i % T(tpl).count = 0 THEN "next" \notin DOMAIN rc[b]
                         ELSE "next" \in DOMAIN rc[b] /\ rc[b]["next"] = tk[i + 1]
  BY DEF ChainFollowsTable
<1> DEFINE p == T(tpl)
<1>1. /\ tpl \in DOMAIN Templates
      /\ DOMAIN tk = DOMAIN p.task_tmpl
      /\ \A j \in DOMAIN p.task_tmpl : tk[j] = Moved(p.task_tmpl[j])
      /\ DOMAIN rc = DOMAIN p.regcmd_tmpl
  BY DEF ChainInv
<1>2. PICK b \in DOMAIN p.regcmd_tmpl :
         /\ p.cap[REGCMD] \in Int /\ p.regcmd_tmpl[b].at \in Int
         /\ p.task_tmpl[i] = p.cap[REGCMD] + p.regcmd_tmpl[b].at
         /\ Within(p.task_tmpl[i], p.cap[REGCMD], p.sz[REGCMD])
         /\ IF i % p.count = 0 THEN "next" \notin DOMAIN p.regcmd_tmpl[b].words
            ELSE /\ "next" \in DOMAIN p.regcmd_tmpl[b].words
                 /\ i + 1 \in DOMAIN p.task_tmpl
                 /\ p.regcmd_tmpl[b].words["next"] = p.task_tmpl[i + 1]
  BY <1>1, TemplateAssumption DEF TemplateAssumption, T
<1>3. tk[i] = lo[REGCMD] + p.regcmd_tmpl[b].at
  <2>1. p.task_tmpl[i] - p.cap[REGCMD] = p.regcmd_tmpl[b].at
    BY <1>2
  <2>2. tk[i] = lo[REGCMD] + (p.task_tmpl[i] - p.cap[REGCMD])
    BY <1>1, <1>2 DEF Moved
  <2>3. QED
    BY <2>1, <2>2
<1>4. CASE i % p.count = 0
  BY <1>1, <1>2, <1>3, <1>4 DEF ChainInv
<1>5. CASE i % p.count # 0
  <2>1. "next" \in DOMAIN rc[b] /\ rc[b]["next"] = Moved(p.task_tmpl[i + 1])
    BY <1>1, <1>2, <1>5 DEF ChainInv
  <2>2. QED
    BY <1>1, <1>2, <1>3, <1>5, <2>1
<1>6. QED
  BY <1>4, <1>5

\* However the BOs lie and whatever was called, the NPU that follows the chain
\* words meets the blocks of the task table in their order.
THEOREM ChainTheorem == Spec => []ChainFollowsTable
<1>1. Init => ChainInv
  BY DEF Init, ChainInv
<1>2. QED
  BY <1>1, ChainStep, ChainInvGivesTable, PTL DEF Spec

(***************************************************************************)
(* The words of a slot.                                                    *)
(***************************************************************************)
First == OUTPUT + 1

\* What CaptureAssumption says of one program.
LEMMA CaptureIs ==
    ASSUME NEW t \in DOMAIN Templates, NEW at, at = WithExtra(t, NSlots)
    PROVE  /\ T(t).cap \in [1 .. OUTPUT -> Int] /\ T(t).sz \in [1 .. OUTPUT -> Nat]
           /\ at \in [1 .. OUTPUT + NSlots -> Int]
           /\ Disjoint(T(t).cap, T(t).sz) /\ Disjoint(at, SizesWith(t, NSlots))
           /\ IsFiniteSet(SlotWords(t)) /\ Cardinality(SlotWords(t)) <= 32
           /\ \A b \in DOMAIN Blocks(t) : \A r \in Words \cap DOMAIN Blocks(t)[b] :
                  /\ Blocks(t)[b][r] \in Int
                  /\ Windows(Blocks(t)[b][r], T(t).cap, T(t).sz) = {} =>
                         ~Within(Blocks(t)[b][r], at[First], T(t).sz[WEIGHTS])
  BY CaptureAssumption DEF T, First

\* The BO of the first slot has the size of W.
LEMMA SizesAre ==
    ASSUME NEW t \in DOMAIN Templates, NEW n, n = OUTPUT
    PROVE  /\ \A q \in 1 .. n : SizesWith(t, NSlots)[q] = T(t).sz[q]
           /\ SizesWith(t, NSlots)[n + 1] = T(t).sz[WEIGHTS]
<1> DEFINE s == T(t).sz
           x == [i \in 1 .. NSlots |-> s[WEIGHTS]]
<1>1. s \in [1 .. n -> Nat] /\ NSlots \in Nat \ {0}
  BY CaptureIs, ConstantAssumption
<1>2. x = [i \in 1 .. NSlots |-> s[WEIGHTS]] /\ SizesWith(t, NSlots) = s \o x
  BY DEF SizesWith
<1> HIDE DEF s, x
<1>3. n \in Roles /\ WEIGHTS <= n
  BY DEF Roles, OUTPUT, WEIGHTS
<1>4. /\ \A q \in 1 .. n : (s \o x)[q] = s[q]
      /\ (s \o x)[n + 1] = s[WEIGHTS]
  <2>1. \A m \in Roles : WEIGHTS <= m =>
           \A z \in [1 .. m -> Nat] : \A j \in Nat \ {0} : \A y :
               y = [i \in 1 .. j |-> z[WEIGHTS]] =>
                   /\ \A q \in 1 .. m : (z \o y)[q] = z[q]
                   /\ (z \o y)[m + 1] = z[WEIGHTS]
    BY SizesBelow
  <2>2. \A z \in [1 .. n -> Nat] : \A j \in Nat \ {0} : \A y :
           y = [i \in 1 .. j |-> z[WEIGHTS]] =>
               /\ \A q \in 1 .. n : (z \o y)[q] = z[q]
               /\ (z \o y)[n + 1] = z[WEIGHTS]
    BY <1>3, <2>1
  <2>3. \A y : y = [i \in 1 .. NSlots |-> s[WEIGHTS]] =>
               /\ \A q \in 1 .. n : (s \o y)[q] = s[q]
               /\ (s \o y)[n + 1] = s[WEIGHTS]
    BY <1>1, <2>2
  <2>4. x = [i \in 1 .. NSlots |-> s[WEIGHTS]]
    BY <1>2
  <2>5. QED
    BY <2>3, <2>4
<1>5. QED
  BY <1>2, <1>4 DEF s

\* Patched, a word lies in the first slot exactly if the capture had it in W.
LEMMA WordInSlot ==
    ASSUME NEW t \in DOMAIN Templates, NEW at, at = WithExtra(t, NSlots),
           NEW my, my = [q \in 1 .. OUTPUT |-> IF q = WEIGHTS THEN at[First] ELSE at[q]],
           NEW b \in DOMAIN Blocks(t), NEW r \in Words \cap DOMAIN Blocks(t)[b]
    PROVE  /\ Repoint(Blocks(t)[b][r], T(t).cap, my, T(t).sz) \in Int
           /\ at[First] \in Int
           /\ Within(Repoint(Blocks(t)[b][r], T(t).cap, my, T(t).sz), at[First], T(t).sz[WEIGHTS])
                <=> Within(Blocks(t)[b][r], T(t).cap[WEIGHTS], T(t).sz[WEIGHTS])
<1> DEFINE a == Blocks(t)[b][r]
           cap == T(t).cap
           sz == T(t).sz
           all == SizesWith(t, NSlots)
           n == OUTPUT
           k == First
           w == WEIGHTS
<1>1. /\ cap \in [1 .. n -> Int] /\ sz \in [1 .. n -> Nat] /\ Disjoint(cap, sz)
      /\ at \in [1 .. n + NSlots -> Int] /\ Disjoint(at, all)
      /\ a \in Int /\ (Windows(a, cap, sz) = {} => ~Within(a, at[k], sz[w]))
  BY CaptureIs
<1>2. /\ \A q \in 1 .. n : all[q] = sz[q]
      /\ all[n + 1] = sz[w]
  BY SizesAre
<1>3. n \in Roles /\ w \in 1 .. n /\ k = n + 1
  BY DEF Roles, OUTPUT, WEIGHTS, First
<1>4. my = ToSlot(n, w, at, k)
  BY DEF ToSlot
<1> HIDE DEF a, cap, sz, all, n, k, w
<1>5. NSlots \in Nat \ {0} /\ n \in Nat
  BY <1>3, ConstantAssumption DEF Roles, OUTPUT
<1>6. /\ \A q \in 1 .. n : q \in DOMAIN at /\ at[q] \in Int /\ all[q] = sz[q]
      /\ k \in DOMAIN at /\ k \notin 1 .. n /\ at[k] \in Int /\ all[k] = sz[w]
  <2>1. DOMAIN at = 1 .. n + NSlots /\ \A q \in 1 .. n + NSlots : at[q] \in Int
    BY <1>1
  <2>2. (1 .. n) \subseteq 1 .. n + NSlots
    BY <1>5
  <2>3. k \in 1 .. n + NSlots /\ k \notin 1 .. n
    BY <1>3, <1>5
  <2>4. \A q \in 1 .. n : q \in DOMAIN at /\ at[q] \in Int
    BY <2>1, <2>2
  <2>5. all[k] = sz[w]
    BY <1>2, <1>3
  <2>6. QED
    BY <1>2, <2>1, <2>3, <2>4, <2>5
<1>7. HasSlot(n, cap, sz, w, at, all, k)
  BY <1>1, <1>3, <1>6 DEF HasSlot
<1>8. /\ Repoint(a, cap, ToSlot(n, w, at, k), sz) \in Int
      /\ Within(Repoint(a, cap, ToSlot(n, w, at, k), sz), at[k], sz[w])
           <=> Within(a, cap[w], sz[w])
  <2>1. a \in Int /\ (Windows(a, cap, sz) = {} => ~Within(a, at[k], sz[w]))
    BY <1>1
  <2>2. QED
    BY <1>7, <2>1, WordMovesToSlot
<1>9. QED
  BY <1>4, <1>6, <1>8 DEF a, cap, sz, k, w

\* What setup remembers of the words of a slot stays true: one entry for each of
\* them, and all of them point to the same slot, each at its own offset.
SlotInv ==
    open = "cache" =>
        /\ {<<e[1], e[2]>> : e \in io1} = SlotWords(tpl) /\ Cardinality(io1) <= 32
        /\ \A e, f \in io1 : e[1] = f[1] /\ e[2] = f[2] => e = f
        /\ \A e \in io1 : e[1] \in DOMAIN rc /\ e[2] \in DOMAIN rc[e[1]]
        /\ \E i \in DOMAIN win : \A e \in io1 : rc[e[1]][e[2]] = lo[i] + e[3]

LEMMA SetupFindsSlots ==
    ASSUME NEW t \in DOMAIN Templates, npu_mm_cache_setup(t)
    PROVE  SlotInv'
<1> DEFINE at == WithExtra(t, NSlots)
           my == [r \in 1 .. OUTPUT |-> IF r = WEIGHTS THEN at[First] ELSE at[r]]
           found == {p \in (DOMAIN rc') \X Words :
                        /\ p[2] \in DOMAIN rc'[p[1]]
                        /\ Within(rc'[p[1]][p[2]], at[First], T(t).sz[WEIGHTS])}
           entry == [p \in SlotWords(t) |-> <<p[1], p[2], rc'[p[1]][p[2]] - at[First]>>]
<1>1. /\ tpl' = t /\ lo' = at
      /\ rc' = patch_regcmd_tmpl(Blocks(t), T(t).cap, my, T(t).sz)
  BY DEF npu_mm_cache_setup, Load, First
<1>2. /\ io1' = {<<p[1], p[2], rc'[p[1]][p[2]] - at[First]>> : p \in found}
      /\ win' = [i \in First .. OUTPUT + NSlots |-> NoW]
  <2>1. Size(t, First) = T(t).sz[WEIGHTS]
    BY DEF Size, First, OUTPUT
  <2>2. QED
    BY <2>1 DEF npu_mm_cache_setup, First
<1>3. /\ DOMAIN rc' = DOMAIN Blocks(t)
      /\ \A b \in DOMAIN rc' : rc'[b] = PatchBlock(Blocks(t)[b], T(t).cap, my, T(t).sz)
  BY <1>1 DEF patch_regcmd_tmpl
<1>4. ASSUME NEW b \in DOMAIN Blocks(t), NEW r \in Words
      PROVE  /\ r \in DOMAIN rc'[b] <=> r \in DOMAIN Blocks(t)[b]
             /\ r \in DOMAIN rc'[b] =>
                  rc'[b][r] = Repoint(Blocks(t)[b][r], T(t).cap, my, T(t).sz)
  <2>1. r # "next"
    BY DEF Words
  <2>2. QED
    BY <1>3, <2>1 DEF PatchBlock
<1>5. ASSUME NEW b \in DOMAIN Blocks(t), NEW r \in Words, r \in DOMAIN Blocks(t)[b]
      PROVE  /\ rc'[b][r] \in Int /\ at[First] \in Int
             /\ Within(rc'[b][r], at[First], T(t).sz[WEIGHTS])
                  <=> Within(Blocks(t)[b][r], T(t).cap[WEIGHTS], T(t).sz[WEIGHTS])
  <2>1. rc'[b][r] = Repoint(Blocks(t)[b][r], T(t).cap, my, T(t).sz)
    BY <1>4, <1>5
  <2>2. at = WithExtra(t, NSlots) /\ r \in Words \cap DOMAIN Blocks(t)[b]
    BY <1>5
  <2> HIDE DEF at
  <2>3. my = [q \in 1 .. OUTPUT |-> IF q = WEIGHTS THEN at[First] ELSE at[q]]
    OBVIOUS
  <2> HIDE DEF my
  <2>4. QED
    BY <2>1, <2>2, <2>3, WordInSlot
<1> HIDE DEF at, my
<1>6. found = SlotWords(t)
  BY <1>3, <1>4, <1>5 DEF SlotWords
<1> HIDE DEF found
<1>7. \A p \in SlotWords(t) : /\ p = <<p[1], p[2]>> /\ p[1] \in DOMAIN rc'
                              /\ p[2] \in DOMAIN rc'[p[1]]
                              /\ rc'[p[1]][p[2]] \in Int
  <2> SUFFICES ASSUME NEW b \in DOMAIN Blocks(t), NEW r \in Words, r \in DOMAIN Blocks(t)[b]
               PROVE  b \in DOMAIN rc' /\ r \in DOMAIN rc'[b] /\ rc'[b][r] \in Int
    BY DEF SlotWords
  <2>1. QED
    BY <1>3, <1>4, <1>5
<1>8. at[First] \in Int
  <2>1. First \in 1 .. OUTPUT + NSlots
    BY ConstantAssumption DEF First, OUTPUT
  <2>2. QED
    BY <2>1, CaptureIs DEF at
<1>9. io1' = {<<p[1], p[2], rc'[p[1]][p[2]] - at[First]>> : p \in SlotWords(t)}
  BY <1>2, <1>6
<1>10. Cardinality(io1') <= 32
  <2>1. entry \in [SlotWords(t) -> io1'] /\ \A e \in io1' : \E p \in SlotWords(t) : entry[p] = e
    BY <1>9
  <2>2. entry \in Surjection(SlotWords(t), io1')
    BY <2>1 DEF Surjection
  <2>3. IsFiniteSet(SlotWords(t)) /\ Cardinality(SlotWords(t)) <= 32
    BY CaptureIs
  <2>4. Cardinality(io1') <= Cardinality(SlotWords(t)) /\ IsFiniteSet(io1')
    BY <2>2, <2>3, FS_Surjection
  <2>5. Cardinality(io1') \in Nat /\ Cardinality(SlotWords(t)) \in Nat
    BY <2>3, <2>4, FS_CardinalityType
  <2>6. QED
    BY <2>3, <2>4, <2>5
<1>11. {<<e[1], e[2]>> : e \in io1'} = SlotWords(t)
  <2>1. ASSUME NEW e \in io1' PROVE <<e[1], e[2]>> \in SlotWords(t)
    <3>1. PICK p \in SlotWords(t) : e = <<p[1], p[2], rc'[p[1]][p[2]] - at[First]>>
      BY <1>9
    <3>2. e[1] = p[1] /\ e[2] = p[2] /\ p = <<p[1], p[2]>>
      BY <1>7, <3>1
    <3>3. QED
      BY <3>2
  <2>2. ASSUME NEW p \in SlotWords(t) PROVE \E e \in io1' : p = <<e[1], e[2]>>
    <3>1. <<p[1], p[2], rc'[p[1]][p[2]] - at[First]>> \in io1' /\ p = <<p[1], p[2]>>
      BY <1>7, <1>9
    <3>2. QED
      BY <3>1
  <2>3. QED
    BY <2>1, <2>2
<1>12. \A e, f \in io1' : e[1] = f[1] /\ e[2] = f[2] => e = f
  BY <1>9
<1>13. \A e \in io1' : /\ e[1] \in DOMAIN rc' /\ e[2] \in DOMAIN rc'[e[1]]
                       /\ rc'[e[1]][e[2]] = at[First] + e[3]
  BY <1>7, <1>8, <1>9
<1>14. First \in DOMAIN win'
  BY <1>2, ConstantAssumption DEF First, OUTPUT
<1>15. QED
  BY <1>1, <1>10, <1>11, <1>12, <1>13, <1>14 DEF SlotInv

LEMMA RepointedSlots ==
    ASSUME SlotInv, NEW i \in DOMAIN win, NEW x, NEW z, CachedMatmul(i, x, z)
    PROVE  SlotInv'
<1>1. /\ open = "cache" /\ rc' = Io1Repointed(i)
      /\ UNCHANGED <<open, tpl, lo, io1, win>>
  BY DEF CachedMatmul, bo
<1>2. /\ {<<e[1], e[2]>> : e \in io1} = SlotWords(tpl) /\ Cardinality(io1) <= 32
      /\ \A e, f \in io1 : e[1] = f[1] /\ e[2] = f[2] => e = f
      /\ \A e \in io1 : e[1] \in DOMAIN rc /\ e[2] \in DOMAIN rc[e[1]]
  BY <1>1 DEF SlotInv
<1>3. DOMAIN rc' = DOMAIN rc /\ \A b \in DOMAIN rc : DOMAIN rc'[b] = DOMAIN rc[b]
  BY <1>1 DEF Io1Repointed
<1>4. ASSUME NEW e \in io1 PROVE rc'[e[1]][e[2]] = lo[i] + e[3]
  <2>1. (CHOOSE f \in io1 : f[1] = e[1] /\ f[2] = e[2]) = e
    BY <1>2
  <2>2. rc'[e[1]][e[2]] = lo[i] + (CHOOSE f \in io1 : f[1] = e[1] /\ f[2] = e[2])[3]
    BY <1>1, <1>2 DEF Io1Repointed
  <2>3. QED
    BY <2>1, <2>2
<1>5. QED
  BY <1>1, <1>2, <1>3, <1>4 DEF SlotInv

LEMMA SameSlots ==
    ASSUME SlotInv, UNCHANGED <<open, tpl, lo, io1, rc>>, DOMAIN win' = DOMAIN win
    PROVE  SlotInv'
  BY DEF SlotInv

LEMMA OtherSlots == ASSUME open' # "cache" PROVE SlotInv'
  BY DEF SlotInv

LEMMA SlotStep == SlotInv /\ [Next]_vars => SlotInv'
<1> SUFFICES ASSUME SlotInv, [Next]_vars PROVE SlotInv'
  OBVIOUS
<1>1. ASSUME NEW t \in DOMAIN Templates, NEW x \in Xs, NEW w \in Ws, npu_matmul_raw(t, x, w)
      PROVE  SlotInv'
  <2>1. open' = "raw"
    BY <1>1 DEF npu_matmul_raw, Load, Reuse, bo
  <2>2. QED
    BY <2>1, OtherSlots
<1>2. CASE MatmulRawFails \/ npu_matmul_close \/ npu_mm_cache_close
  BY <1>2, OtherSlots DEF MatmulRawFails, npu_matmul_close, npu_mm_cache_close, Shut
<1>3. ASSUME NEW t \in DOMAIN Templates, npu_mm_cache_setup(t)
      PROVE  SlotInv'
  BY <1>3, SetupFindsSlots
<1>4. ASSUME NEW i \in DOMAIN win, NEW w \in Ws, npu_mm_cache_load(i, w)
      PROVE  SlotInv'
  BY <1>4, SameSlots DEF npu_mm_cache_load, bo
<1>5. ASSUME NEW i \in DOMAIN win, NEW x \in Xs,
             npu_mm_cache_run(i, x) \/ npu_mm_cache_run_bias(i, x)
      PROVE  SlotInv'
  BY <1>5, RepointedSlots DEF npu_mm_cache_run, npu_mm_cache_run_bias
<1>6. ASSUME NEW x \in Xs, NEW w \in Ws,
             \/ \E n \in Fillers, t \in DOMAIN Templates : npu_test_reach(n, t, x, w)
             \/ \E n \in Extras, t \in DOMAIN Templates : npu_test_wbelow(n, t, x, w)
             \/ \E r \in LowRoles : npu_test_bo_low(r, x, w)
             \/ npu_test_coexist(x, w) \/ npu_test_crossfd(x, w) \/ npu_test_coldpath(x, w)
      PROVE  SlotInv'
  <2>1. open' = "probe"
    BY <1>6 DEF npu_test_reach, npu_test_wbelow, npu_test_bo_low, npu_test_coexist,
                npu_test_crossfd, npu_test_coldpath, Probe, Load
  <2>2. QED
    BY <2>1, OtherSlots
<1>7. CASE NpuBlock
  BY <1>7, SameSlots DEF NpuBlock, bo
<1>8. CASE SubmitDone \/ SubmitFails
  BY <1>8, SameSlots, OtherSlots DEF SubmitDone, SubmitFails, Shut, bo
<1>9. CASE UNCHANGED vars
  BY <1>9, SameSlots DEF vars, bo
<1>10. QED
  BY <1>1, <1>2, <1>3, <1>4, <1>5, <1>6, <1>7, <1>8, <1>9 DEF Next

\* The weight cache repoints the words that the capture had in W and no others,
\* however its BOs lie, and after any calls all of them point to one slot.
THEOREM SlotsFound == Spec => []SlotWordsFound
<1>1. Init => SlotInv
  BY DEF Init, SlotInv
<1>2. SlotInv => SlotWordsFound
  BY DEF SlotInv, SlotWordsFound
<1>3. QED
  BY <1>1, <1>2, SlotStep, PTL DEF Spec

(***************************************************************************)
(* The bytes of a region that a set of pieces holds (Covered).             *)
(***************************************************************************)

LEMMA Least ==
    ASSUME NEW S, S \in SUBSET Nat, S # {}
    PROVE  \E x \in S : \A y \in S : x <= y
<1> DEFINE R == OpToRel(<, Nat)
<1>1. IsWellFoundedOn(R, Nat)
  BY NatLessThanWellFounded
<1>2. R = {ss \in Nat \X Nat : ss[1] < ss[2]}
  BY DEF OpToRel
<1> HIDE DEF R
<1>3. PICK x \in S : \A y \in S : ~ (<<y, x>> \in R)
  BY <1>1, WFMin
<1>4. ASSUME NEW y \in S PROVE x <= y
  <2>1. x \in Nat /\ y \in Nat
    OBVIOUS
  <2>2. ~(y < x)
    BY <1>2, <1>3, <2>1
  <2>3. QED
    BY <2>1, <2>2
<1>5. QED
  BY <1>4

LEMMA Induct ==
    ASSUME NEW n \in Nat, NEW S, 0 \in S, \A i \in 0 .. n - 1 : i \in S => i + 1 \in S
    PROVE  n \in S
<1> DEFINE R == {i \in 0 .. n : i \notin S}
<1>1. R \in SUBSET Nat
  OBVIOUS
<1>2. ASSUME R # {} PROVE FALSE
  <2>1. PICK x \in R : \A y \in R : x <= y
    BY <1>1, <1>2, Least
  <2>2. x # 0 /\ x \in 0 .. n /\ x \notin S
    OBVIOUS
  <2>3. x - 1 \in S
    BY <2>1, <2>2
  <2>4. QED
    BY <2>2, <2>3, <2>1
<1>3. QED
  BY <1>2

\* The recursive function that Covered is defined by.
Some(s) == CHOOSE x \in s : TRUE
Sums(S, r, at, it) ==
    it = [s \in SUBSET S |-> IF s = {} THEN 0 ELSE Common(Some(s), r, at) + it[s \ {Some(s)}]]
SumsUpTo(S, r, at, n, it) ==
    it = [s \in {z \in SUBSET S : Cardinality(z) <= n} |->
             IF s = {} THEN 0 ELSE Common(Some(s), r, at) + it[s \ {Some(s)}]]

LEMMA SomeIn == ASSUME NEW s, s # {} PROVE Some(s) \in s
  BY DEF Some

LEMMA Smaller ==
    ASSUME NEW S, IsFiniteSet(S), NEW s \in SUBSET S, NEW x \in s
    PROVE  /\ IsFiniteSet(s) /\ Cardinality(s) \in Nat /\ Cardinality(s) # 0
           /\ s \ {x} \in SUBSET S /\ Cardinality(s \ {x}) = Cardinality(s) - 1
<1>1. IsFiniteSet(s)
  BY FS_Subset
<1>2. QED
  BY <1>1, FS_CardinalityType, FS_RemoveElement, FS_EmptySet

LEMMA SumsUpToExist ==
    ASSUME NEW S, IsFiniteSet(S), NEW r, NEW at, NEW n \in Nat
    PROVE  \E it : SumsUpTo(S, r, at, n, it)
<1> DEFINE Good == {i \in Nat : \E it : SumsUpTo(S, r, at, i, it)}
<1>1. 0 \in Good
  <2> DEFINE it == [s \in {z \in SUBSET S : Cardinality(z) <= 0} |-> 0]
  <2>1. ASSUME NEW s \in SUBSET S, Cardinality(s) <= 0 PROVE s = {}
    <3>1. IsFiniteSet(s) /\ Cardinality(s) \in Nat
      BY FS_Subset, FS_CardinalityType
    <3>2. Cardinality(s) = 0
      BY <2>1, <3>1
    <3>3. QED
      BY <3>1, <3>2, FS_EmptySet
  <2>2. SumsUpTo(S, r, at, 0, it)
    BY <2>1 DEF SumsUpTo
  <2>3. QED
    BY <2>2
<1>2. ASSUME NEW i \in 0 .. n - 1, i \in Good PROVE i + 1 \in Good
  <2>1. PICK it : SumsUpTo(S, r, at, i, it)
    BY <1>2
  <2> DEFINE new == [s \in {z \in SUBSET S : Cardinality(z) <= i + 1} |->
                        IF s = {} THEN 0 ELSE Common(Some(s), r, at) + it[s \ {Some(s)}]]
  <2>2. ASSUME NEW s \in SUBSET S, Cardinality(s) <= i PROVE new[s] = it[s]
    <3>0. Cardinality(s) \in Nat /\ i \in Nat
      BY FS_Subset, FS_CardinalityType
    <3>1. new[s] = IF s = {} THEN 0 ELSE Common(Some(s), r, at) + it[s \ {Some(s)}]
      BY <2>2, <3>0
    <3>2. it[s] = IF s = {} THEN 0 ELSE Common(Some(s), r, at) + it[s \ {Some(s)}]
      BY <2>1, <2>2 DEF SumsUpTo
    <3>3. QED
      BY <3>1, <3>2
  <2>3. ASSUME NEW s \in SUBSET S, Cardinality(s) <= i + 1, s # {}
        PROVE  new[s \ {Some(s)}] = it[s \ {Some(s)}]
    <3>1. s \ {Some(s)} \in SUBSET S /\ Cardinality(s \ {Some(s)}) = Cardinality(s) - 1
          /\ Cardinality(s) \in Nat
      BY <2>3, SomeIn, Smaller
    <3>2. Cardinality(s \ {Some(s)}) <= i
      BY <2>3, <3>1
    <3> HIDE DEF new
    <3>3. QED
      BY <2>2, <3>1, <3>2
  <2>4. new = [s \in {z \in SUBSET S : Cardinality(z) <= i + 1} |->
                  IF s = {} THEN 0 ELSE Common(Some(s), r, at) + new[s \ {Some(s)}]]
    BY <2>3, Zenon
  <2> HIDE DEF new
  <2>5. SumsUpTo(S, r, at, i + 1, new)
    BY <2>4, Zenon DEF SumsUpTo
  <2>6. QED
    BY <2>5
<1> HIDE DEF Good
<1>3. n \in Good
  BY <1>1, <1>2, Induct
<1>4. QED
  BY <1>3 DEF Good

LEMMA SumsExist ==
    ASSUME NEW S, IsFiniteSet(S), NEW r, NEW at
    PROVE  \E it : Sums(S, r, at, it)
<1>1. Cardinality(S) \in Nat
  BY FS_CardinalityType
<1>2. PICK it : SumsUpTo(S, r, at, Cardinality(S), it)
  BY <1>1, SumsUpToExist
<1>3. {z \in SUBSET S : Cardinality(z) <= Cardinality(S)} = SUBSET S
  BY FS_Subset
<1>4. Sums(S, r, at, it)
  BY <1>2, <1>3, Zenon DEF Sums, SumsUpTo
<1>5. QED
  BY <1>4

LEMMA CoveredIs ==
    ASSUME NEW S, IsFiniteSet(S), NEW r, NEW at
    PROVE  \E it : Sums(S, r, at, it) /\ Covered(S, r, at) = it[S]
<1> DEFINE it == CHOOSE it : Sums(S, r, at, it)
<1>1. Sums(S, r, at, it)
  BY SumsExist, Zenon
<1>2. Covered(S, r, at) = (CHOOSE f : f = [s \in SUBSET S |->
          IF s = {} THEN 0 ELSE Common(CHOOSE x \in s : TRUE, r, at) + f[s \ {CHOOSE x \in s : TRUE}]])[S]
  BY DEF Covered, MapThenSumSet, MapThenFoldSet
<1>3. Covered(S, r, at) = it[S]
  BY <1>2, Zenon DEF Sums, Some
<1>4. QED
  BY <1>1, <1>3, Zenon

\* The sums over the subsets of S and of a part of S are the same.
LEMMA SumsAgree ==
    ASSUME NEW S, IsFiniteSet(S), NEW P \in SUBSET S, NEW r, NEW at,
           NEW it, Sums(S, r, at, it), NEW jt, Sums(P, r, at, jt)
    PROVE  it[P] = jt[P]
<1> DEFINE Good == {i \in Nat : \A s \in SUBSET P : Cardinality(s) = i => it[s] = jt[s]}
<1>0. IsFiniteSet(P) /\ Cardinality(P) \in Nat
  BY FS_Subset, FS_CardinalityType
<1>1. 0 \in Good
  <2>1. ASSUME NEW s \in SUBSET P, Cardinality(s) = 0 PROVE it[s] = jt[s]
    <3>1. s = {}
      BY <1>0, <2>1, Smaller
    <3>2. QED
      BY <3>1 DEF Sums
  <2>2. QED
    BY <2>1
<1>2. ASSUME NEW i \in 0 .. Cardinality(P) - 1, i \in Good PROVE i + 1 \in Good
  <2>1. ASSUME NEW s \in SUBSET P, Cardinality(s) = i + 1 PROVE it[s] = jt[s]
    <3>1. s # {}
      BY <2>1, FS_EmptySet
    <3>2. s \ {Some(s)} \in SUBSET P /\ Cardinality(s \ {Some(s)}) = i
      <4>1. Some(s) \in s
        BY <3>1, SomeIn
      <4>2. s \ {Some(s)} \in SUBSET P /\ Cardinality(s \ {Some(s)}) = Cardinality(s) - 1
        BY <1>0, <4>1, Smaller
      <4>3. QED
        BY <2>1, <4>2
    <3>3. it[s \ {Some(s)}] = jt[s \ {Some(s)}]
      BY <1>2, <3>2
    <3>4. it[s] = Common(Some(s), r, at) + it[s \ {Some(s)}]
      BY <3>1 DEF Sums
    <3>5. jt[s] = Common(Some(s), r, at) + jt[s \ {Some(s)}]
      BY <3>1 DEF Sums
    <3>6. QED
      BY <3>3, <3>4, <3>5
  <2>2. QED
    BY <2>1
<1> HIDE DEF Good
<1>3. Cardinality(P) \in Good
  BY <1>0, <1>1, <1>2, Induct
<1>4. QED
  BY <1>3 DEF Good

LEMMA CoveredNone == ASSUME NEW r, NEW at PROVE Covered({}, r, at) = 0
<1>1. PICK it : Sums({}, r, at, it) /\ Covered({}, r, at) = it[{}]
  BY FS_EmptySet, CoveredIs
<1>2. QED
  BY <1>1 DEF Sums

LEMMA CoveredSome ==
    ASSUME NEW S, IsFiniteSet(S), S # {}, NEW r, NEW at
    PROVE  Covered(S, r, at) = Common(Some(S), r, at) + Covered(S \ {Some(S)}, r, at)
<1> DEFINE P == S \ {Some(S)}
<1>0. P \in SUBSET S /\ IsFiniteSet(P)
  BY FS_Subset
<1>1. PICK it : Sums(S, r, at, it) /\ Covered(S, r, at) = it[S]
  BY CoveredIs
<1>2. PICK jt : Sums(P, r, at, jt) /\ Covered(P, r, at) = jt[P]
  BY <1>0, CoveredIs
<1>3. it[P] = jt[P]
  BY <1>0, <1>1, <1>2, SumsAgree
<1>4. it[S] = Common(Some(S), r, at) + it[P]
  BY <1>1 DEF Sums
<1>5. QED
  BY <1>1, <1>2, <1>3, <1>4

\* The pieces of S share whole numbers of bytes with r.
Countable(S, r, at) == IsFiniteSet(S) /\ \A p \in S : Common(p, r, at) \in Int

LEMMA CountableParts ==
    ASSUME NEW S, NEW r, NEW at, Countable(S, r, at), NEW P \in SUBSET S
    PROVE  Countable(P, r, at)
  BY FS_Subset DEF Countable

LEMMA CoveredInt ==
    ASSUME NEW S, NEW r, NEW at, Countable(S, r, at)
    PROVE  Covered(S, r, at) \in Int
<1> DEFINE Good == {i \in Nat : \A s \in SUBSET S : Cardinality(s) = i => Covered(s, r, at) \in Int}
<1>0. IsFiniteSet(S) /\ Cardinality(S) \in Nat
  BY FS_CardinalityType DEF Countable
<1>1. 0 \in Good
  <2>1. ASSUME NEW s \in SUBSET S, Cardinality(s) = 0 PROVE Covered(s, r, at) \in Int
    <3>1. s = {}
      BY <1>0, <2>1, Smaller
    <3>2. QED
      BY <3>1, CoveredNone
  <2>2. QED
    BY <2>1
<1>2. ASSUME NEW i \in 0 .. Cardinality(S) - 1, i \in Good PROVE i + 1 \in Good
  <2>1. ASSUME NEW s \in SUBSET S, Cardinality(s) = i + 1 PROVE Covered(s, r, at) \in Int
    <3>1. s # {} /\ IsFiniteSet(s)
      BY <1>0, <2>1, FS_EmptySet, FS_Subset
    <3>2. s \ {Some(s)} \in SUBSET S /\ Cardinality(s \ {Some(s)}) = i /\ Some(s) \in S
      <4>1. Some(s) \in s
        BY <3>1, SomeIn
      <4>2. s \ {Some(s)} \in SUBSET S /\ Cardinality(s \ {Some(s)}) = Cardinality(s) - 1
        BY <1>0, <4>1, Smaller
      <4>3. QED
        BY <2>1, <4>1, <4>2
    <3>3. Covered(s \ {Some(s)}, r, at) \in Int
      BY <1>2, <3>2
    <3>4. Covered(s, r, at) = Common(Some(s), r, at) + Covered(s \ {Some(s)}, r, at)
      BY <3>1, CoveredSome
    <3>5. Common(Some(s), r, at) \in Int
      BY <3>2 DEF Countable
    <3>6. QED
      BY <3>3, <3>4, <3>5
  <2>2. QED
    BY <2>1
<1> HIDE DEF Good
<1>3. Cardinality(S) \in Good
  BY <1>0, <1>1, <1>2, Induct
<1>4. QED
  BY <1>3 DEF Good

\* Any piece may be counted first.
LEMMA CoveredRemove ==
    ASSUME NEW S, NEW r, NEW at, Countable(S, r, at), NEW q \in S
    PROVE  Covered(S, r, at) = Common(q, r, at) + Covered(S \ {q}, r, at)
<1> DEFINE C(P) == Covered(P, r, at)
           c(p) == Common(p, r, at)
           First1(s) == \A p \in s : C(s) = c(p) + C(s \ {p})
           Good == {i \in Nat : \A s \in SUBSET S : Cardinality(s) = i => First1(s)}
<1>0. IsFiniteSet(S) /\ Cardinality(S) \in Nat
  BY FS_CardinalityType DEF Countable
<1>1. 0 \in Good
  <2>1. ASSUME NEW s \in SUBSET S, Cardinality(s) = 0 PROVE First1(s)
    <3>1. s = {}
      BY <1>0, <2>1, Smaller
    <3>2. QED
      BY <3>1
  <2>2. QED
    BY <2>1
<1>2. ASSUME NEW i \in 0 .. Cardinality(S) - 1, i \in Good PROVE i + 1 \in Good
  <2>1. ASSUME NEW s \in SUBSET S, Cardinality(s) = i + 1, NEW p \in s PROVE C(s) = c(p) + C(s \ {p})
    <3> DEFINE x == Some(s)
    <3>1. s # {} /\ IsFiniteSet(s)
      BY <1>0, FS_Subset
    <3>2. x \in s
      BY <3>1, SomeIn
    <3>3. C(s) = c(x) + C(s \ {x})
      BY <3>1, CoveredSome
    <3> HIDE DEF x
    <3>4. \A y \in s : s \ {y} \in SUBSET S /\ Cardinality(s \ {y}) = i
      BY <1>0, <2>1, Smaller
    <3>5. CASE p = x
      BY <3>3, <3>5
    <3>6. CASE p # x
      <4>1. (s \ {p}) \ {x} = (s \ {x}) \ {p}
        OBVIOUS
      <4>2. C(s \ {x}) = c(p) + C((s \ {x}) \ {p})
        <5>1. First1(s \ {x})
          BY <1>2, <3>2, <3>4
        <5>2. QED
          BY <5>1, <3>6
      <4>3. C(s \ {p}) = c(x) + C((s \ {x}) \ {p})
        <5>1. First1(s \ {p})
          BY <1>2, <3>4
        <5>2. QED
          BY <5>1, <3>2, <3>6, <4>1
      <4>4. C((s \ {x}) \ {p}) \in Int
        <5>1. Countable((s \ {x}) \ {p}, r, at)
          BY CountableParts
        <5>2. QED
          BY <5>1, CoveredInt
      <4>5. c(p) \in Int /\ c(x) \in Int
        BY <3>2 DEF Countable
      <4> HIDE DEF C, c
      <4>6. QED
        BY <3>3, <4>2, <4>3, <4>4, <4>5
    <3>7. QED
      BY <3>5, <3>6
  <2>2. QED
    BY <2>1
<1> HIDE DEF Good
<1>3. Cardinality(S) \in Good
  BY <1>0, <1>1, <1>2, Induct
<1>4. First1(S)
  BY <1>3 DEF Good
<1>5. QED
  BY <1>4

\* B holds of r what A holds: a copy of each piece of A, and nothing else of r.
Copies(A, B, f, r, at) ==
    /\ Countable(A, r, at) /\ Countable(B, r, at)
    /\ \A p \in A : f[p] \in B /\ Common(f[p], r, at) = Common(p, r, at)
    /\ \A p, q \in A : f[p] = f[q] => p = q
    /\ \A q \in B : (\E p \in A : q = f[p]) \/ Common(q, r, at) = 0

LEMMA CoveredSame ==
    ASSUME NEW A, NEW B, NEW f, NEW r, NEW at, Copies(A, B, f, r, at)
    PROVE  Covered(B, r, at) = Covered(A, r, at)
<1> DEFINE Same(P, Q) == Copies(P, Q, f, r, at) => Covered(Q, r, at) = Covered(P, r, at)
           Good == {i \in Nat : \A Q \in SUBSET B : Cardinality(Q) = i => \A P \in SUBSET A : Same(P, Q)}
<1>0. /\ IsFiniteSet(B) /\ Cardinality(B) \in Nat
      /\ \A Q \in SUBSET B : IsFiniteSet(Q) /\ Countable(Q, r, at)
      /\ \A P \in SUBSET A : IsFiniteSet(P) /\ Countable(P, r, at)
  BY FS_CardinalityType, CountableParts DEF Countable, Copies
<1>1. 0 \in Good
  <2>1. ASSUME NEW Q \in SUBSET B, Cardinality(Q) = 0, NEW P \in SUBSET A, Copies(P, Q, f, r, at)
        PROVE  Covered(Q, r, at) = Covered(P, r, at)
    <3>1. Q = {}
      BY <1>0, <2>1, Smaller
    <3>2. P = {}
      BY <2>1, <3>1 DEF Copies
    <3>3. QED
      BY <3>1, <3>2
  <2>2. QED
    BY <2>1
<1>2. ASSUME NEW i \in 0 .. Cardinality(B) - 1, i \in Good PROVE i + 1 \in Good
  <2>1. ASSUME NEW Q \in SUBSET B, Cardinality(Q) = i + 1, NEW P \in SUBSET A, Copies(P, Q, f, r, at)
        PROVE  Covered(Q, r, at) = Covered(P, r, at)
    <3>1. PICK q \in Q : TRUE
      BY <1>0, <2>1, FS_EmptySet
    <3>2. Q \ {q} \in SUBSET B /\ Cardinality(Q \ {q}) = i /\ Countable(Q \ {q}, r, at)
      BY <1>0, <2>1, Smaller
    <3>3. Covered(Q, r, at) = Common(q, r, at) + Covered(Q \ {q}, r, at)
      BY <1>0, CoveredRemove
    <3>4. ASSUME NEW p \in P, q = f[p] PROVE Covered(Q, r, at) = Covered(P, r, at)
      <4>1. Covered(P, r, at) = Common(p, r, at) + Covered(P \ {p}, r, at)
        BY <1>0, CoveredRemove
      <4>2. Copies(P \ {p}, Q \ {q}, f, r, at)
        <5>1. Countable(P \ {p}, r, at)
          BY <1>0
        <5>2. \A y \in P \ {p} : f[y] \in Q \ {q} /\ Common(f[y], r, at) = Common(y, r, at)
          BY <2>1, <3>4 DEF Copies
        <5>3. \A y \in Q \ {q} : (\E x \in P \ {p} : y = f[x]) \/ Common(y, r, at) = 0
          BY <2>1, <3>4 DEF Copies
        <5>4. QED
          BY <2>1, <3>2, <5>1, <5>2, <5>3 DEF Copies
      <4>3. Covered(Q \ {q}, r, at) = Covered(P \ {p}, r, at)
        <5>1. P \ {p} \in SUBSET A
          OBVIOUS
        <5>2. QED
          BY <1>2, <3>2, <4>2, <5>1
      <4>4. Common(q, r, at) = Common(p, r, at)
        BY <2>1, <3>4 DEF Copies
      <4>5. QED
        BY <3>3, <4>1, <4>3, <4>4
    <3>5. ASSUME \A p \in P : q # f[p] PROVE Covered(Q, r, at) = Covered(P, r, at)
      <4>1. Common(q, r, at) = 0
        BY <2>1, <3>5 DEF Copies
      <4>2. Copies(P, Q \ {q}, f, r, at)
        BY <2>1, <3>2, <3>5 DEF Copies
      <4>3. Covered(Q \ {q}, r, at) = Covered(P, r, at)
        BY <1>2, <3>2, <4>2
      <4>4. Covered(Q \ {q}, r, at) \in Int
        BY <3>2, CoveredInt
      <4>5. QED
        BY <3>3, <4>1, <4>3, <4>4
    <3>6. QED
      BY <3>4, <3>5
  <2>2. QED
    BY <2>1
<1> HIDE DEF Good
<1>3. Cardinality(B) \in Good
  BY <1>0, <1>1, <1>2, Induct
<1>4. Same(A, B)
  BY <1>3 DEF Good
<1>5. QED
  BY <1>4

(***************************************************************************)
(* Where the BOs lie (Place).                                              *)
(***************************************************************************)

\* The tops of the BOs of sizes sz, one below the other.
Bases(n, sz, used, base) ==
    base = [i \in 0 .. n |-> IF i = 0 THEN -used ELSE base[i - 1] - sz[i]]

LEMMA BasesExist ==
    ASSUME NEW n \in Nat, NEW sz, NEW used
    PROVE  \E base : Bases(n, sz, used, base)
<1> DEFINE Good == {i \in Nat : \E base : Bases(i, sz, used, base)}
<1>1. 0 \in Good
  <2> DEFINE base == [i \in 0 .. 0 |-> -used]
  <2>1. Bases(0, sz, used, base)
    BY DEF Bases
  <2>2. QED
    BY <2>1
<1>2. ASSUME NEW j \in 0 .. n - 1, j \in Good PROVE j + 1 \in Good
  <2>1. PICK base : Bases(j, sz, used, base)
    BY <1>2
  <2> DEFINE new == [i \in 0 .. j + 1 |-> IF i = 0 THEN -used ELSE base[i - 1] - sz[i]]
  <2>2. \A i \in 0 .. j : new[i] = base[i]
    BY <2>1 DEF Bases
  <2>3. new = [i \in 0 .. j + 1 |-> IF i = 0 THEN -used ELSE new[i - 1] - sz[i]]
    <3>1. \A i \in 0 .. j + 1 : i # 0 => new[i - 1] = base[i - 1]
      BY <2>2
    <3>2. QED
      BY <3>1
  <2> HIDE DEF new
  <2>4. Bases(j + 1, sz, used, new)
    BY <2>3 DEF Bases
  <2>5. QED
    BY <2>4
<1> HIDE DEF Good
<1>3. n \in Good
  BY <1>1, <1>2, Induct
<1>4. QED
  BY <1>3 DEF Good

LEMMA PlaceIs ==
    ASSUME NEW n \in Nat, NEW sz \in [1 .. n -> Nat], NEW used \in Int
    PROVE  \E base \in [0 .. n -> Int] :
              /\ Bases(n, sz, used, base)
              /\ Place(sz, used) = [i \in 1 .. n |-> base[i]]
<1>1. Len(sz) = n /\ DOMAIN sz = 1 .. n
  <2>1. sz \in Seq(Nat)
    OBVIOUS
  <2>2. QED
    BY <2>1, LenProperties
<1> DEFINE base == CHOOSE b : Bases(n, sz, used, b)
<1>2. Bases(n, sz, used, base)
  BY BasesExist, Zenon
<1>3. Place(sz, used) = [i \in 1 .. n |->
          (CHOOSE b : b = [j \in 0 .. n |-> IF j = 0 THEN -used ELSE b[j - 1] - sz[j]])[i]]
  BY <1>1 DEF Place
<1>4. Place(sz, used) = [i \in 1 .. n |-> base[i]]
  BY <1>3, Zenon DEF Bases
<1> HIDE DEF base
<1>5. base \in [0 .. n -> Int]
  <2> DEFINE Good == {i \in Nat : i <= n => base[i] \in Int}
  <2>1. 0 \in Good
    BY <1>2 DEF Bases
  <2>2. ASSUME NEW j \in 0 .. n - 1, j \in Good PROVE j + 1 \in Good
    <3>1. base[j + 1] = base[j] - sz[j + 1]
      BY <1>2 DEF Bases
    <3>2. base[j] \in Int /\ sz[j + 1] \in Nat
      BY <2>2
    <3>3. QED
      BY <3>1, <3>2
  <2> HIDE DEF Good
  <2>3. \A i \in 0 .. n : i \in Good
    <3> SUFFICES ASSUME NEW i \in 0 .. n PROVE i \in Good
      OBVIOUS
    <3>1. \A j \in 0 .. i - 1 : j \in Good => j + 1 \in Good
      BY <2>2
    <3>2. QED
      BY <2>1, <3>1, Induct
  <2>4. \A i \in 0 .. n : base[i] \in Int
    BY <2>3 DEF Good
  <2>5. base = [i \in 0 .. n |-> base[i]]
    BY <1>2, Zenon DEF Bases
  <2>6. QED
    BY <2>4, <2>5, Zenon
<1>6. QED
  BY <1>2, <1>4, <1>5

\* BOs created one after the other are apart, each below those before it.
LEMMA PlaceApart ==
    ASSUME NEW n \in Nat, NEW sz \in [1 .. n -> Nat], NEW used \in Int
    PROVE  /\ Place(sz, used) \in [1 .. n -> Int]
           /\ \A i, j \in 1 .. n : i < j => Place(sz, used)[j] + sz[j] <= Place(sz, used)[i]
           /\ Disjoint(Place(sz, used), sz)
<1>1. PICK base \in [0 .. n -> Int] :
              /\ Bases(n, sz, used, base)
              /\ Place(sz, used) = [i \in 1 .. n |-> base[i]]
  BY PlaceIs
<1>2. \A i \in 1 .. n : base[i] = base[i - 1] - sz[i] /\ sz[i] \in Nat /\ base[i] \in Int /\ base[i - 1] \in Int
  BY <1>1 DEF Bases
<1>3. ASSUME NEW i \in 1 .. n, NEW j \in Nat, i + j <= n PROVE base[i + j] <= base[i]
  <2> DEFINE Good == {k \in Nat : i + k <= n => base[i + k] <= base[i]}
  <2>1. 0 \in Good
    BY <1>2
  <2>2. ASSUME NEW k \in 0 .. j - 1, k \in Good PROVE k + 1 \in Good
    <3>1. i + k + 1 \in 1 .. n /\ i + k \in 1 .. n
      BY <1>3
    <3>2. base[i + k + 1] = base[i + k + 1 - 1] - sz[i + k + 1] /\ sz[i + k + 1] \in Nat
      BY <1>2, <3>1
    <3>3. i + k + 1 - 1 = i + k
      OBVIOUS
    <3>4. base[i + k + 1] <= base[i + k]
      BY <1>2, <3>1, <3>2, <3>3
    <3>5. base[i + k] <= base[i]
      BY <2>2, <3>1
    <3>6. base[i] \in Int /\ base[i + k] \in Int /\ base[i + k + 1] \in Int
      BY <1>2, <3>1
    <3>7. base[i + (k + 1)] <= base[i]
      BY <3>4, <3>5, <3>6
    <3>8. QED
      BY <3>7
  <2> HIDE DEF Good
  <2>3. j \in Good
    BY <2>1, <2>2, Induct
  <2>4. QED
    BY <1>3, <2>3 DEF Good
<1>4. ASSUME NEW i \in 1 .. n, NEW j \in 1 .. n, i < j PROVE base[j] + sz[j] <= base[i]
  <2>1. base[i + ((j - 1) - i)] <= base[i]
    BY <1>3, <1>4
  <2>2. i + ((j - 1) - i) = j - 1
    OBVIOUS
  <2>3. base[j] + sz[j] = base[j - 1]
    BY <1>2
  <2>4. QED
    BY <2>1, <2>2, <2>3
<1>5. Place(sz, used) \in [1 .. n -> Int]
  BY <1>1
<1>6. \A i, j \in 1 .. n : i < j => Place(sz, used)[j] + sz[j] <= Place(sz, used)[i]
  BY <1>1, <1>4
<1>7. Disjoint(Place(sz, used), sz)
  BY <1>5, <1>6 DEF Disjoint
<1>8. QED
  BY <1>5, <1>6, <1>7

(***************************************************************************)
(* Types.                                                                  *)
(***************************************************************************)

\* In the middle of a copy of the chain: not at its end.
LEMMA NotAMultiple ==
    ASSUME NEW c \in Nat \ {0}, NEW j \in 1 .. c - 1, NEW q \in Nat
    PROVE  (q * c + j) % c # 0
<1>1. ASSUME NEW i \in Int, i % c = 0 PROVE \E k \in Int : i = k * c
  <2>1. i = (i \div c) * c + (i % c) /\ i \div c \in Int
    OBVIOUS
  <2>2. QED
    BY <1>1, <2>1
<1>2. ASSUME NEW k \in Int, q * c + j = k * c PROVE FALSE
  <2>1. j = (k - q) * c
    BY <1>2
  <2>2. CASE k - q <= 0
    <3>1. (k - q) * c <= 0
      BY <2>2
    <3>2. QED
      BY <2>1, <3>1
  <2>3. CASE k - q >= 1
    <3>1. (k - q) * c >= c
      BY <2>3
    <3>2. QED
      BY <2>1, <3>1
  <2>4. QED
    BY <2>2, <2>3
<1>3. q * c + j \in Int
  OBVIOUS
<1>4. QED
  BY <1>1, <1>2, <1>3

\* What TemplateAssumption says of the copies of one chain.
LEMMA ChainIs ==
    ASSUME NEW t \in DOMAIN Templates
    PROVE  /\ T(t).count \in 1 .. 59 /\ T(t).n_tasks = 3 * T(t).count
           /\ T(t).start \in {0, T(t).count, 2 * T(t).count}
           /\ DOMAIN T(t).task_tmpl = 1 .. T(t).n_tasks
           /\ T(t).n_tasks \div 3 = T(t).count /\ T(t).n_tasks \in Nat
           /\ \A b, c \in DOMAIN T(t).regcmd_tmpl :
                  T(t).regcmd_tmpl[b].at = T(t).regcmd_tmpl[c].at => b = c
           /\ \A b \in DOMAIN T(t).regcmd_tmpl :
                  T(t).regcmd_tmpl[b].kind \in BlockKinds /\ T(t).regcmd_tmpl[b].at \in Int
           /\ T(t).cap[REGCMD] \in Int
<1>1. /\ T(t).count \in 1 .. 59 /\ T(t).n_tasks = 3 * T(t).count
      /\ T(t).start \in {0, T(t).count, 2 * T(t).count}
      /\ DOMAIN T(t).task_tmpl = 1 .. T(t).n_tasks
      /\ \A b, c \in DOMAIN T(t).regcmd_tmpl :
             T(t).regcmd_tmpl[b].at = T(t).regcmd_tmpl[c].at => b = c
      /\ \A b \in DOMAIN T(t).regcmd_tmpl :
             T(t).regcmd_tmpl[b].kind \in BlockKinds /\ T(t).regcmd_tmpl[b].at \in Int
      /\ T(t).cap[REGCMD] \in Int
  BY TemplateAssumption DEF TemplateAssumption, T
<1> DEFINE c == T(t).count
           n == T(t).n_tasks
<1>2. c \in 1 .. 59 /\ n = 3 * c
  BY <1>1
<1> HIDE DEF c, n
<1>3. n \div 3 = c /\ n \in Nat
  BY <1>2
<1>4. T(t).n_tasks \div 3 = T(t).count /\ T(t).n_tasks \in Nat
  BY <1>3 DEF c, n
<1>5. QED
  BY <1>1, <1>4

\* A task in a copy of the chain, and whether it is the last one there.
LEMMA TaskInCopy ==
    ASSUME NEW t \in DOMAIN Templates, NEW s \in Starts(t), NEW j \in 1 .. T(t).count
    PROVE  /\ s + j \in 1 .. T(t).n_tasks /\ s \in Nat
           /\ j < T(t).count => (s + j) % T(t).count # 0
<1> DEFINE c == T(t).count
<1>1. c \in 1 .. 59 /\ T(t).n_tasks = 3 * c /\ s \in {0, c, 2 * c} /\ c = T(t).count
  BY ChainIs DEF Starts
<1> HIDE DEF c
<1>2. PICK q \in 0 .. 2 : s = q * c
  BY <1>1
<1>3. j < c => (q * c + j) % c # 0
  <2>1. c \in Nat \ {0} /\ q \in Nat /\ (j < c => j \in 1 .. c - 1)
    BY <1>1
  <2>2. QED
    BY <2>1, NotAMultiple
<1>4. QED
  BY <1>1, <1>2, <1>3

(***************************************************************************)
(* What is open: BOs that are apart, commands patched for one slot.        *)
(***************************************************************************)

\* A layout of the BOs of a context; only npu_test_crossfd leaves one out.
Slots(at) == {WEIGHTS} \cup {b \in DOMAIN at : b > OUTPUT}
Layout(t, at, exists) ==
    /\ \E n \in Nat : OUTPUT <= n /\ at \in [1 .. n -> Int]
    /\ exists \subseteq DOMAIN at
    /\ INPUT \in exists => exists = DOMAIN at
    /\ \A b, c \in exists :
           b # c => at[b] + Size(t, b) <= at[c] \/ at[c] + Size(t, c) <= at[b]

LEMMA SeqOf ==
    ASSUME NEW k \in Nat, NEW s \in [1 .. k -> Nat]
    PROVE  s \in Seq(Nat) /\ Len(s) = k
<1>1. s \in Seq(Nat) /\ DOMAIN s = 1 .. k
  OBVIOUS
<1>2. QED
  BY <1>1, LenProperties

LEMMA ConcatOf ==
    ASSUME NEW k \in Nat, NEW n \in Nat, NEW s \in [1 .. k -> Nat], NEW x \in [1 .. n -> Nat]
    PROVE  /\ s \o x \in [1 .. k + n -> Nat]
           /\ \A i \in 1 .. k + n : (s \o x)[i] = IF i <= k THEN s[i] ELSE x[i - k]
<1>1. s \in Seq(Nat) /\ Len(s) = k /\ x \in Seq(Nat) /\ Len(x) = n
  BY SeqOf
<1>2. s \o x \in Seq(Nat) /\ Len(s \o x) = k + n
  BY <1>1, ConcatProperties
<1>3. \A i \in 1 .. k + n : (s \o x)[i] = IF i <= k THEN s[i] ELSE x[i - k]
  BY <1>1, ConcatProperties
<1>4. s \o x \in [1 .. k + n -> Nat]
  BY <1>2, LenProperties
<1>5. QED
  BY <1>3, <1>4

LEMMA AppendOf ==
    ASSUME NEW k \in Nat, NEW s \in [1 .. k -> Nat], NEW x \in Nat
    PROVE  /\ Append(s, x) \in [1 .. k + 1 -> Nat] /\ Append(s, x)[k + 1] = x
           /\ \A i \in 1 .. k : Append(s, x)[i] = s[i]
<1>1. s \in Seq(Nat) /\ Len(s) = k
  BY SeqOf
<1>2. /\ Append(s, x) \in Seq(Nat) /\ Len(Append(s, x)) = k + 1
      /\ Append(s, x)[k + 1] = x /\ \A i \in 1 .. k : Append(s, x)[i] = s[i]
  BY <1>1, AppendProperties
<1>3. Append(s, x) \in [1 .. k + 1 -> Nat]
  BY <1>2, LenProperties
<1>4. QED
  BY <1>2, <1>3

LEMMA PlacedLayout ==
    ASSUME NEW t \in DOMAIN Templates, NEW n \in Nat, OUTPUT <= n,
           NEW sz \in [1 .. n -> Nat], \A b \in 1 .. n : sz[b] = Size(t, b), NEW used \in Nat
    PROVE  Place(sz, used) \in [1 .. n -> Int] /\ Layout(t, Place(sz, used), DOMAIN Place(sz, used))
<1> DEFINE at == Place(sz, used)
<1>1. at \in [1 .. n -> Int] /\ Disjoint(at, sz)
  BY PlaceApart
<1> HIDE DEF at
<1>2. DOMAIN at = 1 .. n
  BY <1>1
<1>3. \A b, c \in DOMAIN at :
         b # c => at[b] + Size(t, b) <= at[c] \/ at[c] + Size(t, c) <= at[b]
  BY <1>1, <1>2 DEF Disjoint
<1>4. Layout(t, at, DOMAIN at)
  BY <1>1, <1>3 DEF Layout
<1>5. QED
  BY <1>1, <1>4 DEF at

LEMMA SixSizes ==
    ASSUME NEW t \in DOMAIN Templates
    PROVE  /\ OUTPUT \in Nat /\ INPUT \in 1 .. OUTPUT /\ WEIGHTS \in 1 .. OUTPUT
           /\ T(t).sz \in [1 .. OUTPUT -> Nat]
           /\ \A b \in 1 .. OUTPUT : T(t).sz[b] = Size(t, b)
           /\ \A b \in Nat : b > OUTPUT => T(t).sz[WEIGHTS] = Size(t, b)
<1>1. T(t).sz \in [1 .. OUTPUT -> Nat]
  BY CaptureIs
<1>2. OUTPUT \in Nat /\ INPUT \in 1 .. OUTPUT /\ WEIGHTS \in 1 .. OUTPUT
  BY DEF OUTPUT, INPUT, WEIGHTS
<1>3. \A b \in 1 .. OUTPUT : T(t).sz[b] = Size(t, b)
  BY <1>2 DEF Size
<1>4. \A b \in Nat : b > OUTPUT => T(t).sz[WEIGHTS] = Size(t, b)
  BY <1>2 DEF Size
<1>5. QED
  BY <1>1, <1>2, <1>3, <1>4

\* The sizes of the six, then those of n BOs more.
LEMMA MoreSizes ==
    ASSUME NEW t \in DOMAIN Templates, NEW n \in Nat
    PROVE  /\ SizesWith(t, n) \in [1 .. OUTPUT + n -> Nat]
           /\ \A b \in 1 .. OUTPUT + n : SizesWith(t, n)[b] = Size(t, b)
<1> DEFINE sz == T(t).sz
           w == sz[WEIGHTS]
           x == [i \in 1 .. n |-> w]
           k == OUTPUT
<1>1. /\ k \in Nat /\ sz \in [1 .. k -> Nat] /\ w \in Nat
      /\ \A b \in 1 .. k : sz[b] = Size(t, b)
      /\ \A b \in Nat : b > k => w = Size(t, b)
  BY SixSizes
<1>2. SizesWith(t, n) = sz \o x
  BY DEF SizesWith
<1> HIDE DEF sz, w, k
<1>3. x \in [1 .. n -> Nat] /\ \A i \in 1 .. n : x[i] = w
  BY <1>1
<1> HIDE DEF x
<1>4. /\ sz \o x \in [1 .. k + n -> Nat]
      /\ \A i \in 1 .. k + n : (sz \o x)[i] = IF i <= k THEN sz[i] ELSE x[i - k]
  BY <1>1, <1>3, ConcatOf
<1>5. ASSUME NEW i \in 1 .. k + n PROVE (sz \o x)[i] = Size(t, i)
  <2>0. i \in Nat
    BY <1>1
  <2>1. CASE i <= k
    BY <1>1, <1>4, <2>1
  <2>2. CASE ~(i <= k)
    <3>1. w = Size(t, i)
      BY <1>1, <2>0, <2>2
    <3>2. i - k \in 1 .. n
      BY <1>1, <2>2
    <3>3. (sz \o x)[i] = x[i - k]
      BY <1>4, <2>2
    <3>4. QED
      BY <1>3, <3>1, <3>2, <3>3
  <2>3. QED
    BY <2>1, <2>2
<1>6. QED
  BY <1>2, <1>4, <1>5 DEF k

LEMMA WithExtraLayout ==
    ASSUME NEW t \in DOMAIN Templates, NEW n \in Nat
    PROVE  /\ WithExtra(t, n) \in [1 .. OUTPUT + n -> Int]
           /\ Layout(t, WithExtra(t, n), DOMAIN WithExtra(t, n))
<1>1. OUTPUT + n \in Nat /\ OUTPUT <= OUTPUT + n /\ 0 \in Nat
  BY SixSizes
<1>2. QED
  BY <1>1, MoreSizes, PlacedLayout DEF WithExtra

LEMMA SixLayout ==
    ASSUME NEW t \in DOMAIN Templates, NEW used \in Nat
    PROVE  /\ Place(T(t).sz, used) \in [1 .. OUTPUT -> Int]
           /\ Layout(t, Place(T(t).sz, used), DOMAIN Place(T(t).sz, used))
<1>1. OUTPUT \in Nat /\ OUTPUT <= OUTPUT
  BY SixSizes
<1>2. QED
  BY <1>1, SixSizes, PlacedLayout

\* The layout of npu_test_coexist: one BO more.
LEMMA OneMoreLayout ==
    ASSUME NEW t \in DOMAIN Templates, NEW used \in Nat
    PROVE  LET at == Place(Append(T(t).sz, T(t).sz[WEIGHTS]), used)
           IN  at \in [1 .. OUTPUT + 1 -> Int] /\ Layout(t, at, DOMAIN at)
<1> DEFINE sz == T(t).sz
           w == sz[WEIGHTS]
           all == Append(sz, w)
           k == OUTPUT
<1>1. /\ k \in Nat /\ sz \in [1 .. k -> Nat] /\ w \in Nat
      /\ \A b \in 1 .. k : sz[b] = Size(t, b)
      /\ \A b \in Nat : b > k => w = Size(t, b)
  BY SixSizes
<1> HIDE DEF sz, w, k
<1>2. /\ all \in [1 .. k + 1 -> Nat] /\ all[k + 1] = w
      /\ \A i \in 1 .. k : all[i] = sz[i]
  BY <1>1, AppendOf
<1> HIDE DEF all
<1>3. ASSUME NEW b \in 1 .. k + 1 PROVE all[b] = Size(t, b)
  <2>1. CASE b \in 1 .. k
    BY <1>1, <1>2, <2>1
  <2>2. CASE b = k + 1
    BY <1>1, <1>2, <2>2
  <2>3. QED
    BY <1>1, <2>1, <2>2
<1>4. k + 1 \in Nat /\ k <= k + 1
  BY <1>1
<1>5. /\ Place(all, used) \in [1 .. k + 1 -> Int]
      /\ Layout(t, Place(all, used), DOMAIN Place(all, used))
  BY <1>2, <1>3, <1>4, PlacedLayout DEF k
<1>6. QED
  BY <1>5 DEF all, sz, w, k

LEMMA LastOfLayout ==
    ASSUME NEW t \in DOMAIN Templates, NEW r \in 1 .. OUTPUT
    PROVE  /\ LastOf(t, r) \in [1 .. OUTPUT -> Int]
           /\ Layout(t, LastOf(t, r), DOMAIN LastOf(t, r))
<1> DEFINE k == OUTPUT
           sz == T(t).sz
           rest == [s \in DOMAIN sz |-> IF s = r THEN 0 ELSE sz[s]]
           top == Place(rest, 0)
           at == [top EXCEPT ![r] = top[k] - sz[r]]
<1>1. /\ k \in Nat /\ k \in 1 .. k /\ sz \in [1 .. k -> Nat] /\ \A b \in 1 .. k : sz[b] = Size(t, b)
  BY SixSizes
<1>2. at = LastOf(t, r)
  BY DEF LastOf
<1> HIDE DEF sz, k
<1>0. r \in 1 .. k
  BY DEF k
<1>3. /\ rest \in [1 .. k -> Nat]
      /\ \A b \in 1 .. k : rest[b] = IF b = r THEN 0 ELSE sz[b]
  BY <1>1
<1> HIDE DEF rest
<1>4. /\ top \in [1 .. k -> Int]
      /\ \A i, j \in 1 .. k : i < j => top[j] + rest[j] <= top[i]
  <2>1. 0 \in Int
    OBVIOUS
  <2>2. QED
    BY <1>1, <1>3, <2>1, PlaceApart
<1> HIDE DEF top
<1>5. /\ at \in [1 .. k -> Int]
      /\ \A b \in 1 .. k : at[b] = IF b = r THEN top[k] - sz[r] ELSE top[b]
  BY <1>0, <1>1, <1>4
<1> HIDE DEF at
<1>6. \A b \in 1 .. k : top[k] <= top[b]
  <2> SUFFICES ASSUME NEW b \in 1 .. k PROVE top[k] <= top[b]
    OBVIOUS
  <2>1. CASE b = k
    BY <1>4, <2>1
  <2>2. CASE b < k
    <3>1. top[k] + rest[k] <= top[b] /\ rest[k] \in Nat /\ top[k] \in Int /\ top[b] \in Int
      BY <1>1, <1>3, <1>4, <2>2
    <3>2. QED
      BY <3>1
  <2>3. QED
    BY <1>1, <2>1, <2>2
<1>7. ASSUME NEW b \in 1 .. k, NEW c \in 1 .. k, b < c
      PROVE  at[b] + sz[b] <= at[c] \/ at[c] + sz[c] <= at[b]
  <2>0. /\ sz[b] \in Nat /\ sz[c] \in Nat /\ top[b] \in Int /\ top[c] \in Int
        /\ top[k] \in Int /\ top[k] <= top[b] /\ top[k] <= top[c]
        /\ top[c] + rest[c] <= top[b]
    BY <1>1, <1>4, <1>6, <1>7
  <2>1. CASE b = r
    <3>1. at[b] = top[k] - sz[b] /\ at[c] = top[c]
      BY <1>5, <1>7, <2>1
    <3>2. QED
      BY <2>0, <3>1
  <2>2. CASE c = r
    <3>1. at[c] = top[k] - sz[c] /\ at[b] = top[b]
      BY <1>5, <1>7, <2>2
    <3>2. QED
      BY <2>0, <3>1
  <2>3. CASE b # r /\ c # r
    <3>1. at[c] = top[c] /\ at[b] = top[b] /\ rest[c] = sz[c]
      BY <1>3, <1>5, <2>3
    <3>2. QED
      BY <2>0, <3>1
  <2>4. QED
    BY <2>1, <2>2, <2>3
<1>8. DOMAIN at = 1 .. k
  BY <1>5
<1>9. \A b, c \in DOMAIN at :
         b # c => at[b] + Size(t, b) <= at[c] \/ at[c] + Size(t, c) <= at[b]
  <2> SUFFICES ASSUME NEW b \in 1 .. k, NEW c \in 1 .. k, b # c
               PROVE  at[b] + sz[b] <= at[c] \/ at[c] + sz[c] <= at[b]
    BY <1>1, <1>8
  <2>1. CASE b < c
    BY <1>7, <2>1
  <2>2. CASE c < b
    BY <1>7, <2>2
  <2>3. QED
    BY <2>1, <2>2
<1>10. Layout(t, at, DOMAIN at)
  BY <1>1, <1>5, <1>9 DEF Layout, k
<1>11. QED
  BY <1>2, <1>5, <1>10 DEF k

\* The layout of npu_test_crossfd: the input is not there.
LEMMA CrossLayout ==
    ASSUME NEW t \in DOMAIN Templates
    PROVE  LET at == [LastOf(t, INPUT) EXCEPT ![INPUT] = -T(t).sz[INPUT]]
           IN  at \in [1 .. OUTPUT -> Int] /\ Layout(t, at, DOMAIN at \ {INPUT})
<1>1. OUTPUT \in Nat /\ INPUT \in 1 .. OUTPUT /\ -T(t).sz[INPUT] \in Int
  BY SixSizes
<1> DEFINE old == LastOf(t, INPUT)
<1>2. old \in [1 .. OUTPUT -> Int] /\ Layout(t, old, DOMAIN old)
  BY <1>1, LastOfLayout
<1> DEFINE at == [old EXCEPT ![INPUT] = -T(t).sz[INPUT]]
<1> HIDE DEF old
<1>3. at \in [1 .. OUTPUT -> Int] /\ \A b \in 1 .. OUTPUT \ {INPUT} : at[b] = old[b]
  BY <1>1, <1>2
<1> HIDE DEF at
<1>4. Layout(t, at, DOMAIN at \ {INPUT})
  <2>1. OUTPUT \in Nat /\ OUTPUT <= OUTPUT
    BY <1>1
  <2>2. \A b, c \in DOMAIN at \ {INPUT} :
           b # c => at[b] + Size(t, b) <= at[c] \/ at[c] + Size(t, c) <= at[b]
    BY <1>2, <1>3 DEF Layout
  <2>3. QED
    BY <1>3, <2>1, <2>2 DEF Layout
<1>5. QED
  BY <1>3, <1>4 DEF at, old

(***************************************************************************)
(* The context that is open: its BOs, its commands, its weights.           *)
(***************************************************************************)
Weights == Ws \cup {NoW}
For(at, wb) == [r \in 1 .. OUTPUT |-> IF r = WEIGHTS THEN at[wb] ELSE at[r]]
Commands(t, at, wb) == patch_regcmd_tmpl(Blocks(t), T(t).cap, For(at, wb), T(t).sz)

\* The commands are the captured ones with W in one of the weight BOs, the one
\* whose contents the call in progress multiplies with.
ServesSlot == \E wb \in DOMAIN win :
    /\ rc = Commands(tpl, lo, wb)
    /\ ~Idle => job = <<xin, win[wb]>> /\ xin \in Xs
ContextInv ==
    /\ open \in {"closed", "raw", "cache", "probe"}
    /\ open = "closed" =>
           /\ <<tpl, lo, mapped, rc, tk, io1, win>> = <<"", <<>>, {}, <<>>, <<>>, {}, <<>>>>
           /\ dev = NoDev /\ Idle
    /\ open # "closed" =>
           /\ tpl \in DOMAIN Templates /\ Layout(tpl, lo, mapped)
           /\ DOMAIN win \subseteq Slots(lo) /\ \A i \in DOMAIN win : win[i] \in Weights
           /\ ServesSlot
    /\ open = "raw" => DOMAIN win = {WEIGHTS}
    /\ open # "cache" => io1 = {}

\* What setup remembers of a word of W: where it is, and its offset in W.
OffsetInv ==
    open = "cache" => \A e \in io1 : e[3] = Blocks(tpl)[e[1]][e[2]] - T(tpl).cap[WEIGHTS]

\* The lengths of the calls' answers, the operands of every matrix in scratch.
TagOK(tag) ==
    /\ tag.m \in {"X", "T", "A", "B"} => tag.of \in {<<x>> : x \in Xs}
    /\ tag.m = "W" => tag.of \in {<<w>> : w \in Weights}
    /\ tag.m = "Z" => tag.of \in Xs \X Weights
Results == {<<>>} \cup (Xs \X Weights)
ValueInv ==
    /\ env \in Environments /\ xin \in Xs \cup {NoW}
    /\ job \in Results /\ out \in Results /\ answer \in Results \cup {Failed}
    /\ \A p \in dev.mem : TagOK(p.tag)

\* The NPU is at the task that is next.
AtTask(s) == /\ dev.left \in 1 .. T(tpl).count
             /\ dev.at = tk[s + (T(tpl).count - dev.left) + 1]
DeviceInv ==
    /\ dev = [at |-> dev.at, left |-> dev.left, group |-> dev.group, regs |-> dev.regs, mem |-> dev.mem]
    /\ dev.group \in {1, 2} /\ dev.left \in 0 .. 59
    /\ Idle => dev.left = 0
    /\ dev.left > 0 => \E s \in Starts(tpl) : AtTask(s)

RunInv == ContextInv /\ OffsetInv /\ ValueInv /\ DeviceInv /\ ChainInv /\ SlotInv

LEMMA RunInvGivesTypeOK == RunInv => TypeOK
<1> SUFFICES ASSUME RunInv PROVE TypeOK
  OBVIOUS
<1> USE DEF RunInv
<1>1. CASE open = "closed"
  <2>1. <<tpl, lo, mapped, rc, tk, io1, win>> = <<"", <<>>, {}, <<>>, <<>>, {}, <<>>>> /\ Idle
    BY <1>1 DEF ContextInv
  <2>2. QED
    BY <1>1, <2>1 DEF TypeOK, ContextInv, ValueInv, DeviceInv, Results, Weights
<1>2. CASE open # "closed"
  <2>1. tpl \in DOMAIN Templates
    BY <1>2 DEF ContextInv
  <2>2. DOMAIN rc = DOMAIN T(tpl).regcmd_tmpl
    BY <1>2 DEF ChainInv
  <2>3. Len(tk) = T(tpl).n_tasks
    <3> DEFINE n == T(tpl).n_tasks
    <3>1. DOMAIN T(tpl).task_tmpl = 1 .. n /\ n \in Nat
      BY <2>1, ChainIs
    <3>2. DOMAIN tk = 1 .. n /\ tk = [i \in 1 .. n |-> tk[i]]
      BY <1>2, <3>1 DEF ChainInv
    <3> HIDE DEF n
    <3> DEFINE S == {tk[i] : i \in 1 .. n}
    <3>3. tk \in [1 .. n -> S]
      BY <3>2
    <3> HIDE DEF S
    <3>4. tk \in Seq(S)
      BY <3>1, <3>3
    <3>5. QED
      BY <3>1, <3>2, <3>4, LenProperties DEF n
  <2>4. mapped \subseteq DOMAIN lo /\ DOMAIN win \subseteq DOMAIN lo
    <3>1. Layout(tpl, lo, mapped) /\ DOMAIN win \subseteq Slots(lo)
      BY <1>2 DEF ContextInv
    <3>2. WEIGHTS \in DOMAIN lo
      BY <3>1 DEF Layout, WEIGHTS, OUTPUT
    <3>3. QED
      BY <3>1, <3>2 DEF Layout, Slots
  <2>5. \A i \in DOMAIN win : win[i] \in Ws \cup {NoW}
    BY <1>2 DEF ContextInv, Weights
  <2>6. \A e \in io1 : e[1] \in DOMAIN rc /\ e[2] \in Words
    <3>1. CASE open = "cache"
      BY <3>1 DEF SlotInv, ChainInv
    <3>2. CASE open # "cache"
      BY <3>2 DEF ContextInv
    <3>3. QED
      BY <3>1, <3>2
  <2>7. QED
    BY <1>2, <2>1, <2>2, <2>3, <2>4, <2>5, <2>6 DEF TypeOK, ContextInv, ValueInv, DeviceInv, Results, Weights
<1>3. QED
  BY <1>1, <1>2

(***************************************************************************)
(* Matrices in scratch have operands of their kind, whatever a block does. *)
(***************************************************************************)
LEMMA HeldIs ==
    ASSUME NEW mem, NEW r, NEW m
    PROVE  \/ Held(mem, r, m) = Garbage
           \/ Held(mem, r, m).m = m /\ \E p \in mem : Held(mem, r, m) = p.tag
<1>1. CASE Holders(mem, r, m) = {}
  BY <1>1 DEF Held
<1>2. CASE Holders(mem, r, m) # {}
  <2>1. Held(mem, r, m) \in Holders(mem, r, m)
    BY <1>2 DEF Held
  <2>2. QED
    BY <2>1 DEF Holders
<1>3. QED
  BY <1>1, <1>2

LEMMA HeldTyped ==
    ASSUME NEW mem, \A p \in mem : TagOK(p.tag), NEW r, NEW m, NEW h, h = Held(mem, r, m), h # Garbage
    PROVE  /\ m \in {"X", "T", "A", "B"} => h.of \in {<<x>> : x \in Xs}
           /\ m = "W" => h.of \in {<<w>> : w \in Weights}
           /\ m = "Z" => h.of \in Xs \X Weights
<1>1. h.m = m /\ \E p \in mem : h = p.tag
  BY HeldIs
<1>2. QED
  BY <1>1 DEF TagOK

LEMMA GarbageTyped == TagOK(Garbage)
  BY DEF TagOK, Garbage

LEMMA Pair == ASSUME NEW x, NEW y PROVE <<x>> \o <<y>> = <<x, y>>
<1> DEFINE S == {x, y}
           s == <<x>> \o <<y>>
<1>1. <<x>> \in Seq(S) /\ <<y>> \in Seq(S) /\ Len(<<x>>) = 1 /\ Len(<<y>>) = 1
  OBVIOUS
<1>2. s \in Seq(S) /\ Len(s) = 2
  BY <1>1, ConcatProperties
<1>3. \A i \in 1 .. 2 : s[i] = IF i <= 1 THEN <<x>>[i] ELSE <<y>>[i - 1]
  BY <1>1, ConcatProperties
<1>4. s[1] = x /\ s[2] = y
  BY <1>3
<1>5. DOMAIN s = 1 .. 2 /\ s = [i \in 1 .. 2 |-> s[i]]
  BY <1>2, LenProperties
<1> HIDE DEF s
<1>6. s = <<x, y>>
  BY <1>4, <1>5
<1>7. QED
  BY <1>6 DEF s

LEMMA ProducedTyped ==
    ASSUME NEW kind \in BlockKinds \ {"writer"}, NEW f, NEW mem, NEW what, NEW base, NEW ones,
           \A p \in mem : TagOK(p.tag), TagOK(what)
    PROVE  TagOK(Produced(kind, f, mem, what, base, ones).tag)
<1>1. CASE kind = "reader"
  <2>1. Produced(kind, f, mem, what, base, ones) = ReadPiece(f, what, base)
    BY <1>1 DEF Produced
  <2>2. \E at : ReadPiece(f, what, base).tag \in {Garbage, [m |-> what.m, of |-> what.of, at |-> at]}
    BY DEF ReadPiece, Piece
  <2>3. \A at : TagOK([m |-> what.m, of |-> what.of, at |-> at])
    BY DEF TagOK
  <2>4. QED
    BY <2>1, <2>2, <2>3, GarbageTyped
<1>2. CASE kind = "transposer"
  <2> DEFINE h == Held(mem, Piece(f.feature, 1, f.k * 16, f.k * 16, Garbage), "X")
  <2>1. Produced(kind, f, mem, what, base, ones) = TransposePiece(f, mem, ones)
    BY <1>2 DEF Produced
  <2>2. \/ TransposePiece(f, mem, ones).tag = Garbage
        \/ h # Garbage /\ \E at : TransposePiece(f, mem, ones).tag = [m |-> "T", of |-> h.of, at |-> at]
    BY DEF TransposePiece, Piece
  <2>3. h # Garbage => h.of \in {<<x>> : x \in Xs}
    BY HeldTyped
  <2> HIDE DEF h
  <2>4. \A at : h # Garbage => TagOK([m |-> "T", of |-> h.of, at |-> at])
    BY <2>3 DEF TagOK
  <2>5. QED
    BY <2>1, <2>2, <2>4, GarbageTyped
<1>3. CASE kind = "repacker"
  <2> DEFINE t == Held(mem, Piece(f.src, f.k \div 8, 1024, 1024, Garbage), "T")
             a == Held(mem, Piece(f.src, 1, f.k * 128, f.k * 128, Garbage), "A")
  <2>1. \/ RepackPiece(f, mem).tag = Garbage
        \/ t # Garbage /\ RepackPiece(f, mem).tag = [m |-> "A", of |-> t.of, at |-> f.dst]
        \/ a # Garbage /\ RepackPiece(f, mem).tag = [m |-> "B", of |-> a.of, at |-> f.dst]
    BY DEF RepackPiece, Piece
  <2>2. \/ Produced(kind, f, mem, what, base, ones).tag = Garbage
        \/ Produced(kind, f, mem, what, base, ones).tag = RepackPiece(f, mem).tag
    <3>1. RepackPiece(f, mem) = [RepackPiece(f, mem) EXCEPT !.tag = RepackPiece(f, mem).tag]
      BY DEF RepackPiece, Piece
    <3>2. [RepackPiece(f, mem) EXCEPT !.tag = Garbage].tag = Garbage
      BY DEF RepackPiece, Piece
    <3>3. QED
      BY <1>3, <3>2 DEF Produced
  <2>3. (t # Garbage => t.of \in {<<x>> : x \in Xs}) /\ (a # Garbage => a.of \in {<<x>> : x \in Xs})
    BY HeldTyped
  <2> HIDE DEF t, a
  <2>4. /\ t # Garbage => TagOK([m |-> "A", of |-> t.of, at |-> f.dst])
        /\ a # Garbage => TagOK([m |-> "B", of |-> a.of, at |-> f.dst])
    BY <2>3 DEF TagOK
  <2>5. QED
    BY <2>1, <2>2, <2>4, GarbageTyped
<1>4. CASE kind = "tile"
  <2> DEFINE w == Held(mem, Piece(f.feature, f.k \div 8, f.step, f.cols * 16, Garbage), "W")
             b == Held(mem, Piece(f.weight, 1, f.k * 128, f.k * 128, Garbage), "B")
  <2>1. Produced(kind, f, mem, what, base, ones) = TilePiece(f, mem)
    BY <1>4 DEF Produced
  <2>2. \/ TilePiece(f, mem).tag = Garbage
        \/ /\ w # Garbage /\ b # Garbage
           /\ \E at : TilePiece(f, mem).tag = [m |-> "Z", of |-> b.of \o w.of, at |-> at]
    BY DEF TilePiece, Piece
  <2>3. /\ w # Garbage => w.of \in {<<y>> : y \in Weights}
        /\ b # Garbage => b.of \in {<<x>> : x \in Xs}
    BY HeldTyped
  <2> HIDE DEF w, b
  <2>4. ASSUME w # Garbage, b # Garbage PROVE b.of \o w.of \in Xs \X Weights
    <3>1. PICK x \in Xs : b.of = <<x>>
      BY <2>3, <2>4
    <3>2. PICK y \in Weights : w.of = <<y>>
      BY <2>3, <2>4
    <3>3. <<x>> \o <<y>> = <<x, y>>
      BY Pair
    <3>4. QED
      BY <3>1, <3>2, <3>3
  <2>5. \A at : w # Garbage /\ b # Garbage => TagOK([m |-> "Z", of |-> b.of \o w.of, at |-> at])
    BY <2>4 DEF TagOK
  <2>6. QED
    BY <2>1, <2>2, <2>5, GarbageTyped
<1>5. QED
  BY <1>1, <1>2, <1>3, <1>4 DEF BlockKinds

LEMMA WrittenTyped ==
    ASSUME NEW f, NEW mem, \A p \in mem : TagOK(p.tag)
    PROVE  Written(f, mem) \in Results
<1> DEFINE z == Held(mem, Piece(f.src, 8, f.step, f.step, Garbage), "Z")
<1>1. z # Garbage => z.of \in Xs \X Weights
  BY HeldTyped
<1>2. Written(f, mem) = IF z = Garbage \/ z.at # f.src THEN <<>> ELSE z.of
  BY DEF Written
<1> HIDE DEF z
<1>3. QED
  BY <1>1, <1>2 DEF Results

(***************************************************************************)
(* The commands after a cached run are those for the slot it names.        *)
(***************************************************************************)
LEMMA RoleNumbers ==
    /\ OUTPUT \in Roles /\ OUTPUT \in Nat
    /\ REGCMD \in 1 .. OUTPUT /\ SCRATCH \in 1 .. OUTPUT /\ INPUT \in 1 .. OUTPUT /\ WEIGHTS \in 1 .. OUTPUT
    /\ WEIGHTS \notin {REGCMD, SCRATCH, INPUT, OUTPUT} /\ INPUT \notin {REGCMD, SCRATCH}
    /\ OUTPUT \in 1 .. OUTPUT /\ OUTPUT \notin {REGCMD, SCRATCH, INPUT}
  BY DEF Roles, OUTPUT, REGCMD, SCRATCH, INPUT, WEIGHTS

\* What CapturedAssumption says of the words.
LEMMA WordIs ==
    ASSUME NEW t \in DOMAIN Templates, NEW b \in DOMAIN Blocks(t), NEW r \in DOMAIN Blocks(t)[b]
    PROVE  /\ Blocks(t)[b][r] \in Int
           /\ r \notin Words \cup {"next"} => Windows(Blocks(t)[b][r], T(t).cap, T(t).sz) = {}
  BY CapturedAssumption DEF CapturedAssumption

LEMMA SlotWordMoves ==
    ASSUME NEW t \in DOMAIN Templates, NEW a \in Int, Within(a, T(t).cap[WEIGHTS], T(t).sz[WEIGHTS]),
           NEW at, NEW i
    PROVE  Repoint(a, T(t).cap, For(at, i), T(t).sz) = at[i] + (a - T(t).cap[WEIGHTS])
<1> DEFINE n == OUTPUT
           cap == T(t).cap
           sz == T(t).sz
           w == WEIGHTS
<1>1. /\ n \in Roles /\ cap \in [1 .. n -> Int] /\ sz \in [1 .. n -> Nat] /\ Disjoint(cap, sz)
      /\ w \in 1 .. n
  BY CaptureIs, RoleNumbers
<1>2. For(at, i)[w] = at[i]
  BY RoleNumbers DEF For
<1> HIDE DEF n, cap, sz, w
<1>3. Within(a, cap[w], sz[w])
  BY DEF cap, sz, w
<1>4. Windows(a, cap, sz) = {w}
  BY <1>1, <1>3, OneWindow
<1>5. FirstWindow(a, cap, sz) = w
  BY <1>1, <1>4, FirstWindowIs
<1>6. Repoint(a, cap, For(at, i), sz) = For(at, i)[w] + (a - cap[w])
  BY <1>4, <1>5 DEF Repoint
<1>7. QED
  BY <1>2, <1>6 DEF cap, sz, w

LEMMA OtherWordStays ==
    ASSUME NEW t \in DOMAIN Templates, NEW a \in Int, WEIGHTS \notin Windows(a, T(t).cap, T(t).sz),
           NEW at, NEW i, NEW j
    PROVE  Repoint(a, T(t).cap, For(at, i), T(t).sz) = Repoint(a, T(t).cap, For(at, j), T(t).sz)
<1> DEFINE n == OUTPUT
           cap == T(t).cap
           sz == T(t).sz
           q == FirstWindow(a, cap, sz)
<1>1. n \in Roles /\ cap \in [1 .. n -> Int] /\ sz \in [1 .. n -> Nat]
  BY CaptureIs, RoleNumbers
<1>2. CASE Windows(a, cap, sz) = {}
  BY <1>2 DEF Repoint
<1>3. CASE Windows(a, cap, sz) # {}
  <2> HIDE DEF n, cap, sz
  <2>1. q \in Windows(a, cap, sz) /\ q \in 1 .. n
    BY <1>1, <1>3, FirstWindowIs
  <2>2. q # WEIGHTS
    BY <2>1 DEF cap, sz
  <2>3. For(at, i)[q] = For(at, j)[q]
    BY <2>1, <2>2 DEF For, n
  <2>4. Repoint(a, cap, For(at, i), sz) = Repoint(a, cap, For(at, j), sz)
    BY <1>3, <2>3 DEF Repoint
  <2>5. QED
    BY <2>4 DEF cap, sz
<1>4. QED
  BY <1>2, <1>3

\* One command word for one slot.
Word(t, at, wb, b, r) ==
    IF r = "next" THEN Rechain(Blocks(t)[b][r], T(t).cap, For(at, wb), T(t).sz)
                  ELSE Repoint(Blocks(t)[b][r], T(t).cap, For(at, wb), T(t).sz)

LEMMA CommandsAre ==
    ASSUME NEW t, NEW at, NEW wb
    PROVE  Commands(t, at, wb) = [b \in DOMAIN Blocks(t) |-> [r \in DOMAIN Blocks(t)[b] |-> Word(t, at, wb, b, r)]]
  BY DEF Commands, patch_regcmd_tmpl, PatchBlock, Word

LEMMA RepointIs ==
    ASSUME ContextInv, OffsetInv, SlotInv, ChainInv, open = "cache", NEW i
    PROVE  Io1Repointed(i) = Commands(tpl, lo, i)
<1>1. tpl \in DOMAIN Templates /\ ServesSlot
  BY DEF ContextInv
<1>2. PICK wb \in DOMAIN win : rc = Commands(tpl, lo, wb)
  BY <1>1 DEF ServesSlot
<1>3. /\ DOMAIN rc = DOMAIN Blocks(tpl)
      /\ \A b \in DOMAIN rc : DOMAIN rc[b] = DOMAIN Blocks(tpl)[b]
      /\ \A b \in DOMAIN rc : \A r \in DOMAIN rc[b] : rc[b][r] = Word(tpl, lo, wb, b, r)
  BY <1>2, CommandsAre
<1> DEFINE Old(b, r) == \E e \in io1 : e[1] = b /\ e[2] = r
           New(b, r) == IF Old(b, r) THEN lo[i] + (CHOOSE e \in io1 : e[1] = b /\ e[2] = r)[3] ELSE rc[b][r]
<1>4. ASSUME NEW b \in DOMAIN rc, NEW r \in DOMAIN rc[b] PROVE New(b, r) = Word(tpl, lo, i, b, r)
  <2> DEFINE a == Blocks(tpl)[b][r]
  <2>0. /\ a \in Int
        /\ r \notin Words \cup {"next"} => Windows(a, T(tpl).cap, T(tpl).sz) = {}
    BY <1>1, <1>3, WordIs
  <2>1. CASE Old(b, r)
    <3>1. PICK e \in io1 : e[1] = b /\ e[2] = r
      BY <2>1
    <3>2. \A e1, e2 \in io1 : e1[1] = e2[1] /\ e1[2] = e2[2] => e1 = e2
      BY DEF SlotInv
    <3>3. New(b, r) = lo[i] + e[3]
      BY <2>1, <3>1, <3>2
    <3>4. e[3] = a - T(tpl).cap[WEIGHTS]
      BY <3>1 DEF OffsetInv
    <3>5. <<b, r>> \in SlotWords(tpl)
      BY <3>1 DEF SlotInv
    <3>6. Within(a, T(tpl).cap[WEIGHTS], T(tpl).sz[WEIGHTS]) /\ r # "next"
      BY <3>5 DEF SlotWords, Words
    <3> HIDE DEF a
    <3>7. Repoint(a, T(tpl).cap, For(lo, i), T(tpl).sz) = lo[i] + (a - T(tpl).cap[WEIGHTS])
      BY <1>1, <2>0, <3>6, SlotWordMoves
    <3>8. QED
      BY <3>3, <3>4, <3>6, <3>7 DEF Word, a
  <2>2. CASE ~Old(b, r)
    <3>1. New(b, r) = Word(tpl, lo, wb, b, r)
      BY <1>3, <2>2
    <3>2. CASE r = "next"
      <4>1. For(lo, wb)[REGCMD] = For(lo, i)[REGCMD]
        BY RoleNumbers DEF For
      <4>2. QED
        BY <3>1, <3>2, <4>1 DEF Word, Rechain
    <3>3. CASE r # "next"
      <4>1. <<b, r>> \notin SlotWords(tpl)
        <5>1. {<<e[1], e[2]>> : e \in io1} = SlotWords(tpl)
          BY DEF SlotInv
        <5>2. <<b, r>> \notin {<<e[1], e[2]>> : e \in io1}
          BY <2>2
        <5>3. QED
          BY <5>1, <5>2
      <4>2. WEIGHTS \notin Windows(a, T(tpl).cap, T(tpl).sz)
        <5>1. CASE r \in Words
          BY <1>3, <4>1, <5>1 DEF SlotWords, Windows
        <5>2. CASE r \notin Words
          BY <2>0, <3>3, <5>2
        <5>3. QED
          BY <5>1, <5>2
      <4> HIDE DEF a
      <4>3. Repoint(a, T(tpl).cap, For(lo, wb), T(tpl).sz) = Repoint(a, T(tpl).cap, For(lo, i), T(tpl).sz)
        BY <1>1, <2>0, <4>2, OtherWordStays
      <4>4. QED
        BY <3>1, <3>3, <4>3 DEF Word, a
    <3>4. QED
      BY <3>2, <3>3
  <2>3. QED
    BY <2>1, <2>2
<1>5. Io1Repointed(i) = [b \in DOMAIN rc |-> [r \in DOMAIN rc[b] |-> New(b, r)]]
  BY DEF Io1Repointed
<1> HIDE DEF New
<1>6. Io1Repointed(i) = [b \in DOMAIN rc |-> [r \in DOMAIN rc[b] |-> Word(tpl, lo, i, b, r)]]
  BY <1>4, <1>5
<1>7. QED
  BY <1>3, <1>6, CommandsAre

(***************************************************************************)
(* Opening a context and starting the NPU.                                 *)
(***************************************************************************)
LEMMA LoadContext ==
    ASSUME NEW kind \in {"raw", "cache", "probe"}, NEW t \in DOMAIN Templates,
           NEW at, NEW exists, NEW w, Load(kind, t, at, exists, w), Layout(t, at, exists),
           DOMAIN win' \subseteq Slots(at), w \in DOMAIN win',
           \A i \in DOMAIN win' : win'[i] \in Weights,
           job' = <<>> \/ (job' = <<xin', win'[w]>> /\ xin' \in Xs),
           kind = "raw" => DOMAIN win' = {WEIGHTS}, kind # "cache" => io1' = {}
    PROVE  ContextInv'
<1>1. /\ open' = kind /\ tpl' = t /\ lo' = at /\ mapped' = exists
      /\ rc' = patch_regcmd_tmpl(Blocks(t), T(t).cap, For(at, w), T(t).sz)
  BY DEF Load, For
<1>2. rc' = Commands(tpl', lo', w)
  BY <1>1 DEF Commands, T, Blocks, For
<1>3. ServesSlot'
  BY <1>2 DEF ServesSlot, Idle, Commands, T, Blocks, For
<1>4. Layout(tpl', lo', mapped')
  BY <1>1
<1>5. DOMAIN win' \subseteq Slots(lo')
  BY <1>1
<1>6. open' # "closed"
  BY <1>1
<1>7. QED
  BY <1>1, <1>3, <1>4, <1>5, <1>6, Zenon DEF ContextInv, Layout, Size, T, Slots

LEMMA ShutContext == ASSUME Shut, job' = <<>> PROVE ContextInv' /\ OffsetInv'
  BY DEF Shut, ContextInv, OffsetInv, Idle, NoDev

LEMMA SameContext ==
    ASSUME ContextInv, OffsetInv, UNCHANGED <<open, tpl, lo, mapped, rc, tk, io1, win, dev, job, xin>>
    PROVE  ContextInv' /\ OffsetInv'
  BY DEF ContextInv, OffsetInv, ServesSlot, Idle, Commands, T, Blocks, For, Layout, Size, Slots, NoDev

\* Only the cache has words to repoint.
LEMMA NoOffsets == ASSUME open' # "cache" PROVE OffsetInv'
  BY DEF OffsetInv

LEMMA StartIs ==
    ASSUME NEW t \in DOMAIN Templates, NEW s \in Starts(t), NEW c, c = T(t).count
    PROVE  c \in 1 .. 59 /\ c \in 1 .. c /\ c \in 0 .. 59 /\ c \in Int /\ s \in Nat
<1>1. c \in 1 .. 59 /\ (s = 0 \/ s = c \/ s = 2 * c)
  BY ChainIs DEF Starts
<1>2. c \in 1 .. c /\ c \in 0 .. 59 /\ c \in Int /\ 2 * c \in Nat
  BY <1>1
<1>3. QED
  BY <1>1, <1>2

LEMMA BeginDevice ==
    ASSUME NEW start, NEW count, NEW kept, Begin(start, count, kept),
           tpl' \in DOMAIN Templates, start \in Starts(tpl'), count = T(tpl').count, job' # <<>>
    PROVE  DeviceInv'
<1>1. dev' = [at |-> tk'[start + 1], left |-> count, group |-> 1,
              regs |-> <<Unwritten, Unwritten>>, mem |-> kept]
  BY DEF Begin
<1>2. dev'.at = tk'[start + 1] /\ dev'.left = count /\ dev'.group = 1
  BY <1>1
<1>3. count \in 1 .. 59 /\ count \in Int /\ start \in Nat
  BY StartIs
<1>4. start + (count - count) + 1 = start + 1
  BY <1>3
<1>5. dev'.left \in 1 .. T(tpl').count /\ dev'.left \in 0 .. 59
  <2>1. count \in 1 .. count /\ count \in 0 .. 59
    BY StartIs
  <2>2. QED
    BY <1>2, <2>1
<1>6. dev'.at = tk'[start + (T(tpl').count - dev'.left) + 1]
  BY <1>2, <1>4
<1>7. AtTask(start)'
  BY <1>5, <1>6 DEF AtTask, T
<1>8. (\E s \in Starts(tpl) : AtTask(s))'
  BY <1>7, Zenon DEF Starts, T
<1>9. QED
  BY <1>1, <1>2, <1>5, <1>8 DEF DeviceInv, Idle

LEMMA StoppedDevice ==
    ASSUME dev' = [at |-> dev'.at, left |-> dev'.left, group |-> dev'.group, regs |-> dev'.regs,
                   mem |-> dev'.mem],
           dev'.left = 0, dev'.group \in {1, 2}
    PROVE  DeviceInv'
  BY DEF DeviceInv

LEMMA SameDevice ==
    ASSUME DeviceInv, UNCHANGED <<dev, tk, tpl>>, Idle <=> Idle'
    PROVE  DeviceInv'
  BY DEF DeviceInv, AtTask, Starts, T

\* The values after a call has begun.
LEMMA BeginValues ==
    ASSUME NEW start, NEW count, NEW kept, Begin(start, count, kept), ValueInv, UNCHANGED env,
           xin' \in Xs, job' \in Xs \X Weights, kept \subseteq dev.mem
    PROVE  ValueInv'
<1>1. dev'.mem = kept /\ out' = <<>> /\ answer' = <<>>
  BY DEF Begin
<1>2. QED
  BY <1>1 DEF ValueInv, Results, TagOK, Weights

LEMMA ContextGiven ==
    ASSUME ContextInv, open # "closed"
    PROVE  /\ tpl \in DOMAIN Templates /\ Layout(tpl, lo, mapped)
           /\ DOMAIN win \subseteq Slots(lo) /\ \A i \in DOMAIN win : win[i] \in Weights
           /\ ServesSlot
  BY DEF ContextInv

(***************************************************************************)
(* The calls.  What the NPU, the patched words and the slots need of them  *)
(* is in ChainStep and SlotStep; here are the context and the values.      *)
(***************************************************************************)
Rest == ContextInv /\ OffsetInv /\ ValueInv /\ DeviceInv

LEMMA RawRuns ==
    ASSUME RunInv, NEW t \in DOMAIN Templates, NEW x \in Xs, NEW w \in Ws, npu_matmul_raw(t, x, w)
    PROVE  Rest'
<1> DEFINE at == Place(T(t).sz, 0)
<1>1. /\ xin' = x /\ win' = [b \in {WEIGHTS} |-> w] /\ job' = <<x, w>> /\ UNCHANGED env
      /\ Begin(T(t).start, T(t).count, {})
  BY DEF npu_matmul_raw
<1>2. DOMAIN win' = {WEIGHTS} /\ win'[WEIGHTS] = w /\ w \in Weights
  BY <1>1 DEF Weights
<1>3. open' = "raw" /\ tpl' = t /\ ContextInv'
  <2>1. CASE Reuse(t)
    <3>1. open = "raw" /\ tpl = t /\ UNCHANGED <<open, tpl, lo, mapped, rc, tk, io1>>
      BY <2>1 DEF npu_matmul_raw, Reuse, bo
    <3>2. /\ tpl \in DOMAIN Templates /\ Layout(tpl, lo, mapped)
          /\ DOMAIN win = {WEIGHTS} /\ ServesSlot /\ WEIGHTS \in Slots(lo) /\ io1 = {}
      BY <3>1 DEF RunInv, ContextInv, Slots
    <3>3. rc = Commands(tpl, lo, WEIGHTS)
      BY <3>2 DEF ServesSlot
    <3>4. ServesSlot'
      BY <1>1, <1>2, <3>1, <3>3 DEF ServesSlot, Commands, T, Blocks, For
    <3>5. QED
      BY <1>2, <3>1, <3>2, <3>4 DEF ContextInv, Layout, Size, T, Slots
  <2>2. CASE ~Reuse(t)
    <3>1. Load("raw", t, at, DOMAIN at, WEIGHTS) /\ io1' = {}
      BY <2>2 DEF npu_matmul_raw
    <3>2. open' = "raw" /\ tpl' = t
      BY <3>1 DEF Load
    <3>3. Layout(t, at, DOMAIN at)
      BY SixLayout
    <3> HIDE DEF at
    <3>4. ContextInv'
      BY <1>1, <1>2, <3>1, <3>3, LoadContext DEF Slots
    <3>5. QED
      BY <3>2, <3>4
  <2>3. QED
    BY <2>1, <2>2
<1>4. DeviceInv'
  <2>1. T(t).start \in Starts(tpl') /\ job' # <<>>
    BY <1>1, <1>3 DEF Starts
  <2>2. QED
    BY <1>1, <1>3, <2>1, BeginDevice
<1>5. ValueInv'
  <2>1. xin' \in Xs /\ job' \in Xs \X Weights /\ {} \subseteq dev.mem
    BY <1>1, <1>2
  <2>2. QED
    BY <1>1, <2>1, BeginValues DEF RunInv
<1>6. QED
  BY <1>3, <1>4, <1>5, NoOffsets DEF Rest

\* A probe of a layout the kernel gives.
LEMMA ProbeRuns ==
    ASSUME RunInv, NEW t \in DOMAIN Templates, NEW at, NEW exists, NEW wbo \in Slots(at), NEW x \in Xs,
           NEW w \in Ws, Probe(t, at, exists, wbo, x, w), Layout(t, at, exists)
    PROVE  Rest'
<1>1. /\ Load("probe", t, at, exists, wbo) /\ io1' = {} /\ UNCHANGED env
      /\ xin' = x /\ win' = [b \in {wbo} |-> w] /\ job' = <<x, w>>
      /\ Begin(T(t).start, T(t).count, {})
  BY DEF Probe
<1>2. open' = "probe" /\ tpl' = t
  BY <1>1 DEF Load
<1>3. DOMAIN win' = {wbo} /\ win'[wbo] = w /\ w \in Weights
  BY <1>1 DEF Weights
<1>4. ContextInv'
  BY <1>1, <1>3, LoadContext
<1>5. DeviceInv'
  <2>1. T(t).start \in Starts(tpl') /\ job' # <<>>
    BY <1>1, <1>2 DEF Starts
  <2>2. QED
    BY <1>1, <1>2, <2>1, BeginDevice
<1>6. ValueInv'
  <2>1. xin' \in Xs /\ job' \in Xs \X Weights /\ {} \subseteq dev.mem
    BY <1>1, <1>3
  <2>2. QED
    BY <1>1, <2>1, BeginValues DEF RunInv
<1>7. QED
  BY <1>2, <1>4, <1>5, <1>6, NoOffsets DEF Rest

\* The last BO of a layout with more than the six is a weight BO.
LEMMA LastSlot ==
    ASSUME NEW n \in Nat, n > OUTPUT, NEW at \in [1 .. n -> Int]
    PROVE  Len(at) \in Slots(at) /\ Len(at) = n
<1>1. at \in Seq(Int) /\ Len(at) = n
  <2>1. at \in Seq(Int) /\ DOMAIN at = 1 .. n
    OBVIOUS
  <2>2. QED
    BY <2>1, LenProperties
<1>2. n \in DOMAIN at
  BY SixSizes DEF OUTPUT
<1>3. QED
  BY <1>1, <1>2 DEF Slots

LEMMA ProbesRun ==
    ASSUME RunInv, NEW x \in Xs, NEW w \in Ws,
           \/ \E n \in Fillers, t \in DOMAIN Templates : npu_test_reach(n, t, x, w)
           \/ \E n \in Extras, t \in DOMAIN Templates : npu_test_wbelow(n, t, x, w)
           \/ \E r \in LowRoles : npu_test_bo_low(r, x, w)
           \/ npu_test_coexist(x, w) \/ npu_test_crossfd(x, w) \/ npu_test_coldpath(x, w)
    PROVE  Rest'
<1>0. /\ "qkv" \in DOMAIN Templates /\ OUTPUT \in Nat
      /\ \A at : WEIGHTS \in Slots(at)
  BY ConstantAssumption, RoleNumbers DEF Slots
<1>1. ASSUME NEW n \in Fillers, NEW t \in DOMAIN Templates, npu_test_reach(n, t, x, w) PROVE Rest'
  <2> DEFINE at == Place(T(t).sz, n * Filler)
  <2>1. n * Filler \in Nat
    BY ConstantAssumption DEF Filler
  <2>2. Layout(t, at, DOMAIN at)
    BY <2>1, SixLayout
  <2>3. Probe(t, at, DOMAIN at, WEIGHTS, x, w)
    BY <1>1 DEF npu_test_reach
  <2> HIDE DEF at
  <2>4. QED
    BY <1>0, <2>2, <2>3, ProbeRuns
<1>2. ASSUME NEW n \in Extras, NEW t \in DOMAIN Templates, npu_test_wbelow(n, t, x, w) PROVE Rest'
  <2> DEFINE at == WithExtra(t, n)
  <2>1. n \in Nat /\ n > 0
    BY ConstantAssumption
  <2>2. at \in [1 .. OUTPUT + n -> Int] /\ Layout(t, at, DOMAIN at)
    BY <2>1, WithExtraLayout
  <2>3. Probe(t, at, DOMAIN at, Len(at), x, w)
    BY <1>2 DEF npu_test_wbelow
  <2> HIDE DEF at
  <2>4. OUTPUT + n \in Nat /\ OUTPUT + n > OUTPUT
    BY <1>0, <2>1
  <2>5. Len(at) \in Slots(at)
    BY <2>2, <2>4, LastSlot
  <2>6. QED
    BY <2>2, <2>3, <2>5, ProbeRuns
<1>3. ASSUME NEW r \in LowRoles, npu_test_bo_low(r, x, w) PROVE Rest'
  <2> DEFINE at == LastOf("qkv", r)
  <2>1. r \in 1 .. OUTPUT
    BY ConstantAssumption
  <2>2. Layout("qkv", at, DOMAIN at)
    BY <1>0, <2>1, LastOfLayout
  <2>3. Probe("qkv", at, DOMAIN at, WEIGHTS, x, w)
    BY <1>3 DEF npu_test_bo_low
  <2> HIDE DEF at
  <2>4. QED
    BY <1>0, <2>2, <2>3, ProbeRuns
<1>4. CASE npu_test_coexist(x, w)
  <2> DEFINE at == Place(Append(T("qkv").sz, T("qkv").sz[WEIGHTS]), ReluBytes)
  <2>1. ReluBytes \in Nat
    BY DEF ReluBytes
  <2>2. at \in [1 .. OUTPUT + 1 -> Int] /\ Layout("qkv", at, DOMAIN at)
    BY <1>0, <2>1, OneMoreLayout
  <2>3. Probe("qkv", at, DOMAIN at, Len(at), x, w)
    BY <1>4 DEF npu_test_coexist
  <2> HIDE DEF at
  <2>4. OUTPUT + 1 \in Nat /\ OUTPUT + 1 > OUTPUT
    BY <1>0
  <2>5. Len(at) \in Slots(at)
    BY <2>2, <2>4, LastSlot
  <2>6. QED
    BY <1>0, <2>2, <2>3, <2>5, ProbeRuns
<1>5. CASE npu_test_crossfd(x, w)
  <2> DEFINE at == [LastOf("qkv", INPUT) EXCEPT ![INPUT] = -T("qkv").sz[INPUT]]
  <2>1. Layout("qkv", at, DOMAIN at \ {INPUT})
    BY <1>0, CrossLayout
  <2>2. Probe("qkv", at, DOMAIN at \ {INPUT}, WEIGHTS, x, w)
    BY <1>5 DEF npu_test_crossfd
  <2> HIDE DEF at
  <2>3. QED
    BY <1>0, <2>1, <2>2, ProbeRuns
<1>6. CASE npu_test_coldpath(x, w)
  <2> DEFINE at == Place(T("qkv").sz, 0)
  <2>1. Layout("qkv", at, DOMAIN at)
    BY <1>0, SixLayout
  <2>2. Probe("qkv", at, DOMAIN at, WEIGHTS, x, w)
    BY <1>6 DEF npu_test_coldpath
  <2> HIDE DEF at
  <2>3. QED
    BY <1>0, <2>1, <2>2, ProbeRuns
<1>7. QED
  BY <1>1, <1>2, <1>3, <1>4, <1>5, <1>6

LEMMA SetupRuns ==
    ASSUME RunInv, NEW t \in DOMAIN Templates, npu_mm_cache_setup(t)
    PROVE  Rest'
<1> DEFINE at == WithExtra(t, NSlots)
<1>1. /\ Load("cache", t, at, DOMAIN at, First) /\ Idle /\ open = "closed"
      /\ win' = [i \in First .. OUTPUT + NSlots |-> NoW]
      /\ UNCHANGED <<env, xin, out, dev, job, answer>>
  BY DEF npu_mm_cache_setup, First
<1>2. NSlots \in Nat /\ NSlots > 0 /\ OUTPUT \in Nat
  BY ConstantAssumption, RoleNumbers
<1>3. at \in [1 .. OUTPUT + NSlots -> Int] /\ Layout(t, at, DOMAIN at)
  BY <1>2, WithExtraLayout
<1>4. DOMAIN win' \subseteq Slots(at) /\ First \in DOMAIN win' /\ \A i \in DOMAIN win' : win'[i] \in Weights
  <2>1. First = OUTPUT + 1
    BY DEF First
  <2>2. DOMAIN win' = First .. OUTPUT + NSlots
    BY <1>1
  <2>3. \A i \in First .. OUTPUT + NSlots : i \in 1 .. OUTPUT + NSlots /\ i > OUTPUT
    BY <1>2, <2>1
  <2>4. DOMAIN at = 1 .. OUTPUT + NSlots
    BY <1>3
  <2> HIDE DEF at
  <2>5. DOMAIN win' \subseteq Slots(at)
    BY <2>2, <2>3, <2>4 DEF Slots
  <2>6. First \in First .. OUTPUT + NSlots
    BY <1>2, <2>1
  <2>7. QED
    BY <1>1, <2>2, <2>5, <2>6 DEF Weights
<1>5. job' = <<>>
  BY <1>1 DEF Idle
<1>6. ContextInv'
  <2> HIDE DEF at
  <2>1. Load("cache", t, at, DOMAIN at, First) /\ "cache" \in {"raw", "cache", "probe"}
    BY <1>1
  <2>2. Layout(t, at, DOMAIN at)
    BY <1>3
  <2>3. QED
    BY <1>4, <1>5, <2>1, <2>2, LoadContext
<1>7. OffsetInv'
  <2>1. SlotInv'
    BY SetupFindsSlots
  <2> SUFFICES ASSUME open' = "cache", NEW e \in io1'
               PROVE  e[3] = Blocks(t)[e[1]][e[2]] - T(t).cap[WEIGHTS]
    <3>1. tpl' = t
      BY <1>1 DEF Load
    <3>2. QED
      BY <3>1 DEF OffsetInv, Blocks, T
  <2> DEFINE b == e[1]
             r == e[2]
             a == Blocks(t)[b][r]
  <2>2. <<b, r>> \in SlotWords(t)
    <3>1. tpl' = t
      BY <1>1 DEF Load
    <3>2. {<<f[1], f[2]>> : f \in io1'} = SlotWords(tpl')
      BY <2>1 DEF SlotInv, SlotWords, Blocks, T
    <3>3. QED
      BY <3>1, <3>2
  <2>3. /\ b \in DOMAIN Blocks(t) /\ r \in Words /\ r \in DOMAIN Blocks(t)[b]
        /\ Within(a, T(t).cap[WEIGHTS], T(t).sz[WEIGHTS])
    BY <2>2 DEF SlotWords
  <2>4. a \in Int /\ r # "next"
    BY <2>3, WordIs DEF Words
  <2>5. rc' = Commands(t, at, First)
    BY <1>1 DEF Load, Commands, For
  <2>6. rc'[b][r] = Word(t, at, First, b, r)
    BY <2>3, <2>5, CommandsAre
  <2>7. rc'[b][r] = at[First] + (a - T(t).cap[WEIGHTS])
    <3> HIDE DEF a, at
    <3>1. Repoint(a, T(t).cap, For(at, First), T(t).sz) = at[First] + (a - T(t).cap[WEIGHTS])
      BY <2>3, <2>4, SlotWordMoves
    <3>2. QED
      BY <2>4, <2>6, <3>1 DEF Word, a
  <2>8. e[3] = rc'[b][r] - at[First]
    <3>1. \E p \in (DOMAIN rc') \X Words : e = <<p[1], p[2], rc'[p[1]][p[2]] - at[First]>>
      BY DEF npu_mm_cache_setup, First
    <3>2. QED
      BY <3>1
  <2>9. at[First] \in Int /\ T(t).cap[WEIGHTS] \in Int
    <3>1. First \in 1 .. OUTPUT + NSlots
      BY <1>2 DEF First
    <3>2. T(t).cap \in [1 .. OUTPUT -> Int] /\ WEIGHTS \in 1 .. OUTPUT
      BY CaptureIs, RoleNumbers
    <3> HIDE DEF at
    <3>3. QED
      BY <1>3, <3>1, <3>2
  <2> HIDE DEF a, at
  <2>10. QED
    BY <2>4, <2>7, <2>8, <2>9 DEF a
<1>8. ValueInv'
  BY <1>1 DEF RunInv, ValueInv, TagOK, Weights
<1>9. DeviceInv'
  <2>1. dev = NoDev
    BY <1>1 DEF RunInv, ContextInv
  <2>2. QED
    BY <1>1, <2>1, StoppedDevice DEF NoDev
<1>10. QED
  BY <1>6, <1>7, <1>8, <1>9 DEF Rest

LEMMA LoadRuns ==
    ASSUME RunInv, NEW i \in DOMAIN win, NEW w \in Ws, npu_mm_cache_load(i, w)
    PROVE  Rest'
<1>1. /\ Idle /\ open = "cache" /\ win' = [win EXCEPT ![i] = w]
      /\ UNCHANGED <<env, open, tpl, lo, mapped, rc, tk, io1, xin, out, dev, job, answer>>
  BY DEF npu_mm_cache_load, bo
<1>2. DOMAIN win' = DOMAIN win /\ \A j \in DOMAIN win : win'[j] = IF j = i THEN w ELSE win[j]
  BY <1>1
<1>3. /\ tpl \in DOMAIN Templates /\ Layout(tpl, lo, mapped)
      /\ DOMAIN win \subseteq Slots(lo) /\ \A j \in DOMAIN win : win[j] \in Weights
      /\ ServesSlot
  BY <1>1 DEF RunInv, ContextInv
<1>4. PICK wb \in DOMAIN win : rc = Commands(tpl, lo, wb)
  BY <1>3 DEF ServesSlot
<1>5. ServesSlot'
  <2>1. rc' = Commands(tpl', lo', wb)
    BY <1>1, <1>4
  <2>2. wb \in DOMAIN win' /\ Idle'
    BY <1>1, <1>2 DEF Idle
  <2>3. QED
    BY <2>1, <2>2 DEF ServesSlot, Idle, Commands, T, Blocks, For
<1>6. \A j \in DOMAIN win' : win'[j] \in Weights
  BY <1>2, <1>3 DEF Weights
<1>7. ContextInv'
  BY <1>1, <1>2, <1>3, <1>5, <1>6 DEF ContextInv, Layout, Size, T, Slots
<1>8. OffsetInv' /\ ValueInv' /\ DeviceInv'
  <2>1. OffsetInv'
    BY <1>1 DEF RunInv, OffsetInv, Blocks, T
  <2>2. ValueInv'
    BY <1>1 DEF RunInv, ValueInv, TagOK, Weights
  <2>3. DeviceInv'
    BY <1>1, SameDevice DEF RunInv, Idle
  <2>4. QED
    BY <2>1, <2>2, <2>3
<1>9. QED
  BY <1>7, <1>8 DEF Rest

LEMMA CachedRuns ==
    ASSUME RunInv, NEW i \in DOMAIN win, NEW x \in Xs, NEW z, CachedMatmul(i, x, z)
    PROVE  Rest'
<1> DEFINE kept == {p \in dev.mem : p.lo >= lo[SCRATCH] + z}
           third == T(tpl).n_tasks \div 3
<1>1. /\ Idle /\ open = "cache" /\ rc' = Io1Repointed(i)
      /\ UNCHANGED <<env, open, tpl, lo, mapped, tk, io1, win>>
      /\ xin' = x /\ job' = <<x, win[i]>>
  BY DEF CachedMatmul, bo
<1>2. /\ tpl \in DOMAIN Templates /\ Layout(tpl, lo, mapped)
      /\ DOMAIN win \subseteq Slots(lo) /\ \A j \in DOMAIN win : win[j] \in Weights
  BY <1>1 DEF RunInv, ContextInv
<1>3. \E start \in Starts(tpl) : Begin(start, T(tpl).count, kept)
  <2>1. third = T(tpl).count
    BY <1>2, ChainIs
  <2>2. Begin(2 * third, third, kept) \/ Begin(T(tpl).start, T(tpl).count, kept)
    BY DEF CachedMatmul
  <2> HIDE DEF third
  <2>3. QED
    BY <2>1, <2>2 DEF Starts
<1>4. rc' = Commands(tpl', lo', i)
  BY <1>1, RepointIs DEF RunInv
<1>5. ServesSlot'
  <2>1. i \in DOMAIN win' /\ job' = <<xin', win'[i]>> /\ xin' \in Xs
    BY <1>1
  <2>2. QED
    BY <1>4, <2>1 DEF ServesSlot, Commands, T, Blocks, For
<1>6. ContextInv'
  BY <1>1, <1>2, <1>5 DEF ContextInv, Layout, Size, T, Slots
<1>7. OffsetInv'
  BY <1>1 DEF RunInv, OffsetInv, Blocks, T
<1>8. DeviceInv'
  <2>1. job' # <<>> /\ tpl' \in DOMAIN Templates
    BY <1>1, <1>2
  <2> HIDE DEF kept
  <2>2. PICK start \in Starts(tpl) : Begin(start, T(tpl).count, kept)
    BY <1>3
  <2>3. start \in Starts(tpl') /\ T(tpl).count = T(tpl').count
    BY <1>1
  <2>4. QED
    BY <2>1, <2>2, <2>3, BeginDevice
<1>9. ValueInv'
  <2>1. xin' \in Xs /\ job' \in Xs \X Weights /\ kept \subseteq dev.mem /\ UNCHANGED env
    BY <1>1, <1>2
  <2> HIDE DEF kept
  <2>2. QED
    BY <1>3, <2>1, BeginValues DEF RunInv
<1>10. QED
  BY <1>6, <1>7, <1>8, <1>9 DEF Rest

\* A context that is closed.
LEMMA ShutRuns ==
    ASSUME RunInv, Shut, job' = <<>>, UNCHANGED <<env, xin, out>>, answer' \in Results \cup {Failed}
    PROVE  Rest'
<1>1. ContextInv' /\ OffsetInv'
  BY ShutContext
<1>2. DeviceInv'
  BY StoppedDevice DEF Shut, NoDev
<1>3. ValueInv'
  BY DEF RunInv, ValueInv, Shut, NoDev, Results, TagOK, Weights
<1>4. QED
  BY <1>1, <1>2, <1>3 DEF Rest

LEMMA SubmitsEnd ==
    ASSUME RunInv, SubmitDone \/ SubmitFails
    PROVE  Rest'
<1>1. /\ ~Idle /\ job' = <<>> /\ UNCHANGED <<env, xin, out>>
      /\ answer' \in Results \cup {Failed}
  BY DEF SubmitDone, SubmitFails, Running, RunInv, ValueInv
<1>2. CASE Shut
  BY <1>1, <1>2, ShutRuns
<1>3. CASE ~Shut
  <2>1. /\ UNCHANGED <<open, tpl, lo, mapped, rc, tk, io1, win>>
        /\ dev' = [dev EXCEPT !.left = 0] \/ (dev' = dev /\ dev.left = 0)
    BY <1>3 DEF SubmitDone, SubmitFails, bo
  <2>2. open # "closed"
    BY <1>1 DEF RunInv, ContextInv
  <2>3. ServesSlot'
    <3>1. PICK wb \in DOMAIN win : rc = Commands(tpl, lo, wb)
      BY <2>2 DEF RunInv, ContextInv, ServesSlot
    <3>2. rc' = Commands(tpl', lo', wb) /\ wb \in DOMAIN win' /\ Idle'
      BY <1>1, <2>1, <3>1 DEF Idle
    <3>3. QED
      BY <3>2 DEF ServesSlot, Idle, Commands, T, Blocks, For
  <2>4. ContextInv'
    BY <2>1, <2>2, <2>3 DEF RunInv, ContextInv, Layout, Size, T, Slots
  <2>5. OffsetInv'
    BY <2>1 DEF RunInv, OffsetInv, Blocks, T
  <2>6. ValueInv' /\ DeviceInv'
    <3>0. dev = [at |-> dev.at, left |-> dev.left, group |-> dev.group, regs |-> dev.regs, mem |-> dev.mem]
      BY DEF RunInv, DeviceInv
    <3>1. /\ dev'.left = 0 /\ dev'.group = dev.group /\ dev'.mem = dev.mem
          /\ dev' = [at |-> dev'.at, left |-> dev'.left, group |-> dev'.group, regs |-> dev'.regs,
                     mem |-> dev'.mem]
      <4>1. CASE dev' = dev /\ dev.left = 0
        BY <3>0, <4>1
      <4>2. CASE dev' = [dev EXCEPT !.left = 0]
        <5>1. dev' = [at |-> dev.at, left |-> 0, group |-> dev.group, regs |-> dev.regs, mem |-> dev.mem]
          BY <3>0, <4>2
        <5>2. QED
          BY <5>1
      <4>3. QED
        BY <2>1, <4>1, <4>2
    <3>2. QED
      BY <1>1, <3>1, StoppedDevice DEF RunInv, ValueInv, DeviceInv, TagOK, Results, Weights
  <2>7. QED
    BY <2>4, <2>5, <2>6 DEF Rest
<1>4. QED
  BY <1>2, <1>3

(***************************************************************************)
(* The block the NPU is at.                                                *)
(***************************************************************************)

\* An open context's BOs lie at integers.
LEMMA BOsAre ==
    ASSUME ContextInv, open # "closed"
    PROVE  /\ tpl \in DOMAIN Templates /\ \A b \in DOMAIN lo : lo[b] \in Int
           /\ 1 .. OUTPUT \subseteq DOMAIN lo /\ DOMAIN lo \subseteq Nat
<1>1. tpl \in DOMAIN Templates /\ Layout(tpl, lo, mapped)
  BY ContextGiven
<1>2. PICK n \in Nat : OUTPUT <= n /\ lo \in [1 .. n -> Int]
  BY <1>1 DEF Layout
<1>3. 1 .. OUTPUT \subseteq 1 .. n /\ 1 .. n \subseteq Nat
  BY <1>2, RoleNumbers
<1>4. QED
  BY <1>1, <1>2, <1>3

LEMMA Cancel == ASSUME NEW x \in Int, NEW y \in Int, NEW z \in Int, x + y = x + z PROVE y = z
  OBVIOUS

LEMMA AtBlock ==
    ASSUME ContextInv, ChainInv, Running, NEW s \in Starts(tpl), AtTask(s),
           NEW k, k = T(tpl).count - dev.left + 1
    PROVE  /\ k \in 1 .. T(tpl).count /\ s + k \in 1 .. T(tpl).n_tasks
           /\ Current \in DOMAIN rc /\ Current = CapturedBlock(tpl, s + k)
           /\ k < T(tpl).count => "next" \in DOMAIN rc[Current] /\ rc[Current]["next"] = tk[s + k + 1]
<1>0. open # "closed"
  BY DEF Running, ContextInv
<1>1. tpl \in DOMAIN Templates
  BY <1>0, BOsAre
<1> DEFINE c == T(tpl).count
           p == T(tpl)
<1>2. c \in 1 .. 59 /\ s \in Nat /\ dev.left \in 1 .. c /\ dev.at = tk[s + (c - dev.left) + 1]
  BY <1>1, StartIs DEF AtTask
<1>3. k \in 1 .. c /\ s + (c - dev.left) + 1 = s + k
  <2>1. k = c - dev.left + 1
    OBVIOUS
  <2> HIDE DEF c
  <2>2. QED
    BY <1>2, <2>1
<1>4. s + k \in 1 .. T(tpl).n_tasks /\ (k < c => (s + k) % c # 0)
  BY <1>1, <1>3, TaskInCopy
<1>5. /\ DOMAIN p.task_tmpl = 1 .. p.n_tasks
      /\ \A b, d \in DOMAIN p.regcmd_tmpl : p.regcmd_tmpl[b].at = p.regcmd_tmpl[d].at => b = d
      /\ \A b \in DOMAIN p.regcmd_tmpl : p.regcmd_tmpl[b].at \in Int
      /\ p.cap[REGCMD] \in Int
  BY <1>1, ChainIs
<1>6. /\ DOMAIN tk = DOMAIN p.task_tmpl /\ DOMAIN rc = DOMAIN p.regcmd_tmpl
      /\ \A j \in DOMAIN p.task_tmpl : tk[j] = Moved(p.task_tmpl[j])
  BY <1>0 DEF ChainInv
<1>7. lo[REGCMD] \in Int
  BY <1>0, BOsAre, RoleNumbers
<1> HIDE DEF c
<1>8. PICK b \in DOMAIN rc : /\ tk[s + k] = lo[REGCMD] + p.regcmd_tmpl[b].at
                             /\ IF (s + k) % c = 0 THEN "next" \notin DOMAIN rc[b]
                                ELSE "next" \in DOMAIN rc[b] /\ rc[b]["next"] = tk[s + k + 1]
  <2>1. ChainFollowsTable
    BY ChainInvGivesTable
  <2>2. s + k \in DOMAIN tk
    BY <1>4, <1>5, <1>6
  <2>3. QED
    BY <1>0, <2>1, <2>2 DEF ChainFollowsTable, c
<1>9. Current = b
  <2>1. \A d \in DOMAIN rc : lo[REGCMD] + p.regcmd_tmpl[d].at = dev.at <=> d = b
    <3> SUFFICES ASSUME NEW d \in DOMAIN rc, lo[REGCMD] + p.regcmd_tmpl[d].at = dev.at PROVE d = b
      BY <1>2, <1>3, <1>8
    <3>1. lo[REGCMD] + p.regcmd_tmpl[d].at = lo[REGCMD] + p.regcmd_tmpl[b].at
      BY <1>2, <1>3, <1>8
    <3>2. p.regcmd_tmpl[d].at \in Int /\ p.regcmd_tmpl[b].at \in Int
      BY <1>5, <1>6
    <3> HIDE DEF p
    <3>3. p.regcmd_tmpl[d].at = p.regcmd_tmpl[b].at
      BY <1>7, <3>1, <3>2
    <3>4. QED
      BY <1>5, <1>6, <3>3
  <2>2. QED
    BY <2>1 DEF Current, BlockAt
<1>10. CapturedBlock(tpl, s + k) = b
  <2> DEFINE a == p.task_tmpl[s + k]
  <2>1. PICK d \in DOMAIN p.regcmd_tmpl : /\ a = p.cap[REGCMD] + p.regcmd_tmpl[d].at
                                          /\ Within(a, p.cap[REGCMD], p.sz[REGCMD])
    BY <1>1, <1>4, <1>5, TemplateAssumption DEF TemplateAssumption, T
  <2>2. tk[s + k] = lo[REGCMD] + (a - p.cap[REGCMD])
    BY <1>4, <1>5, <1>6, <2>1 DEF Moved
  <2>3. p.regcmd_tmpl[d].at \in Int /\ p.regcmd_tmpl[b].at \in Int /\ p.cap[REGCMD] \in Int
    BY <1>5, <1>6
  <2>4. p.regcmd_tmpl[d].at = p.regcmd_tmpl[b].at
    <3> HIDE DEF a, p
    <3>1. lo[REGCMD] + (a - p.cap[REGCMD]) = lo[REGCMD] + p.regcmd_tmpl[b].at
      BY <1>8, <2>2
    <3>2. a - p.cap[REGCMD] = p.regcmd_tmpl[d].at
      BY <2>1, <2>3
    <3>3. QED
      BY <1>7, <2>3, <3>1, <3>2
  <2>5. d = b
    BY <1>5, <1>6, <2>4
  <2>6. \A e \in DOMAIN p.regcmd_tmpl : p.cap[REGCMD] + p.regcmd_tmpl[e].at = a <=> e = b
    <3> SUFFICES ASSUME NEW e \in DOMAIN p.regcmd_tmpl, p.cap[REGCMD] + p.regcmd_tmpl[e].at = a
                 PROVE  e = b
      BY <2>1, <2>5
    <3>1. p.regcmd_tmpl[e].at \in Int
      BY <1>5
    <3>2. p.cap[REGCMD] + p.regcmd_tmpl[e].at = p.cap[REGCMD] + p.regcmd_tmpl[d].at
      BY <2>1
    <3> HIDE DEF a, p
    <3>3. p.regcmd_tmpl[e].at = p.regcmd_tmpl[d].at
      BY <2>3, <3>1, <3>2, Cancel
    <3>4. QED
      BY <1>5, <2>5, <3>3
  <2>7. DOMAIN Blocks(tpl) = DOMAIN p.regcmd_tmpl
    BY DEF Blocks
  <2>8. QED
    BY <2>6, <2>7 DEF CapturedBlock
<1>11. k < c => "next" \in DOMAIN rc[Current] /\ rc[Current]["next"] = tk[s + k + 1]
  BY <1>4, <1>8, <1>9
<1>12. QED
  BY <1>3, <1>4, <1>8, <1>9, <1>10, <1>11 DEF c

\* What a reader finds: X, or a weight BO.
LEMMA HomesAre ==
    ASSUME ContextInv, open # "closed", NEW a \in Int, NEW b \in mapped, Within(a, lo[b], Size(tpl, b))
    PROVE  Homes(a) = {b}
<1>1. tpl \in DOMAIN Templates /\ Layout(tpl, lo, mapped)
  BY ContextGiven
<1>2. \A d \in mapped : lo[d] \in Int /\ Size(tpl, d) \in Nat
  <2>1. \A d \in DOMAIN lo : lo[d] \in Int /\ d \in Nat
    BY BOsAre
  <2>2. \A d \in Nat : Size(tpl, d) \in Nat \/ d = 0
    <3> SUFFICES ASSUME NEW d \in Nat, d # 0 PROVE Size(tpl, d) \in Nat
      OBVIOUS
    <3>1. CASE d <= OUTPUT
      <4>1. d \in 1 .. OUTPUT
        BY <3>1, RoleNumbers
      <4>2. QED
        BY <1>1, <4>1, SixSizes
    <3>2. CASE d > OUTPUT
      BY <1>1, <3>2, SixSizes
    <3>3. QED
      BY <3>1, <3>2, RoleNumbers
  <2>3. 0 \notin DOMAIN lo
    BY <1>1 DEF Layout
  <2>4. mapped \subseteq DOMAIN lo
    BY <1>1 DEF Layout
  <2>5. QED
    BY <2>1, <2>2, <2>3, <2>4
<1>3. ASSUME NEW d \in mapped, d # b PROVE ~Within(a, lo[d], Size(tpl, d))
  <2>1. lo[b] + Size(tpl, b) <= lo[d] \/ lo[d] + Size(tpl, d) <= lo[b]
    BY <1>1, <1>3 DEF Layout
  <2>2. lo[d] \in Int /\ Size(tpl, d) \in Nat /\ lo[b] \in Int /\ Size(tpl, b) \in Nat
    BY <1>2
  <2>3. QED
    BY <2>1, <2>2, NotInBoth
<1>4. QED
  BY <1>3 DEF Homes

LEMMA ContentTyped ==
    ASSUME ContextInv, open # "closed", xin \in Xs, NEW a
    PROVE  TagOK(Content(a))
<1>1. CASE INPUT \in Homes(a)
  <2>1. Content(a) = [m |-> "X", of |-> <<xin>>]
    BY <1>1 DEF Content
  <2>2. QED
    BY <2>1 DEF TagOK
<1>2. CASE INPUT \notin Homes(a) /\ Homes(a) \cap DOMAIN win = {}
  BY <1>2, GarbageTyped DEF Content
<1>3. CASE INPUT \notin Homes(a) /\ Homes(a) \cap DOMAIN win # {}
  <2> DEFINE b == CHOOSE h \in Homes(a) \cap DOMAIN win : TRUE
  <2>1. b \in DOMAIN win
    BY <1>3
  <2>2. Content(a) = [m |-> "W", of |-> <<win[b]>>]
    BY <1>3 DEF Content
  <2> HIDE DEF b
  <2>3. win[b] \in Weights
    BY <2>1, ContextGiven
  <2>4. QED
    BY <2>2, <2>3 DEF TagOK
<1>4. QED
  BY <1>1, <1>2, <1>3

\* The chain word of the block leads to the next task.
LEMMA NextTask ==
    ASSUME RunInv, NpuBlock, NEW s \in Starts(tpl), AtTask(s), dev'.left > 0
    PROVE  AtTask(s)'
<1> DEFINE f == Registers
           c == T(tpl).count
           k == c - dev.left + 1
<1>1. /\ Running /\ UNCHANGED <<tpl, tk>>
      /\ dev' = [at |-> IF "next" \in DOMAIN rc[Current] THEN f.next ELSE 0,
                 left |-> dev.left - 1, group |-> 3 - dev.group,
                 regs |-> [dev.regs EXCEPT ![dev.group] = f],
                 mem |-> IF Kind = "writer" THEN dev.mem ELSE Put(dev.mem, Made(f))]
  BY DEF NpuBlock, bo
<1>2. open # "closed"
  BY <1>1 DEF Running, RunInv, ContextInv
<1>3. tpl \in DOMAIN Templates
  BY <1>2, ContextGiven DEF RunInv
<1>4. /\ k \in 1 .. c /\ Current \in DOMAIN rc
      /\ k < c => "next" \in DOMAIN rc[Current] /\ rc[Current]["next"] = tk[s + k + 1]
  BY <1>1, AtBlock DEF RunInv
<1>5. c \in 1 .. 59 /\ s \in Nat /\ dev.left \in 1 .. c
  BY <1>3, StartIs DEF AtTask
<1>6. dev'.left = dev.left - 1 /\ dev'.at = IF "next" \in DOMAIN rc[Current] THEN f.next ELSE 0
  <2> HIDE DEF f
  <2>1. QED
    BY <1>1
<1>7. k < c /\ s + k + 1 = s + (c - dev'.left) + 1 /\ dev'.left \in 1 .. c
  <2> HIDE DEF c
  <2>1. QED
    BY <1>5, <1>6
<1>8. f.next = rc[Current]["next"]
  BY <1>4, <1>7 DEF Registers, Over
<1>9. dev'.at = tk[s + k + 1]
  BY <1>4, <1>6, <1>7, <1>8
<1>10. QED
  BY <1>1, <1>7, <1>9 DEF AtTask, T

LEMMA BlockRuns ==
    ASSUME RunInv, NpuBlock
    PROVE  Rest'
<1> DEFINE f == Registers
           new == IF Kind = "writer" THEN dev.mem ELSE Put(dev.mem, Made(f))
<1>1. /\ Running /\ ~Idle
      /\ UNCHANGED <<env, open, tpl, lo, mapped, rc, tk, io1, xin, win, job, answer>>
      /\ dev' = [at |-> IF "next" \in DOMAIN rc[Current] THEN f.next ELSE 0,
                 left |-> dev.left - 1, group |-> 3 - dev.group,
                 regs |-> [dev.regs EXCEPT ![dev.group] = f], mem |-> new]
      /\ out' = IF Kind = "writer" THEN Written(f, dev.mem) ELSE out
  BY DEF NpuBlock, bo, Running
<1>2. open # "closed"
  BY <1>1 DEF RunInv, ContextInv
<1>3. tpl \in DOMAIN Templates /\ ServesSlot
  BY <1>2, ContextGiven DEF RunInv
<1>4. PICK s \in Starts(tpl) : AtTask(s)
  BY <1>1 DEF RunInv, DeviceInv, Running
<1> DEFINE c == T(tpl).count
           k == c - dev.left + 1
<1>5. /\ k \in 1 .. c /\ Current \in DOMAIN rc
      /\ k < c => "next" \in DOMAIN rc[Current] /\ rc[Current]["next"] = tk[s + k + 1]
  BY <1>1, <1>4, AtBlock DEF RunInv
<1>6. /\ c \in 1 .. 59 /\ s \in Nat /\ dev.left \in 1 .. c
  BY <1>3, <1>4, StartIs DEF AtTask
<1>7. ContextInv'
  <2>1. ServesSlot'
    BY <1>1, <1>3 DEF ServesSlot, Idle, Commands, T, Blocks, For
  <2>2. QED
    BY <1>1, <1>2, <2>1 DEF RunInv, ContextInv, Layout, Size, T, Slots
<1>8. OffsetInv'
  BY <1>1 DEF RunInv, OffsetInv, Blocks, T
<1>9. ValueInv'
  <2>1. xin \in Xs
    BY <1>1, <1>3 DEF ServesSlot
  <2>2. \A p \in new : TagOK(p.tag)
    <3>1. \A p \in dev.mem : TagOK(p.tag)
      BY DEF RunInv, ValueInv
    <3>2. CASE Kind # "writer"
      <4>1. Kind \in BlockKinds \ {"writer"}
        <5>1. Current \in DOMAIN T(tpl).regcmd_tmpl
          BY <1>2, <1>5 DEF RunInv, ChainInv
        <5>2. QED
          BY <1>3, <3>2, <5>1, ChainIs DEF Kind
      <4>2. TagOK(Content(f.src))
        BY <1>2, <2>1, ContentTyped DEF RunInv
      <4> HIDE DEF f
      <4>3. TagOK(Made(f).tag)
        BY <3>1, <4>1, <4>2, ProducedTyped DEF Made
      <4>4. \A p \in Put(dev.mem, Made(f)) : p \in dev.mem \/ p = Made(f)
        BY DEF Put
      <4>5. QED
        BY <3>1, <3>2, <4>3, <4>4
    <3>3. QED
      BY <3>1, <3>2
  <2>3. out' \in Results
    <3>1. \A p \in dev.mem : TagOK(p.tag)
      BY DEF RunInv, ValueInv
    <3> HIDE DEF f
    <3>2. Written(f, dev.mem) \in Results
      BY <3>1, WrittenTyped
    <3>3. QED
      BY <1>1, <3>2 DEF RunInv, ValueInv
  <2> HIDE DEF f, new
  <2>4. dev'.mem = new
    BY <1>1
  <2>5. QED
    BY <1>1, <2>2, <2>3, <2>4 DEF RunInv, ValueInv, TagOK, Results, Weights
<1>10. DeviceInv'
  <2>1. /\ dev'.left = dev.left - 1 /\ dev'.group = 3 - dev.group
        /\ dev'.at = IF "next" \in DOMAIN rc[Current] THEN f.next ELSE 0
        /\ dev' = [at |-> dev'.at, left |-> dev'.left, group |-> dev'.group, regs |-> dev'.regs,
                   mem |-> dev'.mem]
    <3> HIDE DEF f, new
    <3>1. QED
      BY <1>1
  <2>2. dev'.left \in 0 .. 59 /\ dev'.group \in {1, 2}
    <3> HIDE DEF c
    <3>1. dev.group \in {1, 2}
      BY DEF RunInv, DeviceInv
    <3>2. 3 - dev.group \in {1, 2}
      BY <3>1
    <3>3. dev.left - 1 \in 0 .. 59
      BY <1>6
    <3>4. QED
      BY <2>1, <3>2, <3>3
  <2>3. ASSUME dev'.left > 0 PROVE AtTask(s)'
    BY <1>4, <2>3, NextTask
  <2>4. dev'.left > 0 => (\E z \in Starts(tpl) : AtTask(z))'
    <3>1. Starts(tpl)' = Starts(tpl)
      BY <1>1 DEF Starts, T
    <3>2. QED
      BY <1>4, <2>3, <3>1
  <2>5. ~Idle'
    BY <1>1 DEF Idle
  <2>6. QED
    BY <2>1, <2>2, <2>4, <2>5 DEF DeviceInv
<1>11. QED
  BY <1>7, <1>8, <1>9, <1>10 DEF Rest

LEMMA RestStep == RunInv /\ [Next]_vars => Rest'
<1> SUFFICES ASSUME RunInv, [Next]_vars PROVE Rest'
  OBVIOUS
<1>1. ASSUME NEW t \in DOMAIN Templates, NEW x \in Xs, NEW w \in Ws, npu_matmul_raw(t, x, w)
      PROVE  Rest'
  BY <1>1, RawRuns
<1>2. CASE MatmulRawFails \/ npu_matmul_close \/ npu_mm_cache_close
  <2>1. Shut /\ UNCHANGED <<env, xin, out, job>> /\ Idle /\ answer' \in {answer, Failed}
    BY <1>2 DEF MatmulRawFails, npu_matmul_close, npu_mm_cache_close
  <2>2. job' = <<>> /\ answer' \in Results \cup {Failed}
    BY <2>1 DEF Idle, RunInv, ValueInv
  <2>3. QED
    BY <2>1, <2>2, ShutRuns
<1>3. ASSUME NEW t \in DOMAIN Templates, npu_mm_cache_setup(t) PROVE Rest'
  BY <1>3, SetupRuns
<1>4. ASSUME NEW i \in DOMAIN win, NEW w \in Ws, npu_mm_cache_load(i, w) PROVE Rest'
  BY <1>4, LoadRuns
<1>5. ASSUME NEW i \in DOMAIN win, NEW x \in Xs,
             npu_mm_cache_run(i, x) \/ npu_mm_cache_run_bias(i, x)
      PROVE  Rest'
  BY <1>5, CachedRuns DEF npu_mm_cache_run, npu_mm_cache_run_bias
<1>6. ASSUME NEW x \in Xs, NEW w \in Ws,
             \/ \E n \in Fillers, t \in DOMAIN Templates : npu_test_reach(n, t, x, w)
             \/ \E n \in Extras, t \in DOMAIN Templates : npu_test_wbelow(n, t, x, w)
             \/ \E r \in LowRoles : npu_test_bo_low(r, x, w)
             \/ npu_test_coexist(x, w) \/ npu_test_crossfd(x, w) \/ npu_test_coldpath(x, w)
      PROVE  Rest'
  BY <1>6, ProbesRun
<1>7. CASE NpuBlock
  BY <1>7, BlockRuns
<1>8. CASE SubmitDone \/ SubmitFails
  BY <1>8, SubmitsEnd
<1>9. CASE UNCHANGED vars
  <2>1. UNCHANGED <<env, open, tpl, lo, mapped, rc, tk, io1, xin, win, out, dev, job, answer>>
    BY <1>9 DEF vars, bo
  <2>2. ContextInv' /\ OffsetInv'
    BY <2>1, SameContext DEF RunInv
  <2>3. DeviceInv'
    BY <2>1, SameDevice DEF RunInv, Idle
  <2>4. ValueInv'
    BY <2>1 DEF RunInv, ValueInv, TagOK, Results, Weights
  <2>5. QED
    BY <2>2, <2>3, <2>4 DEF Rest
<1>10. QED
  BY <1>1, <1>2, <1>3, <1>4, <1>5, <1>6, <1>7, <1>8, <1>9 DEF Next

LEMMA RunInit == Init => RunInv
<1> SUFFICES ASSUME Init PROVE RunInv
  OBVIOUS
<1>1. ContextInv /\ OffsetInv
  BY DEF Init, ContextInv, OffsetInv, Idle
<1>2. ValueInv
  BY DEF Init, ValueInv, NoDev, Results
<1>3. DeviceInv
  <2>1. /\ dev.left = 0 /\ dev.group = 1
        /\ dev = [at |-> dev.at, left |-> dev.left, group |-> dev.group, regs |-> dev.regs, mem |-> dev.mem]
    BY DEF Init, NoDev
  <2>2. QED
    BY <2>1 DEF DeviceInv
<1>4. ChainInv /\ SlotInv
  BY DEF Init, ChainInv, SlotInv
<1>5. QED
  BY <1>1, <1>2, <1>3, <1>4 DEF RunInv

LEMMA RunStep == RunInv /\ [Next]_vars => RunInv'
  BY RestStep, ChainStep, SlotStep DEF RunInv, Rest

\* The type invariant of the runs: whatever is opened, repointed, run, aborted
\* and closed, in any order.
THEOREM Types == Spec => []TypeOK
<1>1. QED
  BY RunInit, RunStep, RunInvGivesTypeOK, PTL DEF Spec

(***************************************************************************)
(* The states of a captured run.                                           *)
(***************************************************************************)
Follow(t, s, n, state) ==
    state = [k \in 0 .. n |-> IF k = 0 THEN Fresh ELSE CapturedStep(t, s + k, state[k - 1])]

LEMMA FollowExists ==
    ASSUME NEW t, NEW s, NEW n \in Nat
    PROVE  \E state : Follow(t, s, n, state)
<1> DEFINE Good == {i \in Nat : \E state : Follow(t, s, i, state)}
<1>1. 0 \in Good
  <2>1. Follow(t, s, 0, [k \in 0 .. 0 |-> Fresh])
    BY DEF Follow
  <2>2. QED
    BY <2>1
<1>2. ASSUME NEW j \in 0 .. n - 1, j \in Good PROVE j + 1 \in Good
  <2>1. PICK old : Follow(t, s, j, old)
    BY <1>2
  <2> DEFINE new == [k \in 0 .. j + 1 |-> IF k <= j THEN old[k] ELSE CapturedStep(t, s + (j + 1), old[j])]
  <2>2. \A k \in 0 .. j : old[k] = IF k = 0 THEN Fresh ELSE CapturedStep(t, s + k, old[k - 1])
    BY <2>1 DEF Follow
  <2>3. ASSUME NEW k \in 0 .. j + 1
        PROVE  new[k] = IF k = 0 THEN Fresh ELSE CapturedStep(t, s + k, new[k - 1])
    <3>1. CASE k = 0
      BY <2>2, <3>1
    <3>2. CASE k # 0 /\ k <= j
      <4>1. k \in 0 .. j /\ k - 1 \in 0 .. j + 1 /\ k - 1 <= j
        BY <3>2
      <4>2. new[k] = old[k] /\ new[k - 1] = old[k - 1]
        BY <3>2, <4>1
      <4>3. QED
        BY <2>2, <3>2, <4>1, <4>2
    <3>3. CASE ~ (k <= j)
      <4>1. k = j + 1 /\ k # 0 /\ k - 1 = j /\ j \in 0 .. j + 1 /\ j <= j
        BY <3>3
      <4>2. new[k] = CapturedStep(t, s + (j + 1), old[j]) /\ new[j] = old[j]
        BY <3>3, <4>1
      <4>3. QED
        BY <4>1, <4>2
    <3>4. QED
      BY <3>1, <3>2, <3>3
  <2>4. Follow(t, s, j + 1, new)
    <3>1. new = [k \in 0 .. j + 1 |-> new[k]]
      OBVIOUS
    <3> HIDE DEF new
    <3>2. QED
      BY <2>3, <3>1 DEF Follow
  <2>5. QED
    BY <2>4
<1> HIDE DEF Good
<1>3. n \in Good
  BY <1>1, <1>2, Induct
<1>4. QED
  BY <1>3 DEF Good

LEMMA CapturedStates ==
    ASSUME NEW t \in DOMAIN Templates, NEW s
    PROVE  /\ Captured(t, s)[0] = Fresh
           /\ \A k \in 1 .. T(t).count :
                  Captured(t, s)[k] = CapturedStep(t, s + k, Captured(t, s)[k - 1])
<1> DEFINE n == T(t).count
           state == CHOOSE z : Follow(t, s, n, z)
<1>1. n \in Nat
  BY ChainIs
<1>2. Follow(t, s, n, state)
  BY <1>1, FollowExists, Zenon
<1>3. Captured(t, s) = CHOOSE z : z = [k \in 0 .. n |->
          IF k = 0 THEN Fresh ELSE CapturedStep(t, s + k, z[k - 1])]
  BY DEF Captured
<1>4. Captured(t, s) = state
  BY <1>3, Zenon DEF Follow
<1>5. state = [k \in 0 .. n |-> IF k = 0 THEN Fresh ELSE CapturedStep(t, s + k, state[k - 1])]
  BY <1>2 DEF Follow
<1> HIDE DEF state, n
<1>6. state[0] = Fresh
  BY <1>1, <1>5
<1>7. \A k \in 1 .. n : state[k] = CapturedStep(t, s + k, state[k - 1])
  <2>1. \A k \in 1 .. n : k \in 0 .. n /\ k # 0
    BY <1>1
  <2>2. QED
    BY <1>5, <2>1
<1>8. QED
  BY <1>4, <1>6, <1>7 DEF n

\* What a captured run makes is among the pieces.
LEMMA MadeArePieces ==
    ASSUME NEW t, NEW s \in Starts(t), NEW k \in 0 .. T(t).count
    PROVE  Captured(t, s)[k].made \subseteq Pieces(t)
  BY DEF Pieces

LEMMA PiecesAre ==
    ASSUME NEW t \in DOMAIN Templates
    PROVE  IsFiniteSet(Pieces(t)) /\ \A p \in Pieces(t) : PieceRight(p)
  BY CapturedAssumption DEF CapturedAssumption

\* The block of a task after the state before it.
LEMMA TaskIsRight ==
    ASSUME NEW t \in DOMAIN Templates, NEW s \in Starts(t), NEW k \in 1 .. T(t).count,
           NEW d, d = Captured(t, s)[k - 1]
    PROVE  /\ BlockRight(t, s + k, d, Pieces(t))
           /\ CapturedKind(t, s + k) = "writer" <=> k = T(t).count
           /\ CapturedKind(t, s + k) # "writer" =>
                  /\ CapturedPiece(t, s + k, d) \in Pieces(t)
                  /\ PieceRight(CapturedPiece(t, s + k, d))
<1>1. /\ BlockRight(t, s + k, d, Pieces(t))
      /\ CapturedKind(t, s + k) = "writer" <=> k = T(t).count
  BY CapturedAssumption DEF CapturedAssumption
<1>2. ASSUME CapturedKind(t, s + k) # "writer" PROVE CapturedPiece(t, s + k, d) \in Pieces(t)
  <2>1. Captured(t, s)[k] = CapturedStep(t, s + k, d)
    BY CapturedStates
  <2>2. CapturedPiece(t, s + k, d) \in Captured(t, s)[k].made
    BY <1>2, <2>1 DEF CapturedStep
  <2>3. k \in 0 .. T(t).count
    BY ChainIs
  <2>4. QED
    BY <2>2, <2>3, MadeArePieces
<1>3. QED
  BY <1>1, <1>2, PiecesAre

(***************************************************************************)
(* A captured piece with the operands of a call, and the pieces that an    *)
(* earlier call left.                                                      *)
(***************************************************************************)
As(tag, x, w) == [m |-> tag.m, of |-> Operands(tag.m, x, w), at |-> tag.at]
Inst(p, x, w) == Piece(p.lo, p.n, p.step, p.len, As(p.tag, x, w))

LEMMA InstIs ==
    ASSUME NEW p, NEW x, NEW w, NEW q, q = Inst(p, x, w)
    PROVE  /\ q.lo = p.lo /\ q.n = p.n /\ q.step = p.step /\ q.len = p.len
           /\ q.tag = As(p.tag, x, w)
           /\ q.tag.m = p.tag.m /\ q.tag.of = Operands(p.tag.m, x, w) /\ q.tag.at = p.tag.at
  BY DEF Inst, Piece, As

\* The tag read for other inputs, from the captured tag's matrix and place.
LEMMA AsFields ==
    ASSUME NEW tag, NEW x, NEW w, NEW m, tag.m = m
    PROVE  As(tag, x, w) = [m |-> m, of |-> Operands(m, x, w), at |-> tag.at]
  BY DEF As

\* It lies where the captured piece lay.
LEMMA SameBytes ==
    ASSUME NEW p, NEW x, NEW w, NEW r, NEW at
    PROVE  /\ Common(Inst(p, x, w), r, at) = Common(p, r, at)
           /\ End(Inst(p, x, w)) = End(p)
           /\ \A o, y, v : Clash(Inst(p, x, w), Inst(o, y, v)) <=> Clash(p, o)
<1>1. Common(Inst(p, x, w), r, at) = Common(p, r, at)
  <2> DEFINE q == Inst(p, x, w)
  <2>1. q.lo = p.lo /\ q.n = p.n /\ q.step = p.step /\ q.len = p.len
    BY InstIs
  <2> HIDE DEF q
  <2>2. Common(q, r, at) = Common(p, r, at)
    BY <2>1 DEF Common
  <2>3. QED
    BY <2>2 DEF q
<1>2. End(Inst(p, x, w)) = End(p)
  BY InstIs DEF End
<1>3. ASSUME NEW o, NEW y, NEW v PROVE Clash(Inst(p, x, w), Inst(o, y, v)) <=> Clash(p, o)
  <2> DEFINE q == Inst(p, x, w)
             u == Inst(o, y, v)
  <2>1. q.lo = p.lo /\ q.n = p.n /\ q.step = p.step /\ q.len = p.len
    BY InstIs
  <2>2. u.lo = o.lo /\ u.n = o.n /\ u.step = o.step /\ u.len = o.len
    BY InstIs
  <2> HIDE DEF q, u
  <2>3. Clash(q, u) <=> Clash(p, o)
    BY <2>1, <2>2 DEF Clash, End
  <2>4. QED
    BY <2>3 DEF q, u
<1>4. QED
  BY <1>1, <1>2, <1>3

\* Different pieces stay different, and pieces of different matrices too.
LEMMA InstInjective ==
    ASSUME NEW p, NEW q, PieceRight(p), PieceRight(q), NEW x, NEW w
    PROVE  /\ As(p.tag, x, w) = As(q.tag, x, w) => p.tag = q.tag
           /\ Inst(p, x, w) = Inst(q, x, w) => p = q
<1>1. /\ p = Piece(p.lo, p.n, p.step, p.len, p.tag)
      /\ q = Piece(q.lo, q.n, q.step, q.len, q.tag)
      /\ p.tag = [m |-> p.tag.m, of |-> Operands(p.tag.m, "x", "w"), at |-> p.tag.at]
      /\ q.tag = [m |-> q.tag.m, of |-> Operands(q.tag.m, "x", "w"), at |-> q.tag.at]
  BY DEF PieceRight
<1>2. ASSUME As(p.tag, x, w) = As(q.tag, x, w) PROVE p.tag = q.tag
  <2>1. p.tag.m = q.tag.m /\ p.tag.at = q.tag.at
    BY <1>2 DEF As
  <2>2. QED
    BY <1>1, <2>1
<1>3. ASSUME Inst(p, x, w) = Inst(q, x, w) PROVE p = q
  <2>1. /\ p.lo = q.lo /\ p.n = q.n /\ p.step = q.step /\ p.len = q.len
        /\ As(p.tag, x, w) = As(q.tag, x, w)
    BY <1>3, InstIs
  <2>2. QED
    BY <1>1, <1>2, <2>1
<1>4. QED
  BY <1>2, <1>3

\* A region of integers.
RegionOK(r) == {r.lo, r.n, r.step, r.len} \subseteq Int /\ r.step > 0

LEMMA CommonInt ==
    ASSUME NEW p, PieceRight(p), NEW r, RegionOK(r), NEW at \in Int
    PROVE  Common(p, r, at) \in Int
<1>1. /\ p.lo \in Int /\ p.n \in Int /\ p.step \in Int /\ p.len \in Int /\ p.step > 0
      /\ r.lo \in Int /\ r.n \in Int /\ r.step \in Int /\ r.len \in Int /\ r.step > 0
  BY DEF PieceRight, RegionOK
<1> DEFINE Row(q) == (q.lo - at) \div q.step
           Col(q) == (q.lo - at) % q.step
<1>2. Row(p) \in Int /\ Col(p) \in Int /\ Row(r) \in Int /\ Col(r) \in Int
  BY <1>1
<1> DEFINE rows == Lower(Row(p) + p.n, Row(r) + r.n) - Upper(Row(p), Row(r))
           cols == Lower(Col(p) + p.len, Col(r) + r.len) - Upper(Col(p), Col(r))
<1>3. Common(p, r, at) = Upper(rows, 0) * Upper(cols, 0)
  BY DEF Common
<1> HIDE DEF Row, Col
<1>4. rows \in Int /\ cols \in Int
  BY <1>1, <1>2 DEF Lower, Upper
<1> HIDE DEF rows, cols
<1>5. Upper(rows, 0) \in Int /\ Upper(cols, 0) \in Int
  BY <1>4 DEF Upper
<1>6. QED
  BY <1>3, <1>5

\* A piece of an earlier call, that nothing of this one has touched.
Leftover(q, t, made) ==
    \E c \in Pieces(t) : (\E y, v : q = Inst(c, y, v)) /\ \A p \in made : ~Clash(c, p)

\* Scratch holds what the captured run had there, with the operands x and w, and
\* what earlier calls left where this one has not written yet.
SameScratch(mem, d, t, x, w) ==
    /\ IsFiniteSet(mem)
    /\ d.mem \subseteq d.made /\ d.made \subseteq Pieces(t)
    /\ \A p \in d.mem : Inst(p, x, w) \in mem
    /\ \A q \in mem : (\E p \in d.mem : q = Inst(p, x, w)) \/ Leftover(q, t, d.made)

\* Every matrix covers of a region what the matrix of the captured run covered.
LEMMA CoversSame ==
    ASSUME NEW t \in DOMAIN Templates, NEW mem, NEW d, NEW x, NEW w, SameScratch(mem, d, t, x, w),
           NEW r, RegionOK(r.piece), Filled(d, r, Pieces(t)),
           NEW tag, tag.m = r.m, tag.at \in Int
    PROVE  /\ Covered({q \in mem : q.tag = tag /\ q.step = r.piece.step}, r.piece, tag.at)
              = Covered({p \in d.mem : As(p.tag, x, w) = tag /\ p.step = r.piece.step}, r.piece, tag.at)
<1> DEFINE A == {p \in d.mem : As(p.tag, x, w) = tag /\ p.step = r.piece.step}
           B == {q \in mem : q.tag = tag /\ q.step = r.piece.step}
           f == [p \in A |-> Inst(p, x, w)]
           at == tag.at
<1>0. /\ IsFiniteSet(mem) /\ d.mem \subseteq Pieces(t) /\ d.made \subseteq Pieces(t)
      /\ \A p \in d.mem : Inst(p, x, w) \in mem
      /\ \A q \in mem : (\E p \in d.mem : q = Inst(p, x, w)) \/ Leftover(q, t, d.made)
  BY DEF SameScratch
<1>1. \A p \in Pieces(t) : PieceRight(p) /\ Common(p, r.piece, at) \in Int
  BY PiecesAre, CommonInt
<1>2. Countable(A, r.piece, at)
  <2>1. IsFiniteSet(Pieces(t)) /\ A \subseteq Pieces(t)
    BY <1>0, PiecesAre
  <2> HIDE DEF A
  <2>2. QED
    BY <1>1, <2>1, FS_Subset DEF Countable
<1>3. ASSUME NEW q \in B
      PROVE  Common(q, r.piece, at) \in Int /\ ((\E p \in A : q = f[p]) \/ Common(q, r.piece, at) = 0)
  <2>0. q \in mem /\ q.tag = tag /\ q.step = r.piece.step
    OBVIOUS
  <2>1. CASE \E p \in d.mem : q = Inst(p, x, w)
    <3>1. PICK p \in d.mem : q = Inst(p, x, w)
      BY <2>1
    <3>2. p \in A
      BY <2>0, <3>1, InstIs
    <3>3. Common(q, r.piece, at) = Common(p, r.piece, at)
      BY <3>1, SameBytes
    <3> HIDE DEF A
    <3>4. q = f[p]
      BY <3>1, <3>2
    <3>5. QED
      BY <1>0, <1>1, <3>2, <3>3, <3>4
  <2>2. CASE Leftover(q, t, d.made)
    <3>0. PICK c \in Pieces(t) : (\E y, v : q = Inst(c, y, v)) /\ \A p \in d.made : ~Clash(c, p)
      BY <2>2 DEF Leftover
    <3>1. PICK y, v : q = Inst(c, y, v)
      BY <3>0
    <3>2. c.tag.m = r.m /\ c.step = r.piece.step /\ c.tag.at = at
      BY <2>0, <3>1, InstIs
    <3>3. Common(c, r.piece, at) = 0
      BY <3>0, <3>2 DEF Filled
    <3>4. Common(q, r.piece, at) = Common(c, r.piece, at)
      BY <3>1, SameBytes
    <3>5. QED
      BY <3>3, <3>4
  <2>3. QED
    BY <1>0, <2>0, <2>1, <2>2
<1>4. Countable(B, r.piece, at)
  <2>1. IsFiniteSet(B)
    BY <1>0, FS_Subset
  <2> HIDE DEF A, B, f
  <2>2. QED
    BY <1>3, <2>1 DEF Countable
<1>5. \A p \in A : f[p] \in B /\ Common(f[p], r.piece, at) = Common(p, r.piece, at)
  <2> SUFFICES ASSUME NEW p \in A
               PROVE  f[p] \in B /\ Common(f[p], r.piece, at) = Common(p, r.piece, at)
    OBVIOUS
  <2>1. f[p] = Inst(p, x, w)
    OBVIOUS
  <2>2. Inst(p, x, w) \in mem /\ Inst(p, x, w).tag = tag /\ Inst(p, x, w).step = r.piece.step
    BY <1>0, InstIs
  <2>3. QED
    BY <2>1, <2>2, SameBytes
<1>6. \A p, q \in A : f[p] = f[q] => p = q
  BY <1>0, <1>1, InstInjective
<1> HIDE DEF A, B, f
<1>7. Copies(A, B, f, r.piece, at)
  BY <1>2, <1>3, <1>4, <1>5, <1>6 DEF Copies
<1>8. Covered(B, r.piece, at) = Covered(A, r.piece, at)
  BY <1>7, CoveredSame
<1>9. QED
  BY <1>8 DEF A, B

\* A block finds in a region the matrix that the captured run found there.
LEMMA FindsSame ==
    ASSUME NEW t \in DOMAIN Templates, NEW mem, NEW d, NEW x, NEW w, SameScratch(mem, d, t, x, w),
           NEW r, RegionOK(r.piece), Filled(d, r, Pieces(t))
    PROVE  /\ Held(d.mem, r.piece, r.m) # Garbage /\ Held(mem, r.piece, r.m) # Garbage
           /\ Held(d.mem, r.piece, r.m).m = r.m
           /\ Held(mem, r.piece, r.m) = As(Held(d.mem, r.piece, r.m), x, w)
<1> DEFINE R == r.piece
           full == R.n * R.len
<1>0. /\ d.mem \subseteq Pieces(t) /\ IsFiniteSet(mem)
      /\ \A p \in d.mem : Inst(p, x, w) \in mem
      /\ \A q \in mem : \E c \in Pieces(t) : \E y, v : q = Inst(c, y, v)
  BY DEF SameScratch, Leftover
<1>1. PICK old \in {p.tag : p \in d.mem} : Holders(d.mem, R, r.m) = {old}
  BY DEF Filled
<1>2. full > 0 /\ full \in Int
  BY DEF Filled, RegionOK
<1>3. PICK first \in d.mem : first.tag = old
  BY <1>1
<1>4. \A p \in Pieces(t) : /\ PieceRight(p) /\ p.tag.at \in Int /\ p.tag.m \in Matrices
                           /\ p.tag = [m |-> p.tag.m, of |-> Operands(p.tag.m, "x", "w"), at |-> p.tag.at]
  BY PiecesAre DEF PieceRight
<1>5. old.m = r.m /\ Covered({p \in d.mem : p.tag = old /\ p.step = R.step}, R, old.at) = full
  BY <1>1 DEF Holders
<1> DEFINE tag == As(old, x, w)
           Part(s) == {p \in d.mem : As(p.tag, x, w) = s /\ p.step = R.step}
           Now(s) == {q \in mem : q.tag = s /\ q.step = R.step}
<1>6. tag.m = r.m /\ tag.at = old.at /\ old.at \in Int
  BY <1>0, <1>3, <1>4, <1>5 DEF As
<1>7. \A p, q \in d.mem : As(p.tag, x, w) = As(q.tag, x, w) <=> p.tag = q.tag
  <2> SUFFICES ASSUME NEW p \in d.mem, NEW q \in d.mem
               PROVE  As(p.tag, x, w) = As(q.tag, x, w) <=> p.tag = q.tag
    OBVIOUS
  <2>1. PieceRight(p) /\ PieceRight(q)
    BY <1>0, <1>4
  <2>2. As(p.tag, x, w) = As(q.tag, x, w) => p.tag = q.tag
    BY <2>1, InstInjective
  <2>3. QED
    BY <2>2
<1>8. Part(tag) = {p \in d.mem : p.tag = old /\ p.step = R.step}
  <2>1. \A p \in d.mem : As(p.tag, x, w) = tag <=> p.tag = old
    BY <1>3, <1>7
  <2>2. QED
    BY <2>1
<1>9. \A s : s.m = r.m /\ s.at \in Int => Covered(Now(s), R, s.at) = Covered(Part(s), R, s.at)
  BY CoversSame
<1>10. tag \in Holders(mem, R, r.m)
  <2>1. tag \in {q.tag : q \in mem}
    <3>1. Inst(first, x, w) \in mem /\ Inst(first, x, w).tag = tag
      BY <1>0, <1>3, InstIs
    <3>2. QED
      BY <3>1
  <2>2. Covered(Now(tag), R, tag.at) = full
    <3>1. Covered(Now(tag), R, tag.at) = Covered(Part(tag), R, tag.at)
      BY <1>6, <1>9
    <3>2. QED
      BY <1>5, <1>6, <1>8, <3>1
  <2> HIDE DEF tag, R
  <2>3. QED
    BY <1>6, <2>1, <2>2 DEF Holders, R
<1>11. ASSUME NEW s \in Holders(mem, R, r.m) PROVE s = tag
  <2>1. /\ s \in {q.tag : q \in mem} /\ s.m = r.m
        /\ Covered(Now(s), R, s.at) = full
    BY <1>11 DEF Holders
  <2>2. s.at \in Int
    <3>1. PICK q \in mem : s = q.tag
      BY <2>1
    <3>2. PICK c \in Pieces(t) : \E y, v : q = Inst(c, y, v)
      BY <1>0, <3>1
    <3>3. s.at = c.tag.at
      BY <3>1, <3>2, InstIs
    <3>4. QED
      BY <1>4, <3>3
  <2>3. Covered(Part(s), R, s.at) = full
    BY <1>9, <2>1, <2>2
  <2>4. PICK p \in d.mem : As(p.tag, x, w) = s
    <3>1. Part(s) # {}
      <4>1. CASE Part(s) = {}
        <5>1. Covered(Part(s), R, s.at) = 0
          BY <4>1, CoveredNone
        <5>2. QED
          BY <1>2, <2>3, <5>1
      <4>2. QED
        BY <4>1
    <3>2. QED
      BY <3>1
  <2>5. p.tag.m = r.m /\ s.at = p.tag.at
    BY <2>1, <2>4 DEF As
  <2>6. \A q \in d.mem : As(q.tag, x, w) = s <=> q.tag = p.tag
    BY <1>7, <2>4
  <2>7. Part(s) = {q \in d.mem : q.tag = p.tag /\ q.step = R.step}
    BY <2>6
  <2>8. Covered({q \in d.mem : q.tag = p.tag /\ q.step = R.step}, R, p.tag.at) = full
    BY <2>3, <2>5, <2>7
  <2>9. p.tag \in Holders(d.mem, R, r.m)
    BY <2>5, <2>8 DEF Holders
  <2>10. p.tag = old
    BY <1>1, <2>9
  <2>11. QED
    BY <2>4, <2>10
<1>12. Held(mem, R, r.m) = tag
  BY <1>10, <1>11 DEF Held
<1>13. Held(d.mem, R, r.m) = old
  BY <1>1 DEF Held
<1>14. old # Garbage /\ tag # Garbage
  <2>1. r.m # "garbage"
    BY <1>0, <1>3, <1>4, <1>5 DEF Matrices
  <2>2. QED
    BY <1>5, <1>6, <2>1 DEF Garbage
<1>15. QED
  BY <1>5, <1>12, <1>13, <1>14

(***************************************************************************)
(* What a block makes of the same registers and the same matrices.         *)
(***************************************************************************)
Agree(f, g, R) == \A r \in R : f[r] = g[r]

\* A piece that went right holds no garbage.
LEMMA NoGarbage == ASSUME NEW p, PieceRight(p) PROVE p.tag # Garbage
<1>1. p.tag.m # "garbage"
  BY DEF PieceRight, Matrices
<1>2. QED
  BY <1>1 DEF Garbage

LEMMA ReaderSame ==
    ASSUME NEW f, NEW g, Agree(f, g, {"dst", "rows", "cols", "width", "line", "notch"}),
           NEW base, NEW low, f.src - base = g.src - low,
           NEW m \in {"X", "W"}, NEW x, NEW w, NEW what, what = [m |-> m, of |-> Operands(m, x, w)],
           NEW old, old.m = m, NEW p, p = ReadPiece(g, old, low), PieceRight(p)
    PROVE  ReadPiece(f, what, base) = Inst(p, x, w)
<1>1. /\ f.dst = g.dst /\ f.rows = g.rows /\ f.cols = g.cols /\ f.width = g.width
      /\ f.line = g.line /\ f.notch = g.notch
  BY DEF Agree
<1> DEFINE row == (g.src - low) \div g.line
           col == ((g.src - low) % g.line) \div 2
           step == g.width * 16
           at == g.dst - (row \div 8) * step - col * 16
<1>2. Drift(f) = Drift(g)
  BY <1>1 DEF Drift
<1>3. p = Piece(g.dst, g.rows \div 8, step, g.cols * 16,
                IF Drift(g) # 0 \/ row % 8 # 0 THEN Garbage ELSE [m |-> old.m, of |-> old.of, at |-> at])
  BY DEF ReadPiece
<1>4. ReadPiece(f, what, base)
        = Piece(g.dst, g.rows \div 8, step, g.cols * 16,
                IF Drift(g) # 0 \/ row % 8 # 0 THEN Garbage ELSE [m |-> what.m, of |-> what.of, at |-> at])
  BY <1>1, <1>2 DEF ReadPiece
<1> HIDE DEF row, step, at
<1>5. /\ p.lo = g.dst /\ p.n = g.rows \div 8 /\ p.step = step /\ p.len = g.cols * 16
      /\ p.tag = IF Drift(g) # 0 \/ row % 8 # 0 THEN Garbage ELSE [m |-> old.m, of |-> old.of, at |-> at]
  BY <1>3 DEF Piece
<1>6. ~ (Drift(g) # 0 \/ row % 8 # 0)
  BY <1>5, NoGarbage
<1>7. p.tag.m = m /\ p.tag.at = at
  BY <1>5, <1>6
<1>8. As(p.tag, x, w) = [m |-> what.m, of |-> what.of, at |-> at]
  BY <1>7 DEF As
<1>9. QED
  BY <1>4, <1>5, <1>6, <1>8 DEF Inst

LEMMA TransposerSame ==
    ASSUME NEW f, NEW g, Agree(f, g, {"feature", "weight", "dst", "k"}), NEW mem, NEW mem0, NEW ones,
           NEW x, NEW w, NEW h, NEW h0,
           h = Held(mem, Piece(g.feature, 1, g.k * 16, g.k * 16, Garbage), "X"),
           h0 = Held(mem0, Piece(g.feature, 1, g.k * 16, g.k * 16, Garbage), "X"),
           h # Garbage, h0 # Garbage, h0.m = "X", h = As(h0, x, w),
           NEW p, p = TransposePiece(g, mem0, ones), PieceRight(p)
    PROVE  TransposePiece(f, mem, ones) = Inst(p, x, w)
<1>1. f.feature = g.feature /\ f.weight = g.weight /\ f.dst = g.dst /\ f.k = g.k
  BY DEF Agree
<1>2. h.m = "X" /\ h.of = <<x>> /\ h.at = h0.at
  BY DEF As, Operands
<1> DEFINE Tag(z) == IF z = Garbage \/ ~Transposes(ones) THEN Garbage
                     ELSE [m |-> "T", of |-> z.of, at |-> g.dst - ((g.feature - z.at) \div (g.k * 16)) * 128]
<1>3. /\ p = Piece(g.dst, g.k \div 8, 1024, 128, Tag(h0))
      /\ TransposePiece(f, mem, ones) = Piece(g.dst, g.k \div 8, 1024, 128, Tag(h))
  BY <1>1 DEF TransposePiece
<1>4. Tag(h0) = p.tag
  BY <1>3 DEF Piece
<1>5. Transposes(ones)
  BY <1>4, NoGarbage
<1>6. p.tag.m = "T" /\ p.tag.at = g.dst - ((g.feature - h0.at) \div (g.k * 16)) * 128
  BY <1>4, <1>5
<1>7. Tag(h) = As(p.tag, x, w)
  <2>1. As(p.tag, x, w) = [m |-> "T", of |-> <<x>>, at |-> p.tag.at]
    BY <1>6, AsFields DEF Operands
  <2>2. Tag(h) = [m |-> "T", of |-> h.of, at |-> g.dst - ((g.feature - h.at) \div (g.k * 16)) * 128]
    BY <1>5
  <2> HIDE DEF Tag
  <2>3. QED
    BY <2>1, <2>2, <1>2, <1>6
<1> HIDE DEF Tag
<1>8. QED
  BY <1>3, <1>7, <1>4 DEF Inst, Piece

LEMMA TileSame ==
    ASSUME NEW f, NEW g, Agree(f, g, {"feature", "weight", "dst", "cols", "k", "step"}), NEW mem, NEW mem0,
           NEW x, NEW w, NEW h, NEW h0, NEW b, NEW b0,
           h = Held(mem, Piece(g.feature, g.k \div 8, g.step, g.cols * 16, Garbage), "W"),
           h0 = Held(mem0, Piece(g.feature, g.k \div 8, g.step, g.cols * 16, Garbage), "W"),
           b = Held(mem, Piece(g.weight, 1, g.k * 128, g.k * 128, Garbage), "B"),
           b0 = Held(mem0, Piece(g.weight, 1, g.k * 128, g.k * 128, Garbage), "B"),
           h # Garbage, h0 # Garbage, h0.m = "W", h = As(h0, x, w),
           b # Garbage, b0 # Garbage, b0.m = "B", b = As(b0, x, w),
           NEW p, p = TilePiece(g, mem0), PieceRight(p)
    PROVE  TilePiece(f, mem) = Inst(p, x, w)
<1>1. f.feature = g.feature /\ f.weight = g.weight /\ f.dst = g.dst /\ f.cols = g.cols /\ f.k = g.k /\ f.step = g.step
  BY DEF Agree
<1>2. h.of = <<w>> /\ h.at = h0.at /\ b.of = <<x>> /\ b.at = b0.at
  BY DEF As, Operands
<1> DEFINE Tag(y, z) == IF y = Garbage \/ z = Garbage \/ z.at # g.weight THEN Garbage
                        ELSE [m |-> "Z", of |-> z.of \o y.of, at |-> g.dst - (g.feature - y.at)]
<1>3. /\ p = Piece(g.dst, 8, g.step, g.cols * 16, Tag(h0, b0))
      /\ TilePiece(f, mem) = Piece(g.dst, 8, g.step, g.cols * 16, Tag(h, b))
  BY <1>1 DEF TilePiece
<1>4. Tag(h0, b0) = p.tag
  BY <1>3 DEF Piece
<1>5. b0.at = g.weight
  BY <1>4, NoGarbage
<1>6. p.tag.m = "Z" /\ p.tag.at = g.dst - (g.feature - h0.at)
  BY <1>4, <1>5
<1>7. b.of \o h.of = <<x, w>>
  BY <1>2, Pair
<1>8. Tag(h, b) = As(p.tag, x, w)
  <2>1. As(p.tag, x, w) = [m |-> "Z", of |-> <<x, w>>, at |-> p.tag.at]
    BY <1>6, AsFields DEF Operands
  <2>2. b.at = g.weight
    BY <1>2, <1>5
  <2>3. Tag(h, b) = [m |-> "Z", of |-> b.of \o h.of, at |-> g.dst - (g.feature - h.at)]
    BY <2>2
  <2> HIDE DEF Tag
  <2>4. QED
    BY <2>1, <2>3, <1>2, <1>6, <1>7
<1> HIDE DEF Tag
<1>9. QED
  BY <1>3, <1>8, <1>4 DEF Inst, Piece

LEMMA RepackerSame ==
    ASSUME NEW f, NEW g, Agree(f, g, {"src", "dst", "pass", "k"}), NEW mem, NEW mem0, NEW x, NEW w,
           NEW m, m = IF g.pass = 1 THEN "T" ELSE "A",
           NEW R, R = IF g.pass = 1 THEN Piece(g.src, g.k \div 8, 1024, 1024, Garbage)
                                    ELSE Piece(g.src, 1, g.k * 128, g.k * 128, Garbage),
           NEW h, NEW h0, h = Held(mem, R, m), h0 = Held(mem0, R, m),
           h # Garbage, h0 # Garbage, h0.m = m, h = As(h0, x, w),
           NEW p, p = RepackPiece(g, mem0), PieceRight(p)
    PROVE  RepackPiece(f, mem) = Inst(p, x, w)
<1>1. f.src = g.src /\ f.dst = g.dst /\ f.pass = g.pass /\ f.k = g.k
  BY DEF Agree
<1>2. h.of = <<x>> /\ h.at = h0.at
  BY DEF As, Operands
<1> DEFINE Good(z) == z # Garbage /\ z.at = g.src
           Tag(y, z) == CASE g.pass = 1 /\ Good(y) -> [m |-> "A", of |-> y.of, at |-> g.dst]
                          [] g.pass = 2 /\ Good(z) -> [m |-> "B", of |-> z.of, at |-> g.dst]
                          [] OTHER -> Garbage
           turned(z) == Held(z, Piece(g.src, g.k \div 8, 1024, 1024, Garbage), "T")
           packed(z) == Held(z, Piece(g.src, 1, g.k * 128, g.k * 128, Garbage), "A")
<1>3. /\ p = Piece(g.dst, 1, g.k * 128, g.k * 128, Tag(turned(mem0), packed(mem0)))
      /\ RepackPiece(f, mem) = Piece(g.dst, 1, g.k * 128, g.k * 128, Tag(turned(mem), packed(mem)))
  BY <1>1 DEF RepackPiece
<1> HIDE DEF turned, packed
<1>4. Tag(turned(mem0), packed(mem0)) = p.tag /\ p.tag # Garbage
  <2> HIDE DEF Tag
  <2>1. QED
    BY <1>3, NoGarbage DEF Piece
<1>5. Tag(turned(mem), packed(mem)) = As(p.tag, x, w)
  <2>1. CASE g.pass = 1
    <3>1. h = turned(mem) /\ h0 = turned(mem0)
      BY <2>1 DEF turned
    <3>2. Good(h0)
      BY <1>4, <2>1, <3>1
    <3>3. p.tag.m = "A" /\ p.tag.at = g.dst
      BY <1>4, <2>1, <3>1, <3>2
    <3>4. Good(h)
      BY <1>2, <3>2
    <3>5. Tag(turned(mem), packed(mem)) = [m |-> "A", of |-> h.of, at |-> g.dst]
      BY <2>1, <3>1, <3>4
    <3>6. As(p.tag, x, w) = [m |-> "A", of |-> <<x>>, at |-> g.dst]
      BY <3>3, AsFields DEF Operands
    <3> HIDE DEF Tag
    <3>7. QED
      BY <1>2, <3>5, <3>6
  <2>2. CASE g.pass # 1
    <3>1. h = packed(mem) /\ h0 = packed(mem0)
      BY <2>2 DEF packed
    <3>2. Good(h0) /\ g.pass = 2
      BY <1>4, <2>2, <3>1
    <3>3. p.tag.m = "B" /\ p.tag.at = g.dst
      BY <1>4, <2>2, <3>1, <3>2
    <3>4. Good(h)
      BY <1>2, <3>2
    <3>5. Tag(turned(mem), packed(mem)) = [m |-> "B", of |-> h.of, at |-> g.dst]
      BY <2>2, <3>1, <3>2, <3>4
    <3>6. As(p.tag, x, w) = [m |-> "B", of |-> <<x>>, at |-> g.dst]
      BY <3>3, AsFields DEF Operands
    <3> HIDE DEF Tag
    <3>7. QED
      BY <1>2, <3>5, <3>6
  <2>3. QED
    BY <2>1, <2>2
<1> HIDE DEF Tag
<1>6. QED
  BY <1>3, <1>4, <1>5 DEF Inst, Piece

(***************************************************************************)
(* The registers of a block in a context, and those it had when captured.  *)
(***************************************************************************)
Moves(f, g, t, at, wb) ==
    /\ DOMAIN f = DOMAIN g
    /\ \A r \in DOMAIN g \ {"next"} : f[r] = Repoint(g[r], T(t).cap, For(at, wb), T(t).sz)

LEMMA CommandsMove ==
    ASSUME NEW t, NEW at, NEW wb, NEW b \in DOMAIN Blocks(t)
    PROVE  Moves(Commands(t, at, wb)[b], Blocks(t)[b], t, at, wb)
<1>1. Commands(t, at, wb)[b] = [r \in DOMAIN Blocks(t)[b] |-> Word(t, at, wb, b, r)]
  BY CommandsAre
<1>2. QED
  BY <1>1 DEF Moves, Word

LEMMA OverMoves ==
    ASSUME NEW t, NEW at, NEW wb, NEW f1, NEW g1, NEW f2, NEW g2,
           Moves(f1, g1, t, at, wb), Moves(f2, g2, t, at, wb)
    PROVE  Moves(Over(f1, f2), Over(g1, g2), t, at, wb)
<1> DEFINE f == Over(f1, f2)
           g == Over(g1, g2)
           A == DOMAIN g1
           B == DOMAIN g2
<1>1. DOMAIN f1 = A /\ DOMAIN f2 = B
  BY DEF Moves
<1>2. /\ DOMAIN f = A \cup B /\ DOMAIN g = A \cup B
      /\ \A r \in A \cup B : f[r] = IF r \in A THEN f1[r] ELSE f2[r]
      /\ \A r \in A \cup B : g[r] = IF r \in A THEN g1[r] ELSE g2[r]
  BY <1>1 DEF Over
<1> HIDE DEF f, g
<1>3. ASSUME NEW r \in (A \cup B) \ {"next"}
      PROVE  f[r] = Repoint(g[r], T(t).cap, For(at, wb), T(t).sz)
  <2>1. CASE r \in A
    BY <1>2, <2>1 DEF Moves
  <2>2. CASE r \notin A
    BY <1>2, <2>2 DEF Moves
  <2>3. QED
    BY <2>1, <2>2
<1> HIDE DEF A, B
<1>4. Moves(f, g, t, at, wb)
  BY <1>2, <1>3 DEF Moves
<1>5. QED
  BY <1>4 DEF f, g

\* The program lies where it was captured.
Placed(t, at) == at[REGCMD] = T(t).cap[REGCMD] /\ at[SCRATCH] = T(t).cap[SCRATCH]

LEMMA StaysPut ==
    ASSUME NEW t \in DOMAIN Templates, NEW a \in Int, Stays(t, a), NEW at, NEW wb, Placed(t, at)
    PROVE  Repoint(a, T(t).cap, For(at, wb), T(t).sz) = a
<1> DEFINE n == OUTPUT
           cap == T(t).cap
           sz == T(t).sz
           q == FirstWindow(a, cap, sz)
           my == For(at, wb)
<1>1. n \in Roles /\ cap \in [1 .. n -> Int] /\ sz \in [1 .. n -> Nat]
  BY CaptureIs, RoleNumbers
<1>2. my[REGCMD] = cap[REGCMD] /\ my[SCRATCH] = cap[SCRATCH]
  BY RoleNumbers DEF For, Placed
<1>3. Windows(a, cap, sz) \subseteq {REGCMD, SCRATCH}
  BY DEF Stays
<1> HIDE DEF n, cap, sz, my
<1>4. CASE Windows(a, cap, sz) = {}
  BY <1>4 DEF Repoint, cap, sz, my
<1>5. CASE Windows(a, cap, sz) # {}
  <2>1. q \in Windows(a, cap, sz) /\ q \in 1 .. n
    BY <1>1, <1>5, FirstWindowIs
  <2>2. my[q] = cap[q] /\ cap[q] \in Int
    BY <1>1, <1>2, <1>3, <2>1
  <2>3. my[q] + (a - cap[q]) = a
    BY <2>2
  <2>4. Repoint(a, cap, my, sz) = a
    BY <1>5, <2>3 DEF Repoint
  <2>5. QED
    BY <2>4 DEF cap, sz, my
<1>6. QED
  BY <1>4, <1>5

\* The BOs of the context, as the patchers see them.
LEMMA ForIs ==
    ASSUME NEW t \in DOMAIN Templates, NEW at, NEW exists, Layout(t, at, exists), NEW wb \in DOMAIN at
    PROVE  /\ For(at, wb) \in [1 .. OUTPUT -> Int]
           /\ For(at, wb)[INPUT] = at[INPUT] /\ For(at, wb)[OUTPUT] = at[OUTPUT]
           /\ For(at, wb)[WEIGHTS] = at[wb]
<1>1. PICK n \in Nat : OUTPUT <= n /\ at \in [1 .. n -> Int]
  BY DEF Layout
<1>2. 1 .. OUTPUT \subseteq 1 .. n /\ wb \in 1 .. n
  BY <1>1, RoleNumbers
<1>3. QED
  BY <1>1, <1>2, RoleNumbers DEF For

\* RepointKeepsRole, and where the word goes.
LEMMA RoleMoves ==
    ASSUME NEW n \in Roles, NEW cap \in [1 .. n -> Int], NEW sz \in [1 .. n -> Nat],
           NEW my \in [1 .. n -> Int], Disjoint(cap, sz), NEW a \in Int,
           NEW r \in 1 .. n, Within(a, cap[r], sz[r]), NEW v, v = Repoint(a, cap, my, sz)
    PROVE  /\ v - my[r] = a - cap[r] /\ Within(v, my[r], sz[r])
           /\ v \in Int /\ my[r] \in Int /\ cap[r] \in Int /\ sz[r] \in Nat
<1>1. Windows(a, cap, sz) = {r}
  BY OneWindow
<1>2. FirstWindow(a, cap, sz) = r
  BY <1>1, FirstWindowIs
<1>3. v = my[r] + (a - cap[r])
  BY <1>1, <1>2 DEF Repoint
<1>4. my[r] \in Int /\ cap[r] \in Int /\ sz[r] \in Nat
  OBVIOUS
<1>5. QED
  BY <1>3, <1>4 DEF Within

LEMMA MovesWithRole ==
    ASSUME NEW t \in DOMAIN Templates, NEW at, NEW exists, Layout(t, at, exists), NEW wb \in DOMAIN at,
           NEW a \in Int, NEW role \in 1 .. OUTPUT, Within(a, T(t).cap[role], T(t).sz[role]),
           NEW v, v = Repoint(a, T(t).cap, For(at, wb), T(t).sz)
    PROVE  /\ v - For(at, wb)[role] = a - T(t).cap[role]
           /\ Within(v, For(at, wb)[role], T(t).sz[role])
           /\ v \in Int /\ For(at, wb)[role] \in Int /\ T(t).cap[role] \in Int /\ T(t).sz[role] \in Nat
<1> DEFINE n == OUTPUT
           cap == T(t).cap
           sz == T(t).sz
           my == For(at, wb)
<1>1. /\ n \in Roles /\ cap \in [1 .. n -> Int] /\ sz \in [1 .. n -> Nat] /\ Disjoint(cap, sz)
      /\ my \in [1 .. n -> Int] /\ role \in 1 .. n
  BY CaptureIs, RoleNumbers, ForIs
<1>2. Within(a, cap[role], sz[role]) /\ v = Repoint(a, cap, my, sz) /\ a \in Int
  OBVIOUS
<1> HIDE DEF n, cap, sz, my
<1>3. /\ v - my[role] = a - cap[role] /\ Within(v, my[role], sz[role])
      /\ v \in Int /\ my[role] \in Int /\ cap[role] \in Int /\ sz[role] \in Nat
  BY <1>1, <1>2, RoleMoves
<1>4. QED
  BY <1>3 DEF cap, sz, my

\* One block of a program that lies in place: all but the addresses in X, W and
\* the output are the captured words.
Placing(t, s, k, d, g, f, at, exists, wb) ==
    /\ t \in DOMAIN Templates /\ s \in Starts(t) /\ k \in 1 .. T(t).count
    /\ d = Captured(t, s)[k - 1] /\ g = CapturedRegisters(t, s + k, d)
    /\ Layout(t, at, exists) /\ wb \in DOMAIN at /\ Placed(t, at)
    /\ Moves(f, g, t, at, wb)

LEMMA PlacedRegisters ==
    ASSUME NEW t, NEW s, NEW k, NEW d, NEW g, NEW f, NEW at, NEW exists, NEW wb,
           Placing(t, s, k, d, g, f, at, exists, wb), NEW kind, kind = CapturedKind(t, s + k)
    PROVE  /\ Uses(kind) \subseteq DOMAIN g
           /\ \A r \in Uses(kind) : g[r] \in Int /\ f[r] = Repoint(g[r], T(t).cap, For(at, wb), T(t).sz)
           /\ \A r \in Uses(kind) :
                  ~ (kind = "reader" /\ r = "src") /\ ~ (kind = "writer" /\ r = "dst") => f[r] = g[r]
<1>0. /\ t \in DOMAIN Templates /\ s \in Starts(t) /\ k \in 1 .. T(t).count
      /\ d = Captured(t, s)[k - 1] /\ g = CapturedRegisters(t, s + k, d)
      /\ Placed(t, at) /\ Moves(f, g, t, at, wb)
  BY DEF Placing
<1>1. /\ Uses(kind) \subseteq DOMAIN g
      /\ \A r \in Uses(kind) : g[r] \in Int
      /\ \A r \in Uses(kind) : \/ kind = "reader" /\ r = "src"
                               \/ kind = "writer" /\ r = "dst"
                               \/ Stays(t, g[r])
  <2>1. BlockRight(t, s + k, d, Pieces(t))
    BY <1>0, TaskIsRight
  <2>2. QED
    BY <1>0, <2>1 DEF BlockRight
<1>2. kind \in BlockKinds
  <2>1. \A i \in 1 .. T(t).n_tasks : CapturedKind(t, i) \in BlockKinds
    <3> SUFFICES ASSUME NEW i \in 1 .. T(t).n_tasks PROVE CapturedKind(t, i) \in BlockKinds
      OBVIOUS
    <3> DEFINE p == T(t)
    <3>1. i \in DOMAIN p.task_tmpl
      BY <1>0, ChainIs
    <3>2. PICK b \in DOMAIN p.regcmd_tmpl : /\ p.task_tmpl[i] = p.cap[REGCMD] + p.regcmd_tmpl[b].at
                                            /\ Within(p.task_tmpl[i], p.cap[REGCMD], p.sz[REGCMD])
      BY <1>0, <3>1, TemplateAssumption DEF TemplateAssumption, T
    <3>3. CapturedBlock(t, i) \in DOMAIN p.regcmd_tmpl
      BY <3>2 DEF CapturedBlock, Blocks
    <3>4. QED
      BY <1>0, <3>3, ChainIs DEF CapturedKind
  <2>2. QED
    BY <1>0, <2>1, TaskInCopy
<1>3. "next" \notin Uses(kind)
  BY <1>2 DEF Uses, BlockKinds
<1>4. \A r \in Uses(kind) : f[r] = Repoint(g[r], T(t).cap, For(at, wb), T(t).sz)
  BY <1>0, <1>1, <1>3 DEF Moves
<1>5. ASSUME NEW r \in Uses(kind), Stays(t, g[r]) PROVE f[r] = g[r]
  BY <1>0, <1>1, <1>4, <1>5, StaysPut
<1>6. QED
  BY <1>1, <1>4, <1>5

(***************************************************************************)
(* One block of a program that lies in place makes what the captured block *)
(* made, from the operands of the call.                                    *)
(***************************************************************************)
Of(t, s, k, d, g, kind) ==
    /\ t \in DOMAIN Templates /\ s \in Starts(t) /\ k \in 1 .. T(t).count
    /\ d = Captured(t, s)[k - 1] /\ g = CapturedRegisters(t, s + k, d) /\ kind = CapturedKind(t, s + k)

LEMMA ReadsRight ==
    ASSUME NEW t, NEW s, NEW k, NEW d, NEW g, NEW kind, Of(t, s, k, d, g, kind),
           NEW mem, NEW x, NEW w, SameScratch(mem, d, t, x, w),
           NEW low \in Int, NEW n \in Int, NEW step \in Int, NEW len \in Int,
           NEW p, p = Piece(low, n, step, len, Garbage), NEW m, [piece |-> p, m |-> m] \in Reads(kind, g)
    PROVE  /\ Held(d.mem, p, m) # Garbage /\ Held(mem, p, m) # Garbage
           /\ Held(d.mem, p, m).m = m /\ Held(mem, p, m) = As(Held(d.mem, p, m), x, w)
<1> DEFINE r == [piece |-> p, m |-> m]
<1>1. r.piece = p /\ r.m = m
  OBVIOUS
<1>2. t \in DOMAIN Templates /\ r \in Reads(kind, g)
  BY DEF Of
<1> HIDE DEF r
<1>3. Filled(d, r, Pieces(t))
  <2>1. BlockRight(t, s + k, d, Pieces(t))
    BY TaskIsRight DEF Of
  <2>2. QED
    BY <1>2, <2>1 DEF BlockRight, Of
<1>4. RegionOK(r.piece)
  <2>1. p.lo = low /\ p.n = n /\ p.step = step /\ p.len = len
    BY DEF Piece
  <2>2. r.piece.step > 0
    BY <1>3 DEF Filled
  <2>3. QED
    BY <1>1, <2>1, <2>2 DEF RegionOK
<1>5. QED
  BY <1>1, <1>2, <1>3, <1>4, FindsSame

\* Of the captured block: its registers, its piece.
LEMMA BlockIs ==
    ASSUME NEW t, NEW s, NEW k, NEW d, NEW g, NEW kind, Of(t, s, k, d, g, kind)
    PROVE  /\ BlockRight(t, s + k, d, Pieces(t))
           /\ \A r \in Uses(kind) : g[r] \in Int
           /\ kind # "writer" => PieceRight(CapturedPiece(t, s + k, d))
           /\ kind = "writer" <=> k = T(t).count
<1>1. BlockRight(t, s + k, d, Pieces(t))
  BY TaskIsRight DEF Of
<1>2. \A r \in Uses(kind) : g[r] \in Int
  BY <1>1 DEF BlockRight, Of
<1>3. QED
  BY <1>1, <1>2, TaskIsRight DEF Of

\* What the source role of a captured reader holds.
Source(t, g) ==
    IF SourceRole(t, g) = INPUT THEN [m |-> "X", of |-> <<"x">>] ELSE [m |-> "W", of |-> <<"w">>]
Taps(t, g, base) == IF g.weight = base + \hC0 THEN T(t).ones ELSE {}

LEMMA PieceIs ==
    ASSUME NEW t, NEW s, NEW k, NEW d, NEW g, NEW kind, Of(t, s, k, d, g, kind)
    PROVE  CapturedPiece(t, s + k, d)
               = Produced(kind, g, d.mem, Source(t, g), T(t).cap[SourceRole(t, g)], Taps(t, g, T(t).cap[REGCMD]))
  BY DEF Of, CapturedPiece, Source, Taps

LEMMA ReaderMakes ==
    ASSUME NEW t, NEW s, NEW k, NEW d, NEW g, Of(t, s, k, d, g, "reader"), NEW f, NEW mem, NEW x, NEW w,
           Agree(f, g, Uses("reader") \ {"src"}), NEW base, NEW ones, NEW what,
           f.src - base = g.src - T(t).cap[SourceRole(t, g)],
           what = [m |-> Source(t, g).m, of |-> Operands(Source(t, g).m, x, w)]
    PROVE  Produced("reader", f, mem, what, base, ones) = Inst(CapturedPiece(t, s + k, d), x, w)
<1> DEFINE p == CapturedPiece(t, s + k, d)
           old == Source(t, g)
           low == T(t).cap[SourceRole(t, g)]
<1>1. PieceRight(p)
  BY BlockIs
<1>2. p = ReadPiece(g, old, low)
  <2>1. p = Produced("reader", g, d.mem, old, low, Taps(t, g, T(t).cap[REGCMD]))
    BY PieceIs
  <2>2. QED
    BY <2>1 DEF Produced
<1>3. old.m \in {"X", "W"}
  BY DEF Source
<1>4. Agree(f, g, {"dst", "rows", "cols", "width", "line", "notch"})
  BY DEF Agree, Uses
<1> HIDE DEF p, old, low
<1>5. f.src - base = g.src - low /\ what = [m |-> old.m, of |-> Operands(old.m, x, w)]
  BY DEF low, old
<1>6. ReadPiece(f, what, base) = Inst(p, x, w)
  BY <1>1, <1>2, <1>3, <1>4, <1>5, ReaderSame
<1>7. QED
  BY <1>6 DEF Produced, p

LEMMA TransposerMakes ==
    ASSUME NEW t, NEW s, NEW k, NEW d, NEW g, Of(t, s, k, d, g, "transposer"), NEW f, NEW mem,
           NEW x, NEW w, SameScratch(mem, d, t, x, w), Agree(f, g, Uses("transposer")),
           NEW base, NEW ones, NEW what, ones = Taps(t, g, T(t).cap[REGCMD])
    PROVE  Produced("transposer", f, mem, what, base, ones) = Inst(CapturedPiece(t, s + k, d), x, w)
<1> DEFINE p == CapturedPiece(t, s + k, d)
           R == Piece(g.feature, 1, g.k * 16, g.k * 16, Garbage)
           h == Held(mem, R, "X")
           h0 == Held(d.mem, R, "X")
<1>1. PieceRight(p)
  BY BlockIs
<1>2. p = TransposePiece(g, d.mem, ones)
  <2>1. p = Produced("transposer", g, d.mem, Source(t, g), T(t).cap[SourceRole(t, g)], ones)
    BY PieceIs
  <2>2. QED
    BY <2>1 DEF Produced
<1>3. g.feature \in Int /\ g.k \in Int
  BY BlockIs DEF Uses
<1>4. [piece |-> R, m |-> "X"] \in Reads("transposer", g)
  BY DEF Reads
<1>5. h # Garbage /\ h0 # Garbage /\ h0.m = "X" /\ h = As(h0, x, w)
  <2>1. g.k * 16 \in Int /\ 1 \in Int
    BY <1>3
  <2>2. QED
    BY <1>3, <1>4, <2>1, ReadsRight
<1>6. Agree(f, g, {"feature", "weight", "dst", "k"})
  BY DEF Agree, Uses
<1> HIDE DEF p
<1>7. TransposePiece(f, mem, ones) = Inst(p, x, w)
  BY <1>1, <1>2, <1>5, <1>6, TransposerSame
<1>8. QED
  BY <1>7 DEF Produced, p

LEMMA TileMakes ==
    ASSUME NEW t, NEW s, NEW k, NEW d, NEW g, Of(t, s, k, d, g, "tile"), NEW f, NEW mem,
           NEW x, NEW w, SameScratch(mem, d, t, x, w), Agree(f, g, Uses("tile")),
           NEW base, NEW ones, NEW what
    PROVE  Produced("tile", f, mem, what, base, ones) = Inst(CapturedPiece(t, s + k, d), x, w)
<1> DEFINE p == CapturedPiece(t, s + k, d)
           R == Piece(g.feature, g.k \div 8, g.step, g.cols * 16, Garbage)
           Q == Piece(g.weight, 1, g.k * 128, g.k * 128, Garbage)
           h == Held(mem, R, "W")
           h0 == Held(d.mem, R, "W")
           b == Held(mem, Q, "B")
           b0 == Held(d.mem, Q, "B")
<1>1. PieceRight(p)
  BY BlockIs
<1>2. p = TilePiece(g, d.mem)
  <2>1. p = Produced("tile", g, d.mem, Source(t, g), T(t).cap[SourceRole(t, g)], Taps(t, g, T(t).cap[REGCMD]))
    BY PieceIs
  <2>2. QED
    BY <2>1 DEF Produced
<1>3. g.feature \in Int /\ g.k \in Int /\ g.step \in Int /\ g.cols \in Int /\ g.weight \in Int
  BY BlockIs DEF Uses
<1>4. [piece |-> R, m |-> "W"] \in Reads("tile", g) /\ [piece |-> Q, m |-> "B"] \in Reads("tile", g)
  BY DEF Reads
<1>5. h # Garbage /\ h0 # Garbage /\ h0.m = "W" /\ h = As(h0, x, w)
  <2>1. g.k \div 8 \in Int /\ g.cols * 16 \in Int
    BY <1>3
  <2>2. QED
    BY <1>3, <1>4, <2>1, ReadsRight
<1>6. b # Garbage /\ b0 # Garbage /\ b0.m = "B" /\ b = As(b0, x, w)
  <2>1. g.k * 128 \in Int /\ 1 \in Int
    BY <1>3
  <2>2. QED
    BY <1>3, <1>4, <2>1, ReadsRight
<1>7. Agree(f, g, {"feature", "weight", "dst", "cols", "k", "step"})
  BY DEF Agree, Uses
<1> HIDE DEF p
<1>8. TilePiece(f, mem) = Inst(p, x, w)
  BY <1>1, <1>2, <1>5, <1>6, <1>7, TileSame
<1>9. QED
  BY <1>8 DEF Produced, p

LEMMA RepackerMakes ==
    ASSUME NEW t, NEW s, NEW k, NEW d, NEW g, Of(t, s, k, d, g, "repacker"), NEW f, NEW mem,
           NEW x, NEW w, SameScratch(mem, d, t, x, w), Agree(f, g, Uses("repacker")),
           NEW base, NEW ones, NEW what
    PROVE  /\ Produced("repacker", f, mem, what, base, ones) = Inst(CapturedPiece(t, s + k, d), x, w)
           /\ Drift(f) = 0
<1> DEFINE p == CapturedPiece(t, s + k, d)
           m == IF g.pass = 1 THEN "T" ELSE "A"
           R == IF g.pass = 1 THEN Piece(g.src, g.k \div 8, 1024, 1024, Garbage)
                              ELSE Piece(g.src, 1, g.k * 128, g.k * 128, Garbage)
           h == Held(mem, R, m)
           h0 == Held(d.mem, R, m)
<1>1. PieceRight(p)
  BY BlockIs
<1>2. Drift(g) = 0 /\ Drift(f) = 0
  <2>1. Drift(g) = 0
    BY BlockIs DEF BlockRight, Of
  <2>2. Drift(f) = Drift(g)
    BY DEF Agree, Uses, Drift
  <2>3. QED
    BY <2>1, <2>2
<1>3. p = RepackPiece(g, d.mem)
  <2>1. p = Produced("repacker", g, d.mem, Source(t, g), T(t).cap[SourceRole(t, g)], Taps(t, g, T(t).cap[REGCMD]))
    BY PieceIs
  <2>2. QED
    BY <1>2, <2>1 DEF Produced
<1>4. g.src \in Int /\ g.k \in Int
  BY BlockIs DEF Uses
<1>5. h # Garbage /\ h0 # Garbage /\ h0.m = m /\ h = As(h0, x, w)
  <2>1. CASE g.pass = 1
    <3> DEFINE Q == Piece(g.src, g.k \div 8, 1024, 1024, Garbage)
    <3>1. [piece |-> Q, m |-> "T"] \in Reads("repacker", g)
      BY <2>1 DEF Reads
    <3>2. g.k \div 8 \in Int /\ 1024 \in Int
      BY <1>4
    <3>3. /\ Held(mem, Q, "T") # Garbage /\ Held(d.mem, Q, "T") # Garbage
          /\ Held(d.mem, Q, "T").m = "T" /\ Held(mem, Q, "T") = As(Held(d.mem, Q, "T"), x, w)
      BY <1>4, <3>1, <3>2, ReadsRight
    <3>4. R = Q /\ m = "T"
      BY <2>1
    <3>5. QED
      BY <3>3, <3>4
  <2>2. CASE g.pass # 1
    <3> DEFINE Q == Piece(g.src, 1, g.k * 128, g.k * 128, Garbage)
    <3>1. [piece |-> Q, m |-> "A"] \in Reads("repacker", g)
      BY <2>2 DEF Reads
    <3>2. g.k * 128 \in Int /\ 1 \in Int
      BY <1>4
    <3>3. /\ Held(mem, Q, "A") # Garbage /\ Held(d.mem, Q, "A") # Garbage
          /\ Held(d.mem, Q, "A").m = "A" /\ Held(mem, Q, "A") = As(Held(d.mem, Q, "A"), x, w)
      BY <1>4, <3>1, <3>2, ReadsRight
    <3>4. R = Q /\ m = "A"
      BY <2>2
    <3>5. QED
      BY <3>3, <3>4
  <2>3. QED
    BY <2>1, <2>2
<1>6. Agree(f, g, {"src", "dst", "pass", "k"})
  BY DEF Agree, Uses
<1> HIDE DEF p, R, m
<1>7. RepackPiece(f, mem) = Inst(p, x, w)
  BY <1>1, <1>3, <1>5, <1>6, RepackerSame DEF R, m
<1>8. QED
  BY <1>2, <1>7 DEF Produced, p

LEMMA WriterWrites ==
    ASSUME NEW t, NEW s, NEW k, NEW d, NEW g, Of(t, s, k, d, g, "writer"), NEW f, NEW mem,
           NEW x, NEW w, SameScratch(mem, d, t, x, w), Agree(f, g, {"src", "step"})
    PROVE  Written(f, mem) = <<x, w>>
<1> DEFINE R == Piece(g.src, 8, g.step, g.step, Garbage)
           h == Held(mem, R, "Z")
           h0 == Held(d.mem, R, "Z")
<1>1. g.src \in Int /\ g.step \in Int
  BY BlockIs DEF Uses
<1>2. [piece |-> R, m |-> "Z"] \in Reads("writer", g)
  BY DEF Reads
<1>3. h # Garbage /\ h0 # Garbage /\ h0.m = "Z" /\ h = As(h0, x, w)
  <2>1. 8 \in Int
    OBVIOUS
  <2>2. QED
    BY <1>1, <1>2, <2>1, ReadsRight
<1>4. Written(g, d.mem) = <<"x", "w">>
  BY BlockIs DEF BlockRight, Of
<1>5. h0.at = g.src
  <2>1. <<"x", "w">> # <<>>
    OBVIOUS
  <2>2. Written(g, d.mem) = IF h0 = Garbage \/ h0.at # g.src THEN <<>> ELSE h0.of
    BY DEF Written
  <2> HIDE DEF h0
  <2>3. QED
    BY <1>4, <2>1, <2>2
<1>6. h.at = g.src /\ h.of = <<x, w>>
  BY <1>3, <1>5 DEF As, Operands
<1>7. Written(f, mem) = IF h = Garbage \/ h.at # g.src THEN <<>> ELSE h.of
  BY DEF Written, Agree
<1> HIDE DEF h
<1>8. QED
  BY <1>3, <1>6, <1>7

(***************************************************************************)
(* A call in progress, block by block, beside the captured run.            *)
(***************************************************************************)
RegsMove(regs, old, t, at, wb) ==
    DOMAIN regs = 1 .. 2 /\ DOMAIN old = 1 .. 2 /\ \A i \in 1 .. 2 : Moves(regs[i], old[i], t, at, wb)

\* After as many blocks the NPU is where the captured run was, with the operands
\* of this call; after the last one the product is in the output BO.
Alongside(s, wb, d) ==
    /\ wb \in DOMAIN win /\ rc = Commands(tpl, lo, wb) /\ job = <<xin, win[wb]>>
    /\ dev.left \in 0 .. T(tpl).count /\ (dev.left > 0 => AtTask(s))
    /\ d = Captured(tpl, s)[T(tpl).count - dev.left]
    /\ dev.group = d.group /\ RegsMove(dev.regs, d.regs, tpl, lo, wb)
    /\ SameScratch(dev.mem, d, tpl, xin, win[wb])
    /\ dev.left = 0 => out = job

\* The block the NPU is at, and the one the captured run was at.
AtSame(s, k, d, g, f, wb) ==
    /\ Of(tpl, s, k, d, g, Kind) /\ Placing(tpl, s, k, d, g, f, lo, mapped, wb)
    /\ SameScratch(dev.mem, d, tpl, xin, win[wb])
    /\ f = Registers /\ wb \in DOMAIN win /\ wb \in Slots(lo) /\ mapped = DOMAIN lo
    /\ k = T(tpl).count - dev.left + 1 /\ open # "closed"

LEMMA AlongsideGives ==
    ASSUME RunInv, InPlace, Running, NEW s \in Starts(tpl), NEW wb, NEW d, Alongside(s, wb, d),
           NEW k, k = T(tpl).count - dev.left + 1
    PROVE  AtSame(s, k, d, CapturedRegisters(tpl, s + k, d), Registers, wb)
<1> DEFINE g == CapturedRegisters(tpl, s + k, d)
<1>1. open # "closed"
  BY DEF Running, RunInv, ContextInv
<1>2. tpl \in DOMAIN Templates /\ Layout(tpl, lo, mapped) /\ DOMAIN win \subseteq Slots(lo)
  BY <1>1, ContextGiven DEF RunInv
<1>3. wb \in DOMAIN win /\ wb \in Slots(lo) /\ wb \in DOMAIN lo
  <2>1. wb \in DOMAIN win /\ wb \in Slots(lo)
    BY <1>2 DEF Alongside
  <2>2. WEIGHTS \in DOMAIN lo
    BY <1>1, BOsAre, RoleNumbers DEF RunInv
  <2>3. QED
    BY <2>1, <2>2 DEF Slots
<1>4. AtTask(s)
  BY DEF Alongside, Running
<1>5. k \in 1 .. T(tpl).count /\ Current = CapturedBlock(tpl, s + k) /\ Current \in DOMAIN rc
  BY <1>4, AtBlock DEF RunInv
<1>6. k - 1 = T(tpl).count - dev.left
  <2>1. T(tpl).count \in Int /\ dev.left \in Int
    BY <1>2, <1>4, StartIs DEF AtTask
  <2>2. QED
    BY <2>1
<1>7. d = Captured(tpl, s)[k - 1]
  BY <1>6 DEF Alongside
<1>8. Kind = CapturedKind(tpl, s + k)
  BY <1>5 DEF Kind, CapturedKind
<1>9. Of(tpl, s, k, d, g, Kind)
  BY <1>2, <1>5, <1>7, <1>8 DEF Of
<1>10. Placed(tpl, lo) /\ mapped = DOMAIN lo
  BY <1>1, <1>2 DEF InPlace, Placed, Layout
<1>11. Moves(Registers, g, tpl, lo, wb)
  <2> DEFINE b == Current
  <2>1. rc = Commands(tpl, lo, wb) /\ dev.group = d.group /\ RegsMove(dev.regs, d.regs, tpl, lo, wb)
    BY DEF Alongside
  <2>2. b \in DOMAIN Blocks(tpl)
    BY <1>1, <1>5 DEF RunInv, ChainInv, Blocks
  <2>3. Moves(rc[b], Blocks(tpl)[b], tpl, lo, wb)
    BY <2>1, <2>2, CommandsMove
  <2>4. Moves(dev.regs[dev.group], d.regs[d.group], tpl, lo, wb)
    <3>1. dev.group \in 1 .. 2
      BY DEF RunInv, DeviceInv
    <3>2. QED
      BY <2>1, <3>1 DEF RegsMove
  <2>5. Registers = Over(rc[b], dev.regs[dev.group]) /\ g = Over(Blocks(tpl)[b], d.regs[d.group])
    BY <1>5 DEF Registers, CapturedRegisters
  <2> HIDE DEF b, g
  <2>6. QED
    BY <2>3, <2>4, <2>5, OverMoves
<1>12. Placing(tpl, s, k, d, g, Registers, lo, mapped, wb)
  BY <1>2, <1>3, <1>5, <1>7, <1>10, <1>11 DEF Placing
<1>13. QED
  BY <1>1, <1>3, <1>9, <1>10, <1>12 DEF AtSame, Alongside

\* Where a reader finds its source: the input, or the weight BO of this call.
Home(g, wb) == IF SourceRole(tpl, g) = INPUT THEN INPUT ELSE wb

Finds(g, f, wb) ==
    LET role == SourceRole(tpl, g)
        b == Home(g, wb)
    IN  /\ Base(f.src) = lo[b] /\ b \in mapped /\ Size(tpl, b) = T(tpl).sz[role]
        /\ f.src - lo[b] = g.src - T(tpl).cap[role]
        /\ {f.src, g.src, lo[b], T(tpl).cap[role], T(tpl).sz[role]} \subseteq Int
        /\ Content(f.src) = [m |-> Source(tpl, g).m, of |-> Operands(Source(tpl, g).m, xin, win[wb])]

LEMMA ReaderFinds ==
    ASSUME ContextInv, xin \in Xs, NEW s, NEW k, NEW d, NEW g, NEW f, NEW wb, AtSame(s, k, d, g, f, wb),
           Kind = "reader"
    PROVE  Finds(g, f, wb)
<1> DEFINE cap == T(tpl).cap
           sz == T(tpl).sz
           role == SourceRole(tpl, g)
           b == Home(g, wb)
<1>00. b = IF role = INPUT THEN INPUT ELSE wb
  BY DEF Home
<1>0. /\ Placing(tpl, s, k, d, g, f, lo, mapped, wb) /\ Of(tpl, s, k, d, g, "reader")
      /\ wb \in DOMAIN win /\ wb \in Slots(lo) /\ mapped = DOMAIN lo /\ open # "closed"
  BY DEF AtSame
<1>1. /\ tpl \in DOMAIN Templates /\ Layout(tpl, lo, mapped) /\ wb \in DOMAIN lo
  BY <1>0 DEF Placing
<1>2. Within(g.src, cap[role], sz[role]) /\ g.src \in Int
  <2>1. BlockRight(tpl, s + k, d, Pieces(tpl))
    BY <1>0, BlockIs
  <2>2. \A r \in Uses("reader") : g[r] \in Int
    BY <1>0, BlockIs
  <2>3. QED
    BY <1>0, <2>1, <2>2 DEF BlockRight, Of, Uses
<1>3. f.src = Repoint(g.src, cap, For(lo, wb), sz)
  <2>1. "reader" = CapturedKind(tpl, s + k)
    BY <1>0 DEF Of
  <2>2. \A r \in Uses("reader") : f[r] = Repoint(g[r], cap, For(lo, wb), sz)
    BY <1>0, <2>1, PlacedRegisters
  <2>3. QED
    BY <2>2 DEF Uses
<1>4. role \in 1 .. OUTPUT /\ (role = INPUT \/ role = WEIGHTS)
  BY RoleNumbers DEF SourceRole
<1>5. /\ f.src - For(lo, wb)[role] = g.src - cap[role]
      /\ Within(f.src, For(lo, wb)[role], sz[role])
      /\ f.src \in Int /\ For(lo, wb)[role] \in Int /\ cap[role] \in Int /\ sz[role] \in Nat
  BY <1>1, <1>2, <1>3, <1>4, MovesWithRole
<1>6. For(lo, wb)[role] = lo[b]
  BY <1>00, <1>1, <1>4, ForIs, RoleNumbers
<1>7. INPUT \in DOMAIN lo /\ b \in mapped
  BY <1>0, <1>00, <1>1, BOsAre, RoleNumbers
<1>8. Size(tpl, b) = sz[role]
  <2>1. CASE role = INPUT
    BY <1>00, <1>1, <2>1, SixSizes
  <2>2. CASE role # INPUT
    <3>1. role = WEIGHTS /\ b = wb
      BY <1>00, <1>4, <2>2
    <3>2. CASE wb = WEIGHTS
      BY <1>1, <3>1, <3>2, SixSizes
    <3>3. CASE wb # WEIGHTS
      <4>1. wb > OUTPUT /\ wb \in Nat
        BY <1>0, <1>1, <3>3, BOsAre DEF Slots
      <4>2. QED
        BY <1>1, <3>1, <4>1, SixSizes
    <3>4. QED
      BY <3>2, <3>3
  <2>3. QED
    BY <2>1, <2>2
<1>9. Homes(f.src) = {b}
  BY <1>0, <1>5, <1>6, <1>7, <1>8, HomesAre
<1>10. Base(f.src) = lo[b]
  <2>1. Homes(f.src) # {} /\ (CHOOSE h \in Homes(f.src) : TRUE) = b
    BY <1>9
  <2>2. QED
    BY <2>1 DEF Base
<1>11. Content(f.src) = [m |-> Source(tpl, g).m, of |-> Operands(Source(tpl, g).m, xin, win[wb])]
  <2>1. CASE role = INPUT
    <3>1. INPUT \in Homes(f.src)
      BY <1>00, <1>9, <2>1
    <3>2. Content(f.src) = [m |-> "X", of |-> <<xin>>]
      BY <3>1 DEF Content
    <3>3. Source(tpl, g).m = "X"
      BY <2>1 DEF Source
    <3>4. QED
      BY <3>2, <3>3 DEF Operands
  <2>2. CASE role # INPUT
    <3>1. b = wb /\ INPUT # wb
      BY <1>0, <1>00, <2>2, RoleNumbers DEF Slots
    <3>2. INPUT \notin Homes(f.src) /\ Homes(f.src) \cap DOMAIN win = {wb}
      BY <1>0, <1>9, <3>1
    <3>3. Content(f.src) = [m |-> "W", of |-> <<win[wb]>>]
      BY <3>2 DEF Content
    <3>4. Source(tpl, g).m = "W"
      BY <2>2 DEF Source
    <3>5. QED
      BY <3>3, <3>4 DEF Operands
  <2>3. QED
    BY <2>1, <2>2
<1>12. {f.src, g.src, lo[b], cap[role], sz[role]} \subseteq Int
  BY <1>2, <1>5, <1>6
<1>13. f.src - lo[b] = g.src - cap[role]
  BY <1>5, <1>6
<1>14. QED
  BY <1>7, <1>8, <1>10, <1>11, <1>12, <1>13 DEF Finds

\* The registers that agree.
LEMMA StayingRegisters ==
    ASSUME NEW s, NEW k, NEW d, NEW g, NEW f, NEW wb, AtSame(s, k, d, g, f, wb)
    PROVE  /\ Kind = "reader" => Agree(f, g, Uses("reader") \ {"src"})
           /\ Kind = "writer" => Agree(f, g, Uses("writer") \ {"dst"})
           /\ Kind \notin {"reader", "writer"} => Agree(f, g, Uses(Kind))
<1>1. /\ Placing(tpl, s, k, d, g, f, lo, mapped, wb) /\ Kind = CapturedKind(tpl, s + k)
  BY DEF AtSame, Of
<1>2. \A r \in Uses(Kind) : ~ (Kind = "reader" /\ r = "src") /\ ~ (Kind = "writer" /\ r = "dst") => f[r] = g[r]
  BY <1>1, PlacedRegisters
<1>3. QED
  BY <1>2 DEF Agree

LEMMA KindIs ==
    ASSUME RunInv, Running
    PROVE  Kind \in BlockKinds
<1>1. open # "closed"
  BY DEF Running, RunInv, ContextInv
<1>2. tpl \in DOMAIN Templates
  BY <1>1, ContextGiven DEF RunInv
<1>3. PICK s \in Starts(tpl) : AtTask(s)
  BY DEF RunInv, DeviceInv, Running
<1>4. Current \in DOMAIN rc
  BY <1>3, AtBlock DEF RunInv
<1>5. Current \in DOMAIN T(tpl).regcmd_tmpl
  BY <1>1, <1>4 DEF RunInv, ChainInv
<1>6. QED
  BY <1>2, <1>5, ChainIs DEF Kind

LEMMA MakesSame ==
    ASSUME RunInv, InPlace, Running, xin \in Xs, NEW s, NEW k, NEW d, NEW g, NEW f, NEW wb,
           AtSame(s, k, d, g, f, wb), Kind # "writer"
    PROVE  /\ Made(f) = Inst(CapturedPiece(tpl, s + k, d), xin, win[wb])
           /\ Kind = "repacker" => Drift(f) = 0
<1> DEFINE w == win[wb]
           what == Content(f.src)
           base == Base(f.src)
           ones == IF f.weight = lo[REGCMD] + \hC0 THEN T(tpl).ones ELSE {}
<1>0. Made(f) = Produced(Kind, f, dev.mem, what, base, ones)
  BY DEF Made
<1>1. Of(tpl, s, k, d, g, Kind) /\ SameScratch(dev.mem, d, tpl, xin, w)
  BY DEF AtSame
<1>2. CASE Kind = "reader"
  <2>1. /\ f.src - base = g.src - T(tpl).cap[SourceRole(tpl, g)]
        /\ what = [m |-> Source(tpl, g).m, of |-> Operands(Source(tpl, g).m, xin, w)]
    <3>1. Finds(g, f, wb)
      BY <1>2, ReaderFinds DEF RunInv
    <3>2. QED
      BY <3>1 DEF Finds
  <2>2. Agree(f, g, Uses("reader") \ {"src"})
    BY <1>2, StayingRegisters
  <2> HIDE DEF w, what, base, ones
  <2>3. Of(tpl, s, k, d, g, "reader")
    BY <1>1, <1>2
  <2>4. Produced("reader", f, dev.mem, what, base, ones) = Inst(CapturedPiece(tpl, s + k, d), xin, w)
    BY <2>1, <2>2, <2>3, ReaderMakes, SMTT(60)
  <2>5. QED
    BY <1>0, <1>2, <2>4 DEF w
<1>3. CASE Kind = "transposer"
  <2>1. Agree(f, g, Uses("transposer"))
    BY <1>3, StayingRegisters
  <2>2. ones = Taps(tpl, g, T(tpl).cap[REGCMD])
    <3>1. f.weight = g.weight
      BY <2>1 DEF Agree, Uses
    <3>2. lo[REGCMD] = T(tpl).cap[REGCMD]
      BY DEF AtSame, Placing, Placed
    <3>3. QED
      BY <3>1, <3>2 DEF Taps
  <2> HIDE DEF w, what, base, ones
  <2>3. QED
    BY <1>0, <1>1, <1>3, <2>1, <2>2, TransposerMakes DEF w
<1>4. CASE Kind = "repacker"
  <2>1. Agree(f, g, Uses("repacker"))
    BY <1>4, StayingRegisters
  <2> HIDE DEF w, what, base, ones
  <2>2. Of(tpl, s, k, d, g, "repacker") /\ SameScratch(dev.mem, d, tpl, xin, w)
    BY <1>1, <1>4
  <2>3. /\ Produced("repacker", f, dev.mem, what, base, ones) = Inst(CapturedPiece(tpl, s + k, d), xin, w)
        /\ Drift(f) = 0
    BY <2>1, <2>2, RepackerMakes
  <2>4. QED
    BY <1>0, <1>4, <2>3 DEF w, ones, what, base
<1>5. CASE Kind = "tile"
  <2>1. Agree(f, g, Uses("tile"))
    BY <1>5, StayingRegisters
  <2> HIDE DEF w, what, base, ones
  <2>2. QED
    BY <1>0, <1>1, <1>5, <2>1, TileMakes DEF w
<1>6. Kind \in BlockKinds
  BY KindIs
<1>7. QED
  BY <1>2, <1>3, <1>4, <1>5, <1>6 DEF BlockKinds

(***************************************************************************)
(* Nothing outside the BOs.                                                *)
(***************************************************************************)
LEMMA ScratchIs ==
    ASSUME NEW s, NEW k, NEW d, NEW g, NEW f, NEW wb, AtSame(s, k, d, g, f, wb)
    PROVE  lo[SCRATCH] = T(tpl).cap[SCRATCH] /\ Size(tpl, SCRATCH) = T(tpl).sz[SCRATCH]
<1>1. tpl \in DOMAIN Templates /\ Placed(tpl, lo)
  BY DEF AtSame, Placing
<1>2. QED
  BY <1>1, SixSizes, RoleNumbers DEF Placed

LEMMA StaysInScratch ==
    ASSUME RunInv, InPlace, Running, xin \in Xs, NEW s, NEW k, NEW d, NEW g, NEW f, NEW wb,
           AtSame(s, k, d, g, f, wb), Kind # "writer"
    PROVE  InScratch(Made(f))
<1> DEFINE p == CapturedPiece(tpl, s + k, d)
           m == Made(f)
<1>1. m = Inst(p, xin, win[wb])
  BY MakesSame
<1>2. InWindow(tpl, SCRATCH, p.lo, End(p))
  <2>1. Of(tpl, s, k, d, g, Kind)
    BY DEF AtSame
  <2>2. BlockRight(tpl, s + k, d, Pieces(tpl)) /\ CapturedKind(tpl, s + k) # "writer"
    BY <2>1, BlockIs DEF Of
  <2>3. QED
    BY <2>2 DEF BlockRight
<1> HIDE DEF p, m
<1>3. m.lo = p.lo /\ End(m) = End(p)
  <2>1. m.lo = p.lo /\ m.n = p.n /\ m.step = p.step /\ m.len = p.len
    BY <1>1, InstIs
  <2>2. QED
    BY <2>1 DEF End
<1>4. QED
  BY <1>2, <1>3, ScratchIs DEF InScratch, InWindow, m

\* A reader reads as far from the beginning of its BO as when it was captured.
LEMMA ReachSame ==
    ASSUME NEW f, NEW g, Agree(f, g, {"rows", "cols", "line", "notch"}),
           {f.src, g.src, g.rows, g.cols, g.line, g.notch} \subseteq Int,
           NEW low \in Int, NEW base \in Int, NEW size \in Int, f.src - base = g.src - low,
           low <= SourceLow(g), SourceEnd(g) <= low + size
    PROVE  base <= SourceLow(f) /\ SourceEnd(f) <= base + size
<1>1. Drift(f) = Drift(g)
  BY DEF Drift, Agree
<1>2. Astray(f) = Astray(g)
  BY <1>1 DEF Astray, Agree
<1> DEFINE a == Astray(g)
           under == Lower(0, a)
           over == Upper(0, a)
           span == (g.rows - 1) * g.line + g.cols * 2
<1>3. under \in Int /\ over \in Int /\ span \in Int
  <2>1. Drift(g) \in Int
    BY DEF Drift
  <2>2. MaxDrift \in Int
    BY DEF MaxDrift
  <2> DEFINE c == Lower(MaxDrift, Upper(-MaxDrift, Drift(g)))
             e == g.cols \div 8 - 1
  <2>3. c \in Int /\ e \in Int
    BY <2>1, <2>2 DEF Lower, Upper
  <2>4. a = e * c
    BY DEF Astray
  <2> HIDE DEF c, e, a
  <2>5. a \in Int
    BY <2>3, <2>4
  <2>6. QED
    BY <2>5 DEF Lower, Upper
<1>4. /\ SourceLow(f) = f.src + under /\ SourceLow(g) = g.src + under
      /\ SourceEnd(f) = f.src + (g.rows - 1) * g.line + g.cols * 2 + over
      /\ SourceEnd(g) = g.src + (g.rows - 1) * g.line + g.cols * 2 + over
  BY <1>2 DEF SourceLow, SourceEnd, Agree
<1> DEFINE u == f.src
           v == g.src
           y == (g.rows - 1) * g.line
           z == g.cols * 2
<1>5. u \in Int /\ v \in Int /\ y \in Int /\ z \in Int
  OBVIOUS
<1>6. /\ u - base = v - low /\ low <= v + under /\ v + y + z + over <= low + size
      /\ SourceLow(f) = u + under /\ SourceEnd(f) = u + y + z + over
  BY <1>4
<1> HIDE DEF a, under, over, span, u, v, y, z
<1>7. QED
  BY <1>3, <1>5, <1>6

LEMMA SoundInPlace ==
    ASSUME RunInv, InPlace, Running, xin \in Xs, NEW s, NEW k, NEW d, NEW g, NEW f, NEW wb,
           AtSame(s, k, d, g, f, wb)
    PROVE  Sound(f)
<1>1. Of(tpl, s, k, d, g, Kind) /\ Placing(tpl, s, k, d, g, f, lo, mapped, wb)
  BY DEF AtSame
<1>2. Kind \in BlockKinds
  BY KindIs
<1>3. /\ BlockRight(tpl, s + k, d, Pieces(tpl)) /\ g = CapturedRegisters(tpl, s + k, d)
      /\ Kind = CapturedKind(tpl, s + k) /\ tpl \in DOMAIN Templates
      /\ \A r \in Uses(Kind) : g[r] \in Int
  BY <1>1, BlockIs DEF Of
<1>4. CASE Kind = "reader"
  <2> DEFINE role == SourceRole(tpl, g)
             b == Home(g, wb)
             low == T(tpl).cap[role]
             size == T(tpl).sz[role]
             base == lo[b]
  <2>1. /\ b \in mapped /\ Size(tpl, b) = size /\ f.src - base = g.src - low
        /\ {f.src, g.src, base, low, size} \subseteq Int
    <3>1. Finds(g, f, wb)
      BY <1>4, ReaderFinds DEF RunInv
    <3>2. QED
      BY <3>1 DEF Finds
  <2>2. InWindow(tpl, role, SourceLow(g), SourceEnd(g))
    BY <1>3, <1>4 DEF BlockRight
  <2>3. Agree(f, g, {"rows", "cols", "line", "notch"})
    BY <1>4, StayingRegisters DEF Agree, Uses
  <2>4. {f.src, g.src, g.rows, g.cols, g.line, g.notch} \subseteq Int
    BY <1>3, <1>4, <2>1 DEF Uses
  <2>5. low <= SourceLow(g) /\ SourceEnd(g) <= low + size
    BY <2>2 DEF InWindow
  <2> HIDE DEF role, b, low, size, base
  <2>6. base <= SourceLow(f) /\ SourceEnd(f) <= base + size
    BY <2>1, <2>3, <2>4, <2>5, ReachSame
  <2>7. InScratch(Made(f))
    BY <1>4, StaysInScratch
  <2>8. \E e \in mapped : lo[e] <= SourceLow(f) /\ SourceEnd(f) <= lo[e] + Size(tpl, e)
    BY <2>1, <2>6 DEF base
  <2>9. QED
    BY <1>4, <2>7, <2>8 DEF Sound
<1>5. CASE Kind = "repacker"
  <2>1. Drift(f) = 0 /\ InScratch(Made(f))
    BY <1>5, MakesSame, StaysInScratch
  <2>2. QED
    BY <1>5, <2>1 DEF Sound
<1>6. CASE Kind = "writer"
  <2>1. f.src = g.src /\ f.step = g.step
    BY <1>6, StayingRegisters DEF Agree, Uses
  <2>2. /\ InWindow(tpl, SCRATCH, g.src, End(Piece(g.src, 8, g.step, g.step, Garbage)))
        /\ g.dst = T(tpl).cap[OUTPUT] /\ g.step * 8 = T(tpl).sz[OUTPUT] /\ T(tpl).sz[OUTPUT] > 0
    BY <1>3, <1>6 DEF BlockRight
  <2> DEFINE R == Piece(f.src, 8, f.step, f.step, Garbage)
  <2>3. InScratch(R)
    <3>1. R.lo = g.src /\ R = Piece(g.src, 8, g.step, g.step, Garbage)
      BY <2>1 DEF Piece
    <3> HIDE DEF R
    <3>2. QED
      BY <2>2, <3>1, ScratchIs DEF InScratch, InWindow
  <2>4. f.dst = lo[OUTPUT]
    <3> DEFINE o == OUTPUT
               c == T(tpl).cap[o]
               z == T(tpl).sz[o]
               at == For(lo, wb)[o]
    <3>0. o \in 1 .. OUTPUT /\ g.dst = c /\ c \in Int /\ z > 0 /\ z \in Nat
      BY <1>3, <2>2, CaptureIs, RoleNumbers
    <3>1. Layout(tpl, lo, mapped) /\ wb \in DOMAIN lo
      BY <1>1 DEF Placing
    <3>2. at = lo[o]
      BY <1>3, <3>1, ForIs
    <3>3. f.dst = Repoint(g.dst, T(tpl).cap, For(lo, wb), T(tpl).sz)
      BY <1>1, <1>3, <1>6, PlacedRegisters DEF Uses
    <3>4. Within(g.dst, c, z)
      <4> HIDE DEF c, z
      <4>1. QED
        BY <3>0 DEF Within
    <3> HIDE DEF o
    <3>5. f.dst - at = g.dst - c /\ f.dst \in Int /\ at \in Int /\ g.dst \in Int
      <4>1. g.dst \in Int
        BY <3>0
      <4>2. Within(g.dst, T(tpl).cap[o], T(tpl).sz[o])
        BY <3>4
      <4>3. QED
        BY <1>3, <3>0, <3>1, <3>3, <4>1, <4>2, MovesWithRole
    <3> HIDE DEF c, z, at
    <3>6. f.dst = at
      BY <3>0, <3>5
    <3>7. QED
      BY <3>2, <3>6 DEF o
  <2>5. f.step * 8 = Size(tpl, OUTPUT)
    BY <1>3, <2>1, <2>2, SixSizes, RoleNumbers
  <2>6. QED
    BY <1>6, <2>3, <2>4, <2>5 DEF Sound
<1>7. CASE Kind \in {"transposer", "tile"}
  <2>1. InScratch(Made(f))
    BY <1>7, StaysInScratch
  <2>2. QED
    BY <1>7, <2>1 DEF Sound
<1>8. QED
  BY <1>2, <1>4, <1>5, <1>6, <1>7 DEF BlockKinds

(***************************************************************************)
(* The inductive invariant of a context whose program lies in place.       *)
(***************************************************************************)

\* A piece of some call of t.
LeftIn(q, t) == \E c \in Pieces(t) : \E y, v : q = Inst(c, y, v)

JobInv ==
    open # "closed" /\ InPlace =>
        /\ IsFiniteSet(dev.mem) /\ \A q \in dev.mem : LeftIn(q, tpl)
        /\ ~Idle => \E s \in Starts(tpl), wb \in DOMAIN win : \E d : Alongside(s, wb, d)

\* A call begins where the captured run began, on whatever scratch is left.
LEMMA CallBegins ==
    ASSUME RunInv', NEW start, NEW kept, Begin(start, T(tpl').count, kept), ~Idle', open' # "closed",
           start \in Starts(tpl'), IsFiniteSet(kept), \A q \in kept : LeftIn(q, tpl')
    PROVE  JobInv'
<1> DEFINE t == tpl'
           c == T(t).count
<1>0. PICK d : d = Captured(t, start)[c - dev'.left]
  OBVIOUS
<1>1. dev' = [at |-> tk'[start + 1], left |-> c, group |-> 1,
              regs |-> <<Unwritten, Unwritten>>, mem |-> kept]
  BY DEF Begin
<1>2. /\ dev'.at = tk'[start + 1] /\ dev'.left = c /\ dev'.group = 1
      /\ dev'.regs = <<Unwritten, Unwritten>> /\ dev'.mem = kept
  BY <1>1
<1>3. t \in DOMAIN Templates /\ ServesSlot'
  <2>1. t \in DOMAIN Templates
    BY DEF RunInv, ContextInv
  <2>2. ServesSlot'
    BY DEF RunInv, ContextInv
  <2>3. QED
    BY <2>1, <2>2
<1>4. PICK wb \in DOMAIN win' : rc' = Commands(t, lo', wb) /\ job' = <<xin', win'[wb]>>
  BY <1>3 DEF ServesSlot
<1>5. c \in 1 .. 59 /\ start \in Nat
  BY <1>3, StartIs
<1>6. c - dev'.left = 0 /\ start + (c - dev'.left) + 1 = start + 1 /\ c \in 0 .. c /\ c \in 1 .. c /\ ~(dev'.left = 0)
  <2> HIDE DEF c
  <2>1. QED
    BY <1>2, <1>5
<1>7. d = Fresh
  BY <1>0, <1>3, <1>6, CapturedStates
<1>8. AtTask(start)'
  BY <1>2, <1>6 DEF AtTask
<1>9. /\ d.group = 1 /\ d.regs = <<Unwritten, Unwritten>> /\ d.mem = {} /\ d.made = {}
  BY <1>7 DEF Fresh
<1>10. RegsMove(dev'.regs, d.regs, t, lo', wb)
  <2> DEFINE e == <<Unwritten, Unwritten>>
  <2>1. DOMAIN e = 1 .. 2 /\ \A i \in 1 .. 2 : e[i] = Unwritten
    OBVIOUS
  <2>2. Moves(Unwritten, Unwritten, t, lo', wb)
    BY DEF Moves, Unwritten
  <2> HIDE DEF e
  <2>3. RegsMove(e, e, t, lo', wb)
    BY <2>1, <2>2 DEF RegsMove
  <2>4. QED
    BY <1>2, <1>9, <2>3 DEF e
<1>11. SameScratch(dev'.mem, d, t, xin', win'[wb])
  <2>1. \A q \in kept : Leftover(q, t, {})
    BY DEF LeftIn, Leftover
  <2>2. QED
    BY <1>2, <1>9, <2>1 DEF SameScratch
<1>12. Alongside(start, wb, d)'
  BY <1>0, <1>2, <1>4, <1>6, <1>8, <1>9, <1>10, <1>11 DEF Alongside
<1>13. (\E s \in Starts(tpl), b \in DOMAIN win : \E e : Alongside(s, b, e))'
  BY <1>4, <1>12
<1>14. IsFiniteSet(dev'.mem) /\ \A q \in dev'.mem : LeftIn(q, t)
  BY <1>2
<1>15. QED
  BY <1>13, <1>14 DEF JobInv

LEMMA JobInit == Init => JobInv
  BY DEF Init, JobInv

LEMMA ClosedJob == ASSUME open' = "closed" PROVE JobInv'
  BY DEF JobInv

LEMMA SameJob ==
    ASSUME JobInv, UNCHANGED <<open, tpl, lo, mapped>>, Idle', dev'.mem = dev.mem
    PROVE  JobInv'
<1>1. InPlace' <=> InPlace
  BY DEF InPlace
<1>2. QED
  BY <1>1 DEF JobInv

\* A call on an empty scratch.
LEMMA CleanCall ==
    ASSUME RunInv', NEW t \in DOMAIN Templates, tpl' = t, open' # "closed", job' # <<>>,
           Begin(T(t).start, T(t).count, {})
    PROVE  JobInv'
<1>1. IsFiniteSet({}) /\ \A q \in {} : LeftIn(q, tpl')
  BY FS_EmptySet
<1>2. T(t).start \in Starts(tpl') /\ ~Idle'
  BY DEF Starts, Idle
<1>3. QED
  BY <1>1, <1>2, CallBegins

LEMMA RawJob ==
    ASSUME RunInv', NEW t \in DOMAIN Templates, NEW x, NEW w, npu_matmul_raw(t, x, w)
    PROVE  JobInv'
<1>1. Begin(T(t).start, T(t).count, {}) /\ job' = <<x, w>>
  BY DEF npu_matmul_raw
<1>2. tpl' = t /\ open' = "raw"
  BY DEF npu_matmul_raw, Reuse, Load, bo
<1>3. job' # <<>>
  BY <1>1
<1>4. QED
  BY <1>1, <1>2, <1>3, CleanCall

LEMMA ProbeJob ==
    ASSUME RunInv', NEW t \in DOMAIN Templates, NEW at, NEW exists, NEW wbo, NEW x, NEW w,
           Probe(t, at, exists, wbo, x, w)
    PROVE  JobInv'
<1>1. Begin(T(t).start, T(t).count, {}) /\ job' = <<x, w>>
  BY DEF Probe
<1>2. tpl' = t /\ open' = "probe"
  BY DEF Probe, Load
<1>3. job' # <<>>
  BY <1>1
<1>4. QED
  BY <1>1, <1>2, <1>3, CleanCall

LEMMA CachedJob ==
    ASSUME RunInv, RunInv', JobInv, NEW i, NEW x, NEW z, CachedMatmul(i, x, z)
    PROVE  JobInv'
<1> DEFINE kept == {p \in dev.mem : p.lo >= lo[SCRATCH] + z}
           third == T(tpl).n_tasks \div 3
<1>1. Idle /\ open = "cache" /\ UNCHANGED <<open, tpl, lo, mapped>> /\ job' = <<x, win[i]>>
  BY DEF CachedMatmul, bo
<1>2. tpl \in DOMAIN Templates
  BY <1>1, ContextGiven DEF RunInv
<1>3. \E start \in Starts(tpl) : Begin(start, T(tpl).count, kept)
  <2>1. third = T(tpl).count
    BY <1>2, ChainIs
  <2>2. Begin(2 * third, third, kept) \/ Begin(T(tpl).start, T(tpl).count, kept)
    BY DEF CachedMatmul
  <2> HIDE DEF third
  <2>3. QED
    BY <2>1, <2>2 DEF Starts
<1>4. CASE InPlace
  <2>1. IsFiniteSet(dev.mem) /\ \A q \in dev.mem : LeftIn(q, tpl)
    BY <1>1, <1>4 DEF JobInv
  <2>2. kept \subseteq dev.mem
    OBVIOUS
  <2> HIDE DEF kept
  <2>3. IsFiniteSet(kept) /\ \A q \in kept : LeftIn(q, tpl')
    BY <1>1, <2>1, <2>2, FS_Subset
  <2>4. ~Idle' /\ open' # "closed"
    BY <1>1 DEF Idle
  <2>5. PICK start \in Starts(tpl') : Begin(start, T(tpl').count, kept)
    BY <1>1, <1>3
  <2>6. QED
    BY <2>3, <2>4, <2>5, CallBegins
<1>5. CASE ~InPlace
  <2>1. ~InPlace'
    BY <1>1, <1>5 DEF InPlace
  <2>2. QED
    BY <2>1 DEF JobInv
<1>6. QED
  BY <1>4, <1>5

LEMMA EndedJob ==
    ASSUME RunInv, JobInv, SubmitDone \/ SubmitFails
    PROVE  JobInv'
<1>1. job' = <<>>
  BY DEF SubmitDone, SubmitFails
<1>2. CASE Shut
  BY <1>2, ClosedJob DEF Shut
<1>3. CASE ~Shut
  <2>1. UNCHANGED <<open, tpl, lo, mapped>> /\ dev'.mem = dev.mem
    <3>1. \/ dev' = dev
          \/ dev' = [dev EXCEPT !.left = 0]
      BY <1>3 DEF SubmitDone, SubmitFails
    <3>2. dev'.mem = dev.mem
      <4>1. dev = [at |-> dev.at, left |-> dev.left, group |-> dev.group, regs |-> dev.regs, mem |-> dev.mem]
        BY DEF RunInv, DeviceInv
      <4>2. [dev EXCEPT !.left = 0].mem = dev.mem
        BY <4>1
      <4>3. QED
        BY <3>1, <4>2
    <3>3. QED
      BY <1>3, <3>2 DEF SubmitDone, SubmitFails, bo
  <2>2. QED
    BY <1>1, <2>1, SameJob DEF Idle
<1>4. QED
  BY <1>2, <1>3

LEMMA ClashBoth == ASSUME NEW p, NEW q PROVE Clash(p, q) <=> Clash(q, p)
<1>1. CASE p.step = q.step
  BY <1>1 DEF Clash
<1>2. CASE p.step # q.step
  BY <1>2 DEF Clash
<1>3. QED
  BY <1>1, <1>2

LEMMA PutIs ==
    ASSUME NEW mem, NEW p, NEW q
    PROVE  q \in Put(mem, p) <=> (q \in mem /\ ~Clash(q, p)) \/ q = p
<1>1. q \in Put(mem, p) <=> (q \in mem /\ ~Clash(p, q)) \/ q = p
  BY DEF Put
<1>2. QED
  BY <1>1, ClashBoth

LEMMA PutSame ==
    ASSUME NEW mem, NEW d, NEW t, NEW x, NEW w, SameScratch(mem, d, t, x, w), NEW p \in Pieces(t),
           NEW m, m = Inst(p, x, w), NEW e, e.mem = Put(d.mem, p), e.made = d.made \cup {p}
    PROVE  SameScratch(Put(mem, m), e, t, x, w)
<1>0. /\ IsFiniteSet(mem) /\ d.mem \subseteq d.made /\ d.made \subseteq Pieces(t)
      /\ \A q \in d.mem : Inst(q, x, w) \in mem
      /\ \A q \in mem : (\E c \in d.mem : q = Inst(c, x, w)) \/ Leftover(q, t, d.made)
  BY DEF SameScratch
<1>1. IsFiniteSet(Put(mem, m))
  <2> DEFINE S == {q \in mem : ~Clash(q, m)}
  <2>1. IsFiniteSet(S)
    BY <1>0, FS_Subset
  <2>2. Put(mem, m) = S \cup {m}
    BY PutIs
  <2> HIDE DEF S
  <2>3. QED
    BY <2>1, <2>2, FS_AddElement
<1>2. e.mem \subseteq e.made /\ e.made \subseteq Pieces(t)
  BY <1>0, PutIs
<1>3. ASSUME NEW q \in e.mem PROVE Inst(q, x, w) \in Put(mem, m)
  <2>1. CASE q = p
    BY <2>1, PutIs
  <2>2. CASE q # p
    <3>1. q \in d.mem /\ ~Clash(q, p)
      BY <2>2, PutIs
    <3>2. ~Clash(Inst(q, x, w), m)
      BY <3>1, SameBytes
    <3>3. QED
      BY <1>0, <3>1, <3>2, PutIs
  <2>3. QED
    BY <2>1, <2>2
<1>4. ASSUME NEW q \in Put(mem, m)
      PROVE  (\E c \in e.mem : q = Inst(c, x, w)) \/ Leftover(q, t, e.made)
  <2>1. CASE q = m
    <3>1. p \in e.mem
      BY PutIs
    <3>2. QED
      BY <2>1, <3>1
  <2>2. CASE q # m
    <3>1. q \in mem /\ ~Clash(q, m)
      BY <2>2, PutIs
    <3>2. CASE \E c \in d.mem : q = Inst(c, x, w)
      <4>1. PICK c \in d.mem : q = Inst(c, x, w)
        BY <3>2
      <4>2. ~Clash(c, p)
        BY <3>1, <4>1, SameBytes
      <4>3. c \in e.mem
        BY <4>1, <4>2, PutIs
      <4>4. QED
        BY <4>1, <4>3
    <3>3. CASE Leftover(q, t, d.made)
      <4>1. PICK c \in Pieces(t) : (\E y, v : q = Inst(c, y, v)) /\ \A o \in d.made : ~Clash(c, o)
        BY <3>3 DEF Leftover
      <4>2. PICK y, v : q = Inst(c, y, v)
        BY <4>1
      <4>3. ~Clash(c, p)
        BY <3>1, <4>2, SameBytes
      <4>4. \A o \in e.made : ~Clash(c, o)
        BY <4>1, <4>3
      <4>5. QED
        BY <4>1, <4>4 DEF Leftover
    <3>4. QED
      BY <1>0, <3>1, <3>2, <3>3
  <2>3. QED
    BY <2>1, <2>2
<1>5. QED
  BY <1>1, <1>2, <1>3, <1>4 DEF SameScratch

LEMMA BlockAlongside ==
    ASSUME RunInv, InPlace, NpuBlock, xin \in Xs, NEW s \in Starts(tpl), NEW wb, NEW d,
           Alongside(s, wb, d), NEW k, k = T(tpl).count - dev.left + 1
    PROVE  /\ Alongside(s, wb, Captured(tpl, s)[k])'
           /\ Kind # "writer" =>
                  \E p \in Pieces(tpl) : dev'.mem = Put(dev.mem, Inst(p, xin, win[wb]))
           /\ Kind = "writer" => dev'.mem = dev.mem
<1> DEFINE f == Registers
           g == CapturedRegisters(tpl, s + k, d)
           p == CapturedPiece(tpl, s + k, d)
           c == T(tpl).count
           t == tpl
           x == xin
           w == win[wb]
<1>0. /\ Running
      /\ UNCHANGED <<env, open, tpl, lo, mapped, rc, tk, io1, xin, win, job, answer>>
      /\ dev' = [at |-> IF "next" \in DOMAIN rc[Current] THEN f.next ELSE 0,
                 left |-> dev.left - 1, group |-> 3 - dev.group,
                 regs |-> [dev.regs EXCEPT ![dev.group] = f],
                 mem |-> IF Kind = "writer" THEN dev.mem ELSE Put(dev.mem, Made(f))]
      /\ out' = IF Kind = "writer" THEN Written(f, dev.mem) ELSE out
  BY DEF NpuBlock, bo
<1>1. AtSame(s, k, d, g, f, wb)
  BY <1>0, AlongsideGives
<1> HIDE DEF f, g
<1>2. /\ dev'.left = dev.left - 1 /\ dev'.group = 3 - dev.group
      /\ dev'.regs = [dev.regs EXCEPT ![dev.group] = f]
      /\ dev'.mem = IF Kind = "writer" THEN dev.mem ELSE Put(dev.mem, Made(f))
  BY <1>0
<1>3. /\ Of(t, s, k, d, g, Kind) /\ t \in DOMAIN Templates
      /\ Placing(t, s, k, d, g, f, lo, mapped, wb) /\ SameScratch(dev.mem, d, t, x, w)
  BY <1>1 DEF AtSame, Of
<1>4. k \in 1 .. c /\ Kind = CapturedKind(t, s + k)
  BY <1>3 DEF Of
<1>5. PICK e : e = Captured(t, s)[k]
  OBVIOUS
<1>6. e = CapturedStep(t, s + k, d)
  BY <1>3, <1>4, <1>5, CapturedStates DEF Of
<1>7. /\ e.group = 3 - d.group /\ e.regs = [d.regs EXCEPT ![d.group] = g]
      /\ e.mem = IF Kind = "writer" THEN d.mem ELSE Put(d.mem, p)
      /\ e.made = IF Kind = "writer" THEN d.made ELSE d.made \cup {p}
  BY <1>4, <1>6 DEF CapturedStep, g
<1>8. AtTask(s) /\ dev.left \in 1 .. c /\ c \in 1 .. 59
  <2>1. AtTask(s)
    BY <1>0 DEF Alongside, Running
  <2>2. QED
    BY <1>3, <2>1, StartIs DEF AtTask
<1>9. dev'.left \in 0 .. c /\ c - dev'.left = k /\ (dev'.left = 0 => k = c)
  <2> HIDE DEF c
  <2>1. k = c - dev.left + 1
    BY DEF c
  <2>2. QED
    BY <1>2, <1>8, <2>1
<1>10. dev'.left > 0 => AtTask(s)'
  BY <1>8, NextTask
<1>11. RegsMove(dev'.regs, e.regs, t, lo, wb)
  <2>1. RegsMove(dev.regs, d.regs, t, lo, wb) /\ dev.group = d.group
    BY DEF Alongside
  <2>2. dev.group \in 1 .. 2
    BY DEF RunInv, DeviceInv
  <2>3. Moves(f, g, t, lo, wb)
    BY <1>3 DEF Placing
  <2> DEFINE u == dev.group
             r == dev.regs
             o == d.regs
  <2>4. /\ DOMAIN r = 1 .. 2 /\ DOMAIN o = 1 .. 2 /\ \A i \in 1 .. 2 : Moves(r[i], o[i], t, lo, wb)
        /\ u \in 1 .. 2 /\ dev'.regs = [r EXCEPT ![u] = f] /\ e.regs = [o EXCEPT ![u] = g]
    BY <1>2, <1>7, <2>1, <2>2 DEF RegsMove
  <2> HIDE DEF u, r, o
  <2>5. ASSUME NEW i \in 1 .. 2 PROVE Moves(dev'.regs[i], e.regs[i], t, lo, wb)
    <3>1. CASE i = u
      <4>1. dev'.regs[i] = f /\ e.regs[i] = g
        BY <2>4, <3>1
      <4>2. QED
        BY <2>3, <4>1
    <3>2. CASE i # u
      <4>1. dev'.regs[i] = r[i] /\ e.regs[i] = o[i]
        BY <2>4, <3>2
      <4>2. QED
        BY <2>4, <4>1
    <3>3. QED
      BY <3>1, <3>2
  <2>6. DOMAIN dev'.regs = 1 .. 2 /\ DOMAIN e.regs = 1 .. 2
    BY <2>4
  <2>7. QED
    BY <2>5, <2>6 DEF RegsMove
<1>12. /\ Kind # "writer" => p \in Pieces(t) /\ Made(f) = Inst(p, x, w)
       /\ SameScratch(dev'.mem, e, t, x, w)
  <2>1. CASE Kind = "writer"
    <3>1. dev'.mem = dev.mem /\ e.mem = d.mem /\ e.made = d.made
      BY <1>2, <1>7, <2>1
    <3> HIDE DEF t, x, w
    <3>2. QED
      BY <1>3, <2>1, <3>1 DEF SameScratch
  <2>2. CASE Kind # "writer"
    <3>1. Made(f) = Inst(p, x, w)
      BY <1>0, <1>1, <2>2, MakesSame
    <3>2. p \in Pieces(t)
      BY <1>3, <1>4, <2>2, TaskIsRight DEF Of
    <3>3. dev'.mem = Put(dev.mem, Made(f)) /\ e.mem = Put(d.mem, p) /\ e.made = d.made \cup {p}
      BY <1>2, <1>7, <2>2
    <3> HIDE DEF p, t, x, w
    <3>4. SameScratch(dev'.mem, e, t, x, w)
      BY <1>3, <3>1, <3>2, <3>3, PutSame
    <3>5. QED
      BY <3>1, <3>2, <3>4
  <2>3. QED
    BY <2>1, <2>2
<1>13. dev'.left = 0 => out' = <<x, w>>
  <2> SUFFICES ASSUME dev'.left = 0 PROVE out' = <<x, w>>
    OBVIOUS
  <2>1. Kind = "writer"
    BY <1>3, <1>9, BlockIs
  <2>2. Agree(f, g, {"src", "step"})
    BY <1>1, <2>1, StayingRegisters DEF Agree, Uses
  <2>3. Of(t, s, k, d, g, "writer")
    BY <1>3, <2>1
  <2> HIDE DEF t, x, w
  <2>4. Written(f, dev.mem) = <<x, w>>
    BY <1>3, <2>2, <2>3, WriterWrites
  <2>5. QED
    BY <1>0, <2>1, <2>4
<1>14. Alongside(s, wb, e)'
  <2>1. /\ wb \in DOMAIN win' /\ rc' = Commands(tpl', lo', wb) /\ job' = <<xin', win'[wb]>>
        /\ dev.group = d.group
    BY <1>0 DEF Alongside
  <2>2. dev'.group = e.group /\ e = Captured(tpl', s)[T(tpl').count - dev'.left]
    BY <1>0, <1>2, <1>5, <1>7, <1>9, <2>1
  <2>3. dev'.left = 0 => out' = job'
    BY <1>0, <1>13, <2>1
  <2>4. dev'.left \in 0 .. T(tpl').count /\ RegsMove(dev'.regs, e.regs, tpl', lo', wb)
    BY <1>0, <1>9, <1>11
  <2>5. SameScratch(dev'.mem, e, tpl', xin', win'[wb])
    BY <1>0, <1>12
  <2>6. QED
    BY <1>10, <2>1, <2>2, <2>3, <2>4, <2>5 DEF Alongside
<1>15. QED
  BY <1>0, <1>2, <1>5, <1>12, <1>14

LEMMA BlockJob == ASSUME RunInv, RunInv', JobInv, NpuBlock PROVE JobInv'
<1>1. /\ Running /\ ~Idle /\ ~Idle'
      /\ UNCHANGED <<env, open, tpl, lo, mapped, rc, tk, io1, xin, win, job, answer>>
  BY DEF NpuBlock, bo, Running, Idle
<1>2. open # "closed"
  BY <1>1 DEF RunInv, ContextInv
<1>3. InPlace' <=> InPlace
  BY <1>1 DEF InPlace
<1>4. SUFFICES ASSUME InPlace PROVE JobInv'
  BY <1>3 DEF JobInv
<1>5. PICK s \in Starts(tpl), wb \in DOMAIN win : \E d : Alongside(s, wb, d)
  BY <1>1, <1>2, <1>4 DEF JobInv
<1>6. PICK d : Alongside(s, wb, d)
  BY <1>5
<1>7. xin \in Xs
  BY <1>1, <1>2, ContextGiven DEF RunInv, ServesSlot
<1>8. PICK k : k = T(tpl).count - dev.left + 1
  OBVIOUS
<1>9. /\ Alongside(s, wb, Captured(tpl, s)[k])'
      /\ Kind # "writer" => \E p \in Pieces(tpl) : dev'.mem = Put(dev.mem, Inst(p, xin, win[wb]))
      /\ Kind = "writer" => dev'.mem = dev.mem
  BY <1>4, <1>6, <1>7, <1>8, BlockAlongside
<1>10. PICK e : Alongside(s, wb, e)'
  BY <1>9
<1>11. IsFiniteSet(dev'.mem)
  BY <1>10 DEF Alongside, SameScratch
<1>12. ASSUME NEW q \in dev'.mem PROVE LeftIn(q, tpl)
  <2>1. \A c \in dev.mem : LeftIn(c, tpl)
    BY <1>2, <1>4 DEF JobInv
  <2>2. CASE Kind = "writer"
    BY <1>9, <1>12, <2>1, <2>2
  <2>3. CASE Kind # "writer"
    <3>1. PICK p \in Pieces(tpl) : dev'.mem = Put(dev.mem, Inst(p, xin, win[wb]))
      BY <1>9, <2>3
    <3>2. q \in dev.mem \/ q = Inst(p, xin, win[wb])
      BY <1>12, <3>1, PutIs
    <3>3. QED
      BY <2>1, <3>2 DEF LeftIn
  <2>4. QED
    BY <2>2, <2>3
<1>13. s \in Starts(tpl') /\ wb \in DOMAIN win' /\ tpl' = tpl
  BY <1>1
<1>14. (\E z \in Starts(tpl), b \in DOMAIN win : \E c : Alongside(z, b, c))'
  BY <1>10, <1>13
<1>15. \A q \in dev'.mem : LeftIn(q, tpl')
  BY <1>12, <1>13
<1>16. QED
  BY <1>11, <1>14, <1>15 DEF JobInv

LEMMA SetupJob ==
    ASSUME RunInv, NEW t, npu_mm_cache_setup(t)
    PROVE  JobInv'
<1>1. open = "closed" /\ Idle' /\ dev' = dev
  BY DEF npu_mm_cache_setup, Idle
<1>2. dev'.mem = {}
  <2>1. dev = NoDev
    BY <1>1 DEF RunInv, ContextInv
  <2>2. NoDev.mem = {}
    BY DEF NoDev
  <2>3. QED
    BY <1>1, <2>1, <2>2
<1>3. IsFiniteSet(dev'.mem) /\ \A q \in dev'.mem : LeftIn(q, tpl')
  BY <1>2, FS_EmptySet
<1>4. QED
  BY <1>1, <1>3 DEF JobInv

LEMMA ProbesJob ==
    ASSUME RunInv', NEW x, NEW w,
           \/ \E n \in Fillers, t \in DOMAIN Templates : npu_test_reach(n, t, x, w)
           \/ \E n \in Extras, t \in DOMAIN Templates : npu_test_wbelow(n, t, x, w)
           \/ \E r \in LowRoles : npu_test_bo_low(r, x, w)
           \/ npu_test_coexist(x, w) \/ npu_test_crossfd(x, w) \/ npu_test_coldpath(x, w)
    PROVE  JobInv'
<1>1. \E t \in DOMAIN Templates : \E at, exists, wbo : Probe(t, at, exists, wbo, x, w)
  <2>1. ASSUME NEW n \in Fillers, NEW t \in DOMAIN Templates, npu_test_reach(n, t, x, w)
        PROVE  \E at, exists, wbo : Probe(t, at, exists, wbo, x, w)
    BY <2>1 DEF npu_test_reach
  <2>2. ASSUME NEW n \in Extras, NEW t \in DOMAIN Templates, npu_test_wbelow(n, t, x, w)
        PROVE  \E at, exists, wbo : Probe(t, at, exists, wbo, x, w)
    BY <2>2 DEF npu_test_wbelow
  <2>3. ASSUME NEW r \in LowRoles, npu_test_bo_low(r, x, w)
        PROVE  \E at, exists, wbo : Probe("qkv", at, exists, wbo, x, w)
    BY <2>3 DEF npu_test_bo_low
  <2>4. ASSUME npu_test_coexist(x, w) \/ npu_test_crossfd(x, w) \/ npu_test_coldpath(x, w)
        PROVE  \E at, exists, wbo : Probe("qkv", at, exists, wbo, x, w)
    BY <2>4 DEF npu_test_coexist, npu_test_crossfd, npu_test_coldpath
  <2>5. "qkv" \in DOMAIN Templates
    BY ConstantAssumption
  <2>6. QED
    BY <2>1, <2>2, <2>3, <2>4, <2>5
<1>2. PICK t \in DOMAIN Templates : \E at, exists, wbo : Probe(t, at, exists, wbo, x, w)
  BY <1>1
<1>3. PICK at, exists, wbo : Probe(t, at, exists, wbo, x, w)
  BY <1>2
<1>4. QED
  BY <1>3, ProbeJob

LEMMA JobStep == ASSUME RunInv, RunInv', JobInv, [Next]_vars PROVE JobInv'
<1>1. ASSUME NEW t \in DOMAIN Templates, NEW x \in Xs, NEW w \in Ws, npu_matmul_raw(t, x, w)
      PROVE  JobInv'
  BY <1>1, RawJob
<1>2. CASE MatmulRawFails \/ npu_matmul_close \/ npu_mm_cache_close
  BY <1>2, ClosedJob DEF MatmulRawFails, npu_matmul_close, npu_mm_cache_close, Shut
<1>3. ASSUME NEW t \in DOMAIN Templates, npu_mm_cache_setup(t) PROVE JobInv'
  BY <1>3, SetupJob
<1>4. ASSUME NEW i \in DOMAIN win, NEW w \in Ws, npu_mm_cache_load(i, w) PROVE JobInv'
  BY <1>4, SameJob DEF npu_mm_cache_load, bo, Idle
<1>5. ASSUME NEW i \in DOMAIN win, NEW x \in Xs,
             npu_mm_cache_run(i, x) \/ npu_mm_cache_run_bias(i, x)
      PROVE  JobInv'
  BY <1>5, CachedJob DEF npu_mm_cache_run, npu_mm_cache_run_bias
<1>6. ASSUME NEW x \in Xs, NEW w \in Ws,
             \/ \E n \in Fillers, t \in DOMAIN Templates : npu_test_reach(n, t, x, w)
             \/ \E n \in Extras, t \in DOMAIN Templates : npu_test_wbelow(n, t, x, w)
             \/ \E r \in LowRoles : npu_test_bo_low(r, x, w)
             \/ npu_test_coexist(x, w) \/ npu_test_crossfd(x, w) \/ npu_test_coldpath(x, w)
      PROVE  JobInv'
  BY <1>6, ProbesJob
<1>7. CASE NpuBlock
  BY <1>7, BlockJob
<1>8. CASE SubmitDone \/ SubmitFails
  BY <1>8, EndedJob
<1>9. CASE UNCHANGED vars
  <2>1. UNCHANGED <<env, open, tpl, lo, mapped, rc, tk, io1, xin, win, out, dev, job, answer>>
    BY <1>9 DEF vars, bo
  <2>2. QED
    BY <2>1 DEF JobInv, InPlace, Idle, Alongside, AtTask, RegsMove, SameScratch, T
<1>10. QED
  BY <1>1, <1>2, <1>3, <1>4, <1>5, <1>6, <1>7, <1>8, <1>9 DEF Next

\* A program in place touches nothing outside its BOs, in any of its blocks,
\* whatever ran before it and whatever that left in scratch: the copy of the
\* chain that runs is the captured one, moved to where the BOs lie.
THEOREM StaysInBOs == Spec => []AccessInsideBO
<1>1. RunInv /\ JobInv => AccessInsideBO
  <2> SUFFICES ASSUME RunInv, JobInv, Running, InPlace PROVE Sound(Registers)
    BY DEF AccessInsideBO
  <2>1. open # "closed" /\ ~Idle
    BY DEF Running, RunInv, ContextInv
  <2>2. PICK s \in Starts(tpl), wb \in DOMAIN win : \E d : Alongside(s, wb, d)
    BY <2>1 DEF JobInv
  <2>3. PICK d : Alongside(s, wb, d)
    BY <2>2
  <2>4. PICK k : k = T(tpl).count - dev.left + 1
    OBVIOUS
  <2>5. PICK g : g = CapturedRegisters(tpl, s + k, d)
    OBVIOUS
  <2>6. AtSame(s, k, d, g, Registers, wb)
    BY <2>3, <2>4, <2>5, AlongsideGives
  <2>7. xin \in Xs
    BY <2>1, ContextGiven DEF RunInv, ServesSlot
  <2>8. QED
    BY <2>6, <2>7, SoundInPlace
<1>2. RunInv /\ JobInv /\ [Next]_vars => RunInv' /\ JobInv'
  BY RunStep, JobStep
<1>3. QED
  BY <1>1, <1>2, RunInit, JobInit, PTL DEF Spec

(***************************************************************************)
(* The kernel a caller sees.                                               *)
(***************************************************************************)
KernelSlots == UNION ({{WEIGHTS}} \cup {OUTPUT + 1 .. OUTPUT + n : n \in {1, NSlots} \cup Extras})

LEMMA SlotsOfKernel ==
    /\ WEIGHTS \in KernelSlots /\ OUTPUT + 1 \in KernelSlots
    /\ \A n \in Extras : OUTPUT + n \in KernelSlots
<1>1. ASSUME NEW n \in {1} \cup Extras PROVE OUTPUT + n \in KernelSlots
  <2>1. n \in Nat \ {0}
    BY ConstantAssumption
  <2> DEFINE o == OUTPUT
             S == o + 1 .. o + n
  <2>2. o \in Nat
    BY RoleNumbers
  <2>3. S \in {o + 1 .. o + m : m \in {1, NSlots} \cup Extras}
    OBVIOUS
  <2> HIDE DEF o
  <2>4. o + n \in S
    BY <2>1, <2>2
  <2>5. QED
    BY <2>3, <2>4 DEF KernelSlots, o
<1>2. WEIGHTS \in KernelSlots
  BY DEF KernelSlots
<1>3. QED
  BY <1>1, <1>2

\* A probe multiplies with W in one of the slots.
LEMMA ProbesMultiply ==
    ASSUME NEW x \in Xs, NEW w \in Ws,
           \/ \E n \in Fillers, t \in DOMAIN Templates : npu_test_reach(n, t, x, w)
           \/ \E n \in Extras, t \in DOMAIN Templates : npu_test_wbelow(n, t, x, w)
           \/ \E r \in LowRoles : npu_test_bo_low(r, x, w)
           \/ npu_test_coexist(x, w) \/ npu_test_crossfd(x, w) \/ npu_test_coldpath(x, w)
    PROVE  \E wbo \in KernelSlots : \E t, at, exists : Probe(t, at, exists, wbo, x, w)
<1>0. /\ "qkv" \in DOMAIN Templates /\ OUTPUT \in Nat /\ WEIGHTS \in KernelSlots
  BY ConstantAssumption, RoleNumbers, SlotsOfKernel
<1>1. ASSUME NEW n \in Fillers, NEW t \in DOMAIN Templates, npu_test_reach(n, t, x, w)
      PROVE  \E wbo \in KernelSlots : \E u, at, exists : Probe(u, at, exists, wbo, x, w)
  BY <1>0, <1>1 DEF npu_test_reach
<1>2. ASSUME NEW n \in Extras, NEW t \in DOMAIN Templates, npu_test_wbelow(n, t, x, w)
      PROVE  \E wbo \in KernelSlots : \E u, at, exists : Probe(u, at, exists, wbo, x, w)
  <2> DEFINE at == WithExtra(t, n)
  <2>1. n \in Nat /\ n > 0
    BY ConstantAssumption
  <2>2. at \in [1 .. OUTPUT + n -> Int]
    BY <2>1, WithExtraLayout
  <2>3. Probe(t, at, DOMAIN at, Len(at), x, w)
    BY <1>2 DEF npu_test_wbelow
  <2> HIDE DEF at
  <2>4. OUTPUT + n \in Nat /\ OUTPUT + n > OUTPUT
    <3> DEFINE o == OUTPUT
    <3>1. o \in Nat
      BY <1>0
    <3> HIDE DEF o
    <3>2. o + n \in Nat /\ o + n > o
      BY <2>1, <3>1
    <3>3. QED
      BY <3>2 DEF o
  <2>5. Len(at) = OUTPUT + n
    BY <2>2, <2>4, LastSlot
  <2>6. QED
    BY <2>3, <2>5, SlotsOfKernel
<1>3. ASSUME NEW r \in LowRoles, npu_test_bo_low(r, x, w)
      PROVE  \E wbo \in KernelSlots : \E u, at, exists : Probe(u, at, exists, wbo, x, w)
  BY <1>0, <1>3 DEF npu_test_bo_low
<1>4. ASSUME npu_test_crossfd(x, w) \/ npu_test_coldpath(x, w)
      PROVE  \E wbo \in KernelSlots : \E u, at, exists : Probe(u, at, exists, wbo, x, w)
  BY <1>0, <1>4 DEF npu_test_crossfd, npu_test_coldpath
<1>5. ASSUME npu_test_coexist(x, w)
      PROVE  \E wbo \in KernelSlots : \E u, at, exists : Probe(u, at, exists, wbo, x, w)
  <2> DEFINE at == Place(Append(T("qkv").sz, T("qkv").sz[WEIGHTS]), ReluBytes)
  <2>0. ReluBytes \in Nat
    BY DEF ReluBytes
  <2>1. at \in [1 .. OUTPUT + 1 -> Int] /\ Layout("qkv", at, DOMAIN at)
    BY <1>0, <2>0, OneMoreLayout
  <2>2. Probe("qkv", at, DOMAIN at, Len(at), x, w)
    BY <1>5 DEF npu_test_coexist
  <2> HIDE DEF at
  <2>3. OUTPUT + 1 \in Nat /\ OUTPUT + 1 > OUTPUT
    <3> DEFINE o == OUTPUT
    <3>1. o \in Nat
      BY <1>0
    <3> HIDE DEF o
    <3>2. o + 1 \in Nat /\ o + 1 > o
      BY <3>1
    <3>3. QED
      BY <3>2 DEF o
  <2>4. Len(at) = OUTPUT + 1
    BY <2>1, <2>3, LastSlot
  <2>5. QED
    BY <2>2, <2>4, SlotsOfKernel
<1>6. QED
  BY <1>1, <1>2, <1>3, <1>4, <1>5

LEMMA MultipliesOn ==
    ASSUME NEW i \in KernelSlots, NEW x \in Xs, NEW w \in Ws,
           Idle, job' = <<x, w>>, answer' = <<>>, win' = [b \in {i} |-> w]
    PROVE  Kernel!Next
<1>1. InPlace' \in BOOLEAN
  BY DEF InPlace
<1>2. Kernel!MatMul(i, x, w)
  BY <1>1 DEF Kernel!MatMul, Kernel!Idle, Idle
<1>3. QED
  BY <1>2 DEF Kernel!Next, KernelSlots

LEMMA Finishes ==
    ASSUME RunInv, JobInv, SubmitDone \/ SubmitFails
    PROVE  Kernel!Finish
<1>1. ~Idle /\ job' = <<>>
  BY DEF SubmitDone, SubmitFails, Running
<1>2. open # "closed"
  BY <1>1 DEF RunInv, ContextInv
<1>3. InPlace => answer' \in {job, Failed}
  <2>1. CASE SubmitFails
    BY <2>1 DEF SubmitFails
  <2>2. CASE SubmitDone
    <3> SUFFICES ASSUME InPlace PROVE answer' = job
      OBVIOUS
    <3>1. dev.left = 0 /\ answer' = out
      BY <2>2 DEF SubmitDone
    <3>2. PICK s \in Starts(tpl), wb \in DOMAIN win : \E d : Alongside(s, wb, d)
      BY <1>1, <1>2 DEF JobInv
    <3>3. QED
      BY <3>1, <3>2 DEF Alongside
  <2>3. QED
    BY <2>1, <2>2
<1>4. \/ UNCHANGED <<win, InPlace>>
      \/ win' = <<>> /\ InPlace'
  <2>1. CASE Shut
    BY <2>1 DEF Shut, InPlace
  <2>2. CASE ~Shut
    <3>1. UNCHANGED <<open, tpl, lo, mapped, win>>
      BY <2>2 DEF SubmitDone, SubmitFails, bo
    <3>2. QED
      BY <3>1 DEF InPlace
  <2>3. QED
    BY <2>1, <2>2
<1>5. QED
  BY <1>1, <1>3, <1>4 DEF Kernel!Finish, Kernel!Idle, Kernel!Failed, Idle, Failed

LEMMA KernelStep == ASSUME RunInv, JobInv, [Next]_vars PROVE [Kernel!Next]_(Kernel!vars)
<1>1. ASSUME NEW t \in DOMAIN Templates, NEW x \in Xs, NEW w \in Ws, npu_matmul_raw(t, x, w)
      PROVE  Kernel!Next
  <2>1. Idle /\ job' = <<x, w>> /\ answer' = <<>> /\ win' = [b \in {WEIGHTS} |-> w]
    BY <1>1 DEF npu_matmul_raw, Begin
  <2>2. QED
    BY <2>1, SlotsOfKernel, MultipliesOn
<1>2. CASE MatmulRawFails
  <2>1. Kernel!Refuse
    BY <1>2 DEF MatmulRawFails, Shut, Kernel!Refuse, Kernel!Idle, Kernel!Failed, Idle, Failed, InPlace
  <2>2. QED
    BY <2>1 DEF Kernel!Next
<1>3. CASE npu_matmul_close \/ npu_mm_cache_close
  <2>1. Kernel!Close
    BY <1>3 DEF npu_matmul_close, npu_mm_cache_close, Shut, Kernel!Close, Kernel!Idle, Idle, InPlace
  <2>2. QED
    BY <2>1 DEF Kernel!Next
<1>4. ASSUME NEW t \in DOMAIN Templates, npu_mm_cache_setup(t) PROVE Kernel!Next
  <2>1. Idle /\ UNCHANGED <<job, answer>> /\ win' = [i \in OUTPUT + 1 .. OUTPUT + NSlots |-> NoW]
    BY <1>4 DEF npu_mm_cache_setup
  <2>2. InPlace' \in BOOLEAN
    BY DEF InPlace
  <2>3. Kernel!Open
    BY <2>1, <2>2 DEF Kernel!Open, Kernel!Idle, Idle
  <2>4. QED
    BY <2>3 DEF Kernel!Next
<1>5. ASSUME NEW i \in DOMAIN win, NEW w \in Ws, npu_mm_cache_load(i, w) PROVE Kernel!Next
  <2>1. UNCHANGED InPlace
    BY <1>5 DEF npu_mm_cache_load, bo, InPlace
  <2>2. Kernel!Load(i, w)
    BY <1>5, <2>1 DEF npu_mm_cache_load, Kernel!Load, Kernel!Idle, Idle
  <2>3. QED
    BY <2>2 DEF Kernel!Next
<1>6. ASSUME NEW i \in DOMAIN win, NEW x \in Xs,
             npu_mm_cache_run(i, x) \/ npu_mm_cache_run_bias(i, x)
      PROVE  Kernel!Next
  <2>1. PICK z : CachedMatmul(i, x, z)
    BY <1>6 DEF npu_mm_cache_run, npu_mm_cache_run_bias
  <2>2. Idle /\ UNCHANGED <<open, tpl, lo, mapped, win>> /\ job' = <<x, win[i]>> /\ answer' = <<>>
    BY <2>1 DEF CachedMatmul, bo, Begin
  <2>3. UNCHANGED InPlace
    BY <2>2 DEF InPlace
  <2>4. Kernel!Submit(i, x)
    BY <2>2, <2>3 DEF Kernel!Submit, Kernel!Idle, Idle
  <2>5. QED
    BY <2>4 DEF Kernel!Next
<1>7. ASSUME NEW x \in Xs, NEW w \in Ws,
             \/ \E n \in Fillers, t \in DOMAIN Templates : npu_test_reach(n, t, x, w)
             \/ \E n \in Extras, t \in DOMAIN Templates : npu_test_wbelow(n, t, x, w)
             \/ \E r \in LowRoles : npu_test_bo_low(r, x, w)
             \/ npu_test_coexist(x, w) \/ npu_test_crossfd(x, w) \/ npu_test_coldpath(x, w)
      PROVE  Kernel!Next
  <2>1. PICK wbo \in KernelSlots : \E t, at, exists : Probe(t, at, exists, wbo, x, w)
    BY <1>7, ProbesMultiply
  <2>2. PICK t, at, exists : Probe(t, at, exists, wbo, x, w)
    BY <2>1
  <2>3. Idle /\ job' = <<x, w>> /\ answer' = <<>> /\ win' = [b \in {wbo} |-> w]
    BY <2>2 DEF Probe, Begin
  <2>4. QED
    BY <2>3, MultipliesOn
<1>8. CASE NpuBlock
  BY <1>8 DEF NpuBlock, bo, Kernel!vars, InPlace
<1>9. CASE SubmitDone \/ SubmitFails
  BY <1>9, Finishes DEF Kernel!Next
<1>10. CASE UNCHANGED vars
  BY <1>10 DEF vars, bo, Kernel!vars, InPlace
<1>11. QED
  BY <1>1, <1>2, <1>3, <1>4, <1>5, <1>6, <1>7, <1>8, <1>9, <1>10 DEF Next

\* Whatever context a call opens or finds, whatever earlier calls left in it and
\* whichever blocks ran before an abort, a call of a program in place answers
\* the product of its own operands, or fails.
THEOREM KernelImplemented == Spec => Implements
<1>1. Init => Kernel!Init
  BY DEF Init, Kernel!Init, Kernel!Idle, InPlace
<1>2. RunInv /\ JobInv /\ [Next]_vars => RunInv' /\ JobInv'
  BY RunStep, JobStep
<1>3. RunInv /\ JobInv /\ [Next]_vars => [Kernel!Next]_(Kernel!vars)
  BY KernelStep
<1>4. QED
  BY <1>1, <1>2, <1>3, RunInit, JobInit, PTL DEF Spec, Implements, Kernel!Spec
==============================================================================
