----------------------------- MODULE RegcmdPatch -----------------------------
(***************************************************************************)
(* The two patchers of a captured program (pjrt_npu_impl.c, "regcmd/task   *)
(* DMA patchers").  A program was captured with its buffers (BOs) at the   *)
(* IOVAs cap[1..n]; it is loaded into fresh BOs at my[1..n] of the same    *)
(* sizes sz[1..n].  The roles are the indices below, in the order in which *)
(* the code looks for the window an address belongs to.                    *)
(*                                                                         *)
(* An IOVA is a 32-bit word.  TLC's integers are 32 bits wide too, so a    *)
(* word v at or above 2^31 is written v - 2^32: every capture lies in the  *)
(* last 20 MB below 4 GB, whose end is 0, and a negative constant of a     *)
(* register is the negative number.  Small words stay above every window,  *)
(* as they stay below every window in the code's unsigned comparison.      *)
(***************************************************************************)
EXTENDS Integers, Sequences

TASK == 1
REGCMD == 2
SCRATCH == 3
INPUT == 4
WEIGHTS == 5
OUTPUT == 6

\* One function over another: new words over those of a register group, a new
\* record beside those there are.
Over(new, old) ==
    [r \in DOMAIN new \cup DOMAIN old |-> IF r \in DOMAIN new THEN new[r] ELSE old[r]]

Within(a, lo, size) == lo <= a /\ a < lo + size

\* BOs at the IOVAs `at', no byte in two of them.
Disjoint(at, sz) ==
    \A q, r \in DOMAIN at : q # r => at[q] + sz[q] <= at[r] \/ at[r] + sz[r] <= at[q]

\* The windows of the capture that contain the word a, and the first of them.
Windows(a, cap, sz) == {r \in DOMAIN cap : Within(a, cap[r], sz[r])}
FirstWindow(a, cap, sz) ==
    CHOOSE r \in Windows(a, cap, sz) : \A q \in Windows(a, cap, sz) : r <= q

\* A word with a DMA core id (0x1001, 0x2001, 0x0201): moved with its window.
Repoint(a, cap, my, sz) ==
    IF Windows(a, cap, sz) = {} THEN a
    ELSE LET r == FirstWindow(a, cap, sz) IN my[r] + (a - cap[r])

\* The chain word (register 0x0010) and the regcmd_addr of a task entry: they
\* move with the window of the register commands only.
Rechain(a, cap, my, sz) ==
    IF Within(a, cap[REGCMD], sz[REGCMD]) THEN my[REGCMD] + (a - cap[REGCMD]) ELSE a

\* One block of register commands: a function from the registers it writes to
\* their words.  Whatever the register, its core id is all the patcher asks for.
PatchBlock(words, cap, my, sz) ==
    [reg \in DOMAIN words |-> IF reg = "next" THEN Rechain(words[reg], cap, my, sz)
                                              ELSE Repoint(words[reg], cap, my, sz)]

\* Mutant: the commands are left as they were captured.
RegcmdAsCaptured(blocks, cap, my, sz) == blocks

patch_regcmd_tmpl(blocks, cap, my, sz) ==
    [b \in DOMAIN blocks |-> PatchBlock(blocks[b], cap, my, sz)]

\* Mutant: the task table is left as it was captured.
TaskTableAsCaptured(tasks, cap, my, sz) == tasks

patch_task_tmpl(tasks, cap, my, sz) ==
    [t \in DOMAIN tasks |-> Rechain(tasks[t], cap, my, sz)]

(***************************************************************************)
(* The kernel gives a fresh file descriptor an IOMMU domain of its own and *)
(* hands out IOVAs from 4 GB downwards, one BO below the other: the BOs of *)
(* sizes sz created after `used' bytes (external: the rknpu driver).       *)
(***************************************************************************)
Place(sz, used) ==
    LET base[i \in 0 .. Len(sz)] == IF i = 0 THEN -used ELSE base[i - 1] - sz[i]
    IN  [i \in DOMAIN sz |-> base[i]]
==============================================================================
