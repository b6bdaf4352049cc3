----------------------------- MODULE MCGemHandles -----------------------------
(***************************************************************************)
(* An instance for GemHandles.  Fds 3 to 6 are enough for the three opens  *)
(* of the device and one other file.  Eight handles: the working BOs of    *)
(* cna_init take 1 to 4, attention twice two, or once and a weight; those  *)
(* are numbers of fds, too.  Garbage is nothing or one of the fds.         *)
(***************************************************************************)
EXTENDS GemHandles, TLC
CONSTANTS a1, a2, w0   \* model values: two arrays, a slot

MCFds == 3 .. 6
MCHandles == 1 .. 8
MCArrays == {a1, a2}
Symmetry == Permutations(MCArrays)
===============================================================================
