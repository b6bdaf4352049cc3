------------------------------ MODULE GemHandles ------------------------------
(***************************************************************************)
(* Two kinds of numbers that one process reuses: file descriptors, and the *)
(* GEM handles of each open of the NPU device.  The plugin's client (c),   *)
(* the cache of op 6 (mfd) and the CNA context (cna) open the device once  *)
(* each; a BO is remembered as the number of its fd and its handle         *)
(* (struct npu_bo), or as a handle alone (wt_h).  Both kinds are given out *)
(* lowest first, closing an fd takes its handles, and slow path and host   *)
(* executor close the client's fd while the program runs: who remembers a  *)
(* number too long frees what belongs to another.  A third number is       *)
(* prime_fd of a BO, which nothing sets: npu_bo_free closes it when it is  *)
(* positive, and a BO on the stack has there what the stack held.          *)
(*                                                                         *)
(* A call of the code is one action.  Its steps are functions on the       *)
(* record proc, applied in the order of the code.  The model follows the   *)
(* program up to the first step that the code should not take and does not *)
(* guard against: it passes to close(2) a GEM handle, or what the stack    *)
(* held as prime_fd, that is the number of an open file, or it closes c->fd*)
(* under an array or an executable that is still held.                     *)
(***************************************************************************)
EXTENDS Integers, FiniteSetsExt, Functions

CONSTANTS
    Fds,          \* the numbers open(2) may return: those above stderr
    Handles,      \* bound: GEM handles of one open of the device
    Arrays,       \* device arrays of the JAX program
    Weights,      \* CNA slots loaded for good
    MaxLost,      \* bound: BOs of failed compiles and calls on one c->fd
    Garbage       \* what prime_fd of a BO on the stack may be

\* The client, the cache, the CNA context, an operation of the host executor, and
\* the program with a file of its own.
Owners == {"c", "mfd", "cna", "op", "other"}
NewFiles == 1 .. Cardinality(Fds) + 1    \* one for each open, while it is known
OtherFile == 0                           \* no GEM handles there
Free == -1                               \* a number that is not open

Activation == {"act"}                    \* for the five relu_bos, tanh_bos
Cache == {"kernel", "slots"}             \* s_wc_mb and s_wc_wb
Working == {"rc", "tk", "in", "out"}
Attention == {"K", "V"}
CnaNames == Working \cup Attention \cup Weights
Lost == "lost"                           \* a BO of a compile or call that failed
Names == Arrays \cup Activation \cup {Lost} \cup Cache \cup CnaNames

\* The bound on handles leaves room for the working BOs of cna_init.
ASSUME NumberAssumption ==
    /\ Fds \subseteq Nat \ (0 .. 2) /\ IsFiniteSet(Fds)
    /\ Handles \subseteq Nat \ {0} /\ IsFiniteSet(Handles)
    /\ Cardinality(Handles) >= Cardinality(Working)
    /\ Arrays \cap (Activation \cup {Lost} \cup Cache \cup CnaNames) = {}
    /\ Weights \cap (Activation \cup {Lost} \cup Cache \cup Working \cup Attention) = {}
    /\ "" \notin Names
    /\ MaxLost \in Nat
    /\ Garbage \subseteq Int

VARIABLES
    proc,   \* fds: number -> file; holds: owner -> number and file it opened;
            \* gem: file -> handle -> name; bo: name -> number, handle, file;
            \* exe: "none", or an executable and whether it remembers its BOs
    astray  \* history: has the last step been one of those named above?
vars == <<proc, astray>>

NoBO == [n |-> 0, h |-> 0, file |-> OtherFile]
Closed == [n |-> Free, file |-> OtherFile]
NoHandles == [h \in Handles |-> ""]

(***************************************************************************)
(* System calls (external): open, close, MEM_CREATE, MEM_DESTROY.          *)
(***************************************************************************)
IsOpen(p, who) == p.holds[who].n # Free
Known(p) == Range(p.fds) \cup {p.bo[x].file : x \in Names}

\* open(2) of a file: the lowest free number.
Take(p, who, file) ==
    LET n == Min({k \in Fds : p.fds[k] = Free})
    IN  [p EXCEPT !.fds[n] = file, !.holds[who] = [n |-> n, file |-> file]]

Open(p, who) == Take(p, who, Min(NewFiles \ Known(p)))

CloseNumber(p, n) ==
    IF n \notin Fds \/ p.fds[n] = Free THEN p
    ELSE LET file == p.fds[n]
         IN  [p EXCEPT !.fds[n] = Free,
                       !.gem = [f \in NewFiles |-> IF f = file THEN NoHandles ELSE @[f]]]

Close(p, who) == [CloseNumber(p, p.holds[who].n) EXCEPT !.holds[who] = Closed]

FileAt(p, n) == IF n \in Fds THEN p.fds[n] ELSE Free

\* npu_create_bo and cna_create_bo.  On anything but the device the ioctl fails.
Create(p, who, x) ==
    LET n == p.holds[who].n
        file == FileAt(p, n)
    IN  IF file \notin NewFiles THEN [p EXCEPT !.bo[x] = NoBO]
        ELSE LET h == Min({k \in Handles : p.gem[file][k] = ""})
             IN  [p EXCEPT !.gem[file][h] = x, !.bo[x] = [n |-> n, h |-> h, file |-> file]]

CreateTwo(p, who, x, y) == Create(Create(p, who, x), who, y)

Forget(p, xs) == [p EXCEPT !.bo = [x \in Names |-> IF x \in xs THEN NoBO ELSE @[x]]]

\* npu_bo_free of each BO of xs: MEM_DESTROY of its handle, on the number
\* remembered with it.
Destroyed(p, xs) == {<<FileAt(p, p.bo[x].n), p.bo[x].h>> : x \in xs}
FreeAll(p, xs) ==
    LET gone == Destroyed(p, xs)
    IN  [Forget(p, xs) EXCEPT
            !.gem = [f \in NewFiles |-> [h \in Handles |->
                        IF <<f, h>> \in gone THEN "" ELSE @[f][h]]]]

\* A BO of c->fd that nobody will free.
Lose(p) == Forget(Create(p, "c", Lost), {Lost})

\* npu_bo_free of the BOs a call kept on its stack: their handles go with the
\* call, and g is the prime_fd of one of them.
StackFree(p, g) == IF g > 0 THEN CloseNumber(p, g) ELSE p

\* close(2) of what is no fd, and is the number of one all the same.
Hits(p, n) == FileAt(p, n) # Free

(***************************************************************************)
(* Functions of the plugin and of cna_matmul.c.                            *)
(***************************************************************************)
\* cna_init.  memset forgets every handle.
CnaInit(p) ==
    LET closed == IF IsOpen(p, "cna") THEN Close(p, "cna") ELSE p
        opened == Open(Forget(closed, CnaNames), "cna")
    IN  CreateTwo(CreateTwo(opened, "cna", "rc", "tk"), "cna", "in", "out")

\* Mutant: s_wc_mfd keeps the number.
CacheCloseKeepsNumber(p) ==
    CloseNumber(FreeAll(p, Cache), p.holds["mfd"].n)

\* npu_mm_cache_close, npu_mm_cache_setup.
CacheClose(p) ==
    IF IsOpen(p, "mfd") THEN Close(FreeAll(p, Cache), "mfd") ELSE p
CacheSetup(p) == CreateTwo(Open(p, "mfd"), "mfd", "kernel", "slots")

\* The new BO of a slot; the old handle goes to close(2).
Reload(p, x) ==
    LET h == p.bo[x].h
    IN  Create(IF h # 0 THEN CloseNumber(p, h) ELSE p, "cna", x)

(***************************************************************************)
(* Calls.                                                                  *)
(***************************************************************************)
Live == {x \in Arrays \cup Activation : proc.bo[x].h # 0}
FreeNumbers(p) == {n \in Fds : p.fds[n] = Free}
HandlesLeft(who, k) ==
    LET file == FileAt(proc, proc.holds[who].n)
    IN  file \in NewFiles =>
            Cardinality({h \in Handles : proc.gem[file][h] = ""}) >= k
NothingElseHeld(operands) == Live \subseteq operands
MayLose ==
    /\ HandlesLeft("c", 1)
    /\ Cardinality({h \in Handles : proc.gem[proc.holds["c"].file][h] = Lost})
          < MaxLost

ClientCreate ==
    /\ ~IsOpen(proc, "c")
    /\ Cardinality(FreeNumbers(proc)) >= 2
    /\ proc' = CnaInit(Open(proc, "c"))
    /\ UNCHANGED astray

\* JAX drops its arrays and executables first.
ClientDestroy ==
    /\ IsOpen(proc, "c") /\ NothingElseHeld({})
    /\ proc' = Close(proc, "c")
    /\ UNCHANGED astray

\* A transfer to the device, or the output of a call that keeps c->fd.
NewArray(a) ==
    /\ IsOpen(proc, "c") /\ a \notin Live /\ HandlesLeft("c", 1)
    /\ proc' = Create(proc, "c", a)
    /\ UNCHANGED astray

BufferDestroy(a) == a \in Live /\ proc' = FreeAll(proc, {a}) /\ UNCHANGED astray

\* has_relu_bos says whether all BOs could be had: if only some could, nobody
\* frees those.
Compile ==
    /\ IsOpen(proc, "c") /\ proc.exe = "none"
    /\ \/ HandlesLeft("c", 1)
          /\ proc' = [Create(proc, "c", "act") EXCEPT !.exe = "with_bos"]
       \/ MayLose /\ proc' = [Lose(proc) EXCEPT !.exe = "without"]
       \/ proc' = [proc EXCEPT !.exe = "without"]
    /\ UNCHANGED astray

\* Mutants: its BOs alone are freed; the executable alone is freed.
DestroyBOsOnly ==
    proc.exe = "with_bos" /\ proc' = FreeAll(proc, Activation) /\ UNCHANGED astray

ForgetExecutable ==
    /\ proc.exe # "none"
    /\ proc' = [Forget(proc, Activation) EXCEPT !.exe = "none"]
    /\ UNCHANGED astray

LoadedExecutableDestroy ==
    LET p == IF proc.exe = "with_bos" THEN FreeAll(proc, Activation) ELSE proc
    IN  /\ proc.exe # "none"
        /\ proc' = [Forget(p, Activation) EXCEPT !.exe = "none"]
        /\ UNCHANGED astray

\* Mutant: X is freed and W is not.
SlowPathKeepsW(x, w, out, ok) ==
    LET down == CacheClose(Close(FreeAll(proc, {x}), "c"))
        up == Open(IF ok THEN CacheSetup(down) ELSE down, "c")
    IN  /\ IsOpen(proc, "c") /\ x \in Live /\ w \in Live /\ x # w
        /\ out \notin Live \ {x} /\ FreeNumbers(proc) # {}
        /\ proc' = IF ok THEN Create(up, "c", out) ELSE up
        /\ astray' = ~NothingElseHeld({x, w})

\* The slow path of op 6: the cache takes the number of the client.  A run that
\* fails after the setup leaves what a destroyed output leaves.
SlowPath(x, w, out, ok) ==
    LET down == CacheClose(Close(FreeAll(proc, {x, w}), "c"))
        up == Open(IF ok THEN CacheSetup(down) ELSE down, "c")
    IN  /\ IsOpen(proc, "c") /\ x \in Live /\ w \in Live /\ x # w
        /\ out \notin Live \ {x, w} /\ FreeNumbers(proc) # {}
        /\ proc' = IF ok THEN Create(up, "c", out) ELSE up
        /\ astray' = ~NothingElseHeld({x, w})

\* A binary operation, or a graph of them, on c->fd.
BinaryExecute(out, g) ==
    /\ IsOpen(proc, "c") /\ out \notin Live /\ HandlesLeft("c", 1)
    /\ proc' = StackFree(Create(proc, "c", out), g)
    /\ astray' = Hits(proc, g)

\* It fails.  A kernel BO cannot be had: those before it stay, and one stands for
\* them.  The output cannot be had: nothing stays.  A submit fails: the output
\* stays, which JAX gets with an error and drops.
BinaryFails(g) ==
    /\ IsOpen(proc, "c")
    /\ \/ MayLose /\ proc' = Lose(proc) /\ UNCHANGED astray
       \/ proc' = StackFree(proc, g) /\ astray' = Hits(proc, g)
       \/ MayLose /\ proc' = StackFree(Lose(proc), g) /\ astray' = Hits(proc, g)

\* The host executor.  A shape without a program is refused after its arguments
\* are freed.  Operations have an fd each, one after the other: one stands for
\* them.  One that fails leaves what a destroyed output leaves.
GraphHost(args, out, ok, g) ==
    LET freed == FreeAll(proc, args)
        busy == Open(Close(freed, "c"), "op")
        ran == Close(StackFree(busy, g), "op")
    IN  /\ IsOpen(proc, "c") /\ args # {} /\ args \subseteq Live
        /\ out \notin Live \ args
        /\ proc' = IF ok THEN Create(Open(ran, "c"), "c", out) ELSE freed
        /\ astray' = (ok /\ (~NothingElseHeld(args) \/ Hits(busy, g)))

\* npu_cna_cache_setup by the vision encoder, the language model or a script.
CnaSetup ==
    /\ IsOpen(proc, "cna") \/ FreeNumbers(proc) # {}
    /\ proc' = CnaInit(proc)
    /\ UNCHANGED astray

CnaClose == IsOpen(proc, "cna") /\ proc' = Close(proc, "cna") /\ UNCHANGED astray

CnaLoad(w) ==
    /\ IsOpen(proc, "cna") /\ proc.bo[w] = NoBO /\ HandlesLeft("cna", 1)
    /\ proc' = Create(proc, "cna", w)
    /\ UNCHANGED astray

\* npu_cna_attention on the NPU, one head: K, then V.
CnaAttention ==
    LET p == Reload(proc, "K")
    IN  /\ IsOpen(proc, "cna") /\ HandlesLeft("cna", 2)
        /\ proc' = Reload(p, "V")
        /\ astray' = (Hits(proc, proc.bo["K"].h) \/ Hits(p, p.bo["V"].h))

\* The program opens and closes a file of its own.
OtherOpen ==
    /\ ~IsOpen(proc, "other") /\ FreeNumbers(proc) # {}
    /\ proc' = Take(proc, "other", OtherFile)
    /\ UNCHANGED astray
OtherClose ==
    IsOpen(proc, "other") /\ proc' = Close(proc, "other") /\ UNCHANGED astray

Init == /\ proc = [fds |-> [n \in Fds |-> Free],
                   holds |-> [who \in Owners |-> Closed],
                   gem |-> [f \in NewFiles |-> NoHandles],
                   bo |-> [x \in Names |-> NoBO],
                   exe |-> "none"]
        /\ astray = FALSE

Call == \/ ClientCreate \/ ClientDestroy
        \/ \E a \in Arrays : NewArray(a) \/ BufferDestroy(a)
        \/ Compile \/ LoadedExecutableDestroy
        \/ \E x, w, out \in Arrays, ok \in BOOLEAN : SlowPath(x, w, out, ok)
        \/ \E out \in Arrays, g \in Garbage : BinaryExecute(out, g)
        \/ \E g \in Garbage : BinaryFails(g)
        \/ \E args \in SUBSET Arrays, out \in Arrays, ok \in BOOLEAN, g \in Garbage :
                GraphHost(args, out, ok, g)
        \/ CnaSetup \/ CnaClose \/ CnaAttention
        \/ \E w \in Weights : CnaLoad(w)
        \/ OtherOpen \/ OtherClose

Next == ~astray /\ Call

Spec == Init /\ [][Next]_vars

(***************************************************************************)
(* Properties.                                                             *)
(***************************************************************************)
\* Type invariant, up to the step that goes astray; two numbers are never one open
\* of the device, a file that is not open has no handles, and an executable
\* remembers all its BOs or none.
TypeOK ==
    /\ astray \in BOOLEAN
    /\ ~astray =>
           /\ proc.fds \in [Fds -> {Free, OtherFile} \cup NewFiles]
           /\ proc.holds \in [Owners -> [n : Fds \cup {Free},
                                          file : {OtherFile} \cup NewFiles]]
           /\ proc.bo \in [Names -> [n : Fds \cup {0}, h : Handles \cup {0},
                                      file : {OtherFile} \cup NewFiles]]
           /\ proc.exe \in {"none", "with_bos", "without"}
           /\ \A m, n \in Fds : proc.fds[m] = proc.fds[n] => m = n \/ proc.fds[m] = Free
           /\ \A f \in NewFiles : f \notin Range(proc.fds) => proc.gem[f] = NoHandles
           /\ proc.exe = "with_bos" => \A x \in Activation : proc.bo[x].h # 0

\* A number that the client, the cache, the CNA context or the program itself
\* remembers as open is still the file it opened.  The code does not keep it:
\* "The close(wt_h[slot]) before npu_cna_cache_load frees the old GEM handle"
\* (docs/OP_LOWERING.md:152) closes the file of that number, and npu_bo_free
\* closes a prime_fd nobody set, though "we deliberately do NOT call ... PRIME_FD
\* here" (pjrt_npu_impl.c:67).
FdsStay ==
    \A who \in Owners : IsOpen(proc, who) =>
        FileAt(proc, proc.holds[who].n) = proc.holds[who].file

\* Nothing but a handle or garbage given to close(2) takes a number from its
\* owner: not the slow path, which hands c->fd's number to the cache, not the
\* host executor, nor a set-up or close of the CNA context, in any order.
FdsOwned == ~astray => FdsStay

IsLive(x) ==
    LET b == proc.bo[x]
    IN  FileAt(proc, b.n) = b.file /\ proc.gem[b.file][b.h] = x
Remembered == {x \in Names : proc.bo[x].h # 0 /\ (x \in CnaNames => IsOpen(proc, "cna"))}

\* "device buffers stay alive (so jax.device_put-once + reuse-the-DeviceArray
\* works)" (pjrt_npu_impl.c:254): an array the program still holds is the BO its
\* fd and handle name.  The code does not keep it: the slow path closes c->fd.
BuffersStayAlive == \A x \in Remembered \cap Arrays : IsLive(x)

\* A BO that somebody will use or free through its fd and handle is still the
\* BO those numbers name, whatever was closed, opened and freed in between, as
\* long as c->fd is not closed under it: the slow path hands the number of the
\* client's fd to the cache, where an old record would destroy a BO of the
\* kernel that is open.
HeldBosLive == ~astray => \A x \in Remembered : IsLive(x)

\* On the fds of the plugin every live handle is remembered by whoever is to
\* free it: "otherwise they leak" (pjrt_npu_impl.c:1070).  What leaks are the
\* BOs of a compile or call that failed, and those only.  It says nothing of the
\* CNA context, whose attention leaves the old BOs of its slots behind.
NothingElseLeaks ==
    ~astray => \A who \in {"c", "mfd"}, h \in Handles : IsOpen(proc, who) =>
        LET x == proc.gem[proc.holds[who].file][h]
        IN  x \notin {"", Lost} => /\ proc.bo[x].h = h
                                   /\ proc.bo[x].file = proc.holds[who].file
                                   /\ x \in Activation => proc.exe = "with_bos"
===============================================================================
