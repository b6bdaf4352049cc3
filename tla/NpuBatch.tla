------------------------------ MODULE NpuBatch ------------------------------
(***************************************************************************)
(* npu_cna_3core_run and the batch submit it was written for: a process    *)
(* splits a matmul into tiles, and for each tile submits one job to each   *)
(* core in one ioctl, polls their fences and adds the three outputs.       *)
(*                                                                         *)
(*   StartRun, Fill, Poll, Add   cna_matmul.c                              *)
(*   Alloc .. Commit             rknpu_batch_submit (patch 0004)           *)
(*   Done, NextJob               the driver's interrupt handler (external) *)
(*                                                                         *)
(* The kernel runs the phases of two processes, and the interrupts of the  *)
(* cores, in any order; irq_lock makes Queue, Done and NextJob atomic.     *)
(* All jobs ask for IOMMU domain 0, so the domain is never switched.  Each *)
(* job has one task, and the six seconds of a poll are long enough for it  *)
(* unless MayTimeOut.                                                      *)
(***************************************************************************)
EXTENDS Integers, Sequences, FiniteSets

CONSTANTS
    Procs,       \* the processes that have the device open
    NTiles,      \* n_tiles
    Irqs,        \* the cores the device has (num_irqs)
    MayTimeOut,  \* can a job take longer than a poll waits?
    NoJob

Cores == 0 .. 2

\* A job is named by its process, its tile and its core.  Bound: a name is
\* used for one job at a time.
Jobs == Procs \X (1 .. NTiles) \X Cores

ASSUME BatchAssumption ==
    /\ IsFiniteSet(Procs)
    /\ NTiles \in Nat \ {0}
    /\ Irqs \subseteq Cores
    /\ MayTimeOut \in BOOLEAN
    /\ NoJob \notin Jobs

VARIABLES
    pc,        \* where each process is
    tile,      \* t
    idx,       \* the loop variable of the phase it is in
    in,        \* the tile in its input BOs and register commands
    product,   \* the tile whose product is in each output BO (0: none)
    z,         \* the tiles added to each result
    broken,    \* an ioctl of this run failed or a poll timed out
    todo,      \* todo_list of each core
    job,       \* sd->job of each core
    hw,        \* the job the registers of each core were written for
    pending,   \* cores between rknpu_job_done and rknpu_job_next
    run_count, \* of each job
    fence,     \* "none", "waiting" or "signalled"
    refs,      \* iommu_domain_refcount
    held       \* the jobs that hold the domain

userVars == <<in, product, z, broken>>
kernelVars == <<todo, job, hw, pending, run_count, fence, refs, held>>
vars == <<pc, tile, idx, userVars, kernelVars>>

Mine(p, c) == <<p, tile[p], c>>

Init ==
    /\ pc = [p \in Procs |-> "idle"]
    /\ tile = [p \in Procs |-> 1]
    /\ idx = [p \in Procs |-> 0]
    /\ in = [p \in Procs |-> 0]
    /\ product = [p \in Procs |-> [c \in Cores |-> 0]]
    /\ z = [p \in Procs |-> [c \in Cores |-> << >>]]
    /\ broken = [p \in Procs |-> FALSE]
    /\ todo = [c \in Irqs |-> << >>]
    /\ job = [c \in Irqs |-> NoJob]
    /\ hw = [c \in Irqs |-> NoJob]
    /\ pending = {}
    /\ run_count = [j \in Jobs |-> 0]
    /\ fence = [j \in Jobs |-> "none"]
    /\ refs = 0
    /\ held = {}

Goto(p, label) == pc' = [pc EXCEPT ![p] = label]
-----------------------------------------------------------------------------
(* npu_cna_3core_run, up to the ioctl *)

StartRun(p) ==
    /\ pc[p] = "idle"
    /\ Goto(p, "fill")
    /\ tile' = [tile EXCEPT ![p] = 1]
    /\ z' = [z EXCEPT ![p] = [c \in Cores |-> << >>]]
    /\ broken' = [broken EXCEPT ![p] = FALSE]
    /\ UNCHANGED <<idx, in, product, kernelVars>>

\* The slices of the three inputs, the register commands and the tasks.
Fill(p) ==
    /\ pc[p] = "fill"
    /\ in' = [in EXCEPT ![p] = tile[p]]
    /\ Goto(p, "alloc")
    /\ UNCHANGED <<tile, idx, product, z, broken, kernelVars>>
-----------------------------------------------------------------------------
(* rknpu_batch_submit *)

\* Mutant: a job waits for two cores.
AllocForTwo(p) ==
    /\ pc[p] = "alloc"
    /\ \A c \in Cores : Mine(p, c) \notin held
    /\ run_count' = [j \in Jobs |->
                        IF \E c \in Cores : j = Mine(p, c) THEN 2
                        ELSE run_count[j]]
    /\ fence' = [j \in Jobs |->
                    IF \E c \in Cores : j = Mine(p, c) THEN "waiting"
                    ELSE fence[j]]
    /\ idx' = [idx EXCEPT ![p] = 0]
    /\ Goto(p, "get")
    /\ UNCHANGED <<tile, userVars, todo, job, hw, pending, refs, held>>

\* Phase 1.
Alloc(p) ==
    /\ pc[p] = "alloc"
    /\ \A c \in Cores : Mine(p, c) \notin held
    /\ run_count' = [j \in Jobs |->
                        IF \E c \in Cores : j = Mine(p, c) THEN 1
                        ELSE run_count[j]]
    /\ fence' = [j \in Jobs |->
                    IF \E c \in Cores : j = Mine(p, c) THEN "waiting"
                    ELSE fence[j]]
    /\ idx' = [idx EXCEPT ![p] = 0]
    /\ Goto(p, "get")
    /\ UNCHANGED <<tile, userVars, todo, job, hw, pending, refs, held>>

\* Mutant: the domains are put on this path as well.
AllocFailsPuts(p) ==
    /\ pc[p] = "alloc"
    /\ broken' = [broken EXCEPT ![p] = TRUE]
    /\ refs' = refs - 1
    /\ Goto(p, "add")
    /\ UNCHANGED <<tile, idx, in, product, z>>
    /\ UNCHANGED <<todo, job, hw, pending, run_count, fence, held>>

\* A job or a fence cannot be allocated: all are freed.  The process ignores
\* what the ioctl returns and finds no fence to poll.
AllocFails(p) ==
    /\ pc[p] = "alloc"
    /\ broken' = [broken EXCEPT ![p] = TRUE]
    /\ Goto(p, "add")
    /\ UNCHANGED <<tile, idx, in, product, z, kernelVars>>

\* Phase 2, job by job.  The domain is the same for all, so the fast path and
\* the path under domain_lock both only count.
GetDomain(p) ==
    /\ pc[p] = "get"
    /\ refs' = refs + 1
    /\ held' = held \union {Mine(p, idx[p])}
    /\ IF idx[p] = 2
         THEN Goto(p, "queue") /\ idx' = [idx EXCEPT ![p] = 0]
         ELSE idx' = [idx EXCEPT ![p] = @ + 1] /\ UNCHANGED pc
    /\ UNCHANGED <<tile, userVars, todo, job, hw, pending, run_count, fence>>

\* Mutant: the jobs stay on the lists.
QueueOnly(p) ==
    /\ pc[p] = "queue"
    /\ todo' = [c \in Irqs |-> Append(todo[c], Mine(p, c))]
    /\ Goto(p, "commit")
    /\ UNCHANGED <<tile, idx, userVars, hw, pending, run_count, fence>>
    /\ UNCHANGED <<job, refs, held>>

\* Phase 3, under irq_lock: every job to the list of its core; a core without
\* a job takes the first of its list.
Queue(p) ==
    /\ pc[p] = "queue"
    /\ LET queued == [c \in Irqs |-> Append(todo[c], Mine(p, c))]
       IN  /\ todo' = [c \in Irqs |-> IF job[c] = NoJob THEN Tail(queued[c])
                                      ELSE queued[c]]
           /\ job' = [c \in Irqs |-> IF job[c] = NoJob THEN Head(queued[c])
                                     ELSE job[c]]
    /\ Goto(p, "commit")
    /\ UNCHANGED <<tile, idx, userVars, hw, pending, run_count, fence>>
    /\ UNCHANGED <<refs, held>>

\* Phase 4, job by job and without a lock.
Commit(p) ==
    /\ pc[p] = "commit"
    /\ LET j == Mine(p, idx[p])
           c == idx[p]
       IN  IF c \in Irqs
             THEN /\ run_count' = [run_count EXCEPT ![j] = @ - 1]
                  /\ hw' = IF run_count[j] = 1 THEN [hw EXCEPT ![c] = j] ELSE hw
             ELSE UNCHANGED <<run_count, hw>>
    /\ IF idx[p] = 2
         THEN Goto(p, "poll") /\ idx' = [idx EXCEPT ![p] = 0]
         ELSE idx' = [idx EXCEPT ![p] = @ + 1] /\ UNCHANGED pc
    /\ UNCHANGED <<tile, userVars, todo, job, pending, fence, refs, held>>
-----------------------------------------------------------------------------
(* The cores *)

\* Mutant: the domain is not put.
DoneKeeps(c) ==
    /\ hw[c] # NoJob
    /\ product' = [product EXCEPT ![hw[c][1]][c] = in[hw[c][1]]]
    /\ hw' = [hw EXCEPT ![c] = NoJob]
    /\ IF job[c] = NoJob
         THEN UNCHANGED <<job, fence, refs, held>>
         ELSE /\ job' = [job EXCEPT ![c] = NoJob]
              /\ fence' = [fence EXCEPT ![job[c]] = "signalled"]
              /\ held' = held \ {job[c]}
              /\ UNCHANGED refs
    /\ pending' = pending \union {c}
    /\ UNCHANGED <<pc, tile, idx, in, z, broken, todo, run_count>>

\* A core finishes what its registers say and interrupts.  The handler signals
\* the fence of the core's job, puts its domain and frees it.
Done(c) ==
    /\ hw[c] # NoJob
    /\ product' = [product EXCEPT ![hw[c][1]][c] = in[hw[c][1]]]
    /\ hw' = [hw EXCEPT ![c] = NoJob]
    /\ IF job[c] = NoJob
         THEN UNCHANGED <<job, fence, refs, held>>
         ELSE /\ job' = [job EXCEPT ![c] = NoJob]
              /\ fence' = [fence EXCEPT ![job[c]] = "signalled"]
              /\ refs' = refs - 1
              /\ held' = held \ {job[c]}
    /\ pending' = pending \union {c}
    /\ UNCHANGED <<pc, tile, idx, in, z, broken, todo, run_count>>

\* rknpu_job_next.
NextJob(c) ==
    /\ c \in pending
    /\ pending' = pending \ {c}
    /\ IF job[c] # NoJob \/ todo[c] = << >>
         THEN UNCHANGED <<todo, job, hw, run_count>>
         ELSE LET j == Head(todo[c])
              IN  /\ todo' = [todo EXCEPT ![c] = Tail(@)]
                  /\ job' = [job EXCEPT ![c] = j]
                  /\ run_count' = [run_count EXCEPT ![j] = @ - 1]
                  /\ hw' = IF run_count[j] = 1 THEN [hw EXCEPT ![c] = j] ELSE hw
    /\ UNCHANGED <<pc, tile, idx, userVars, fence, refs, held>>
-----------------------------------------------------------------------------
(* npu_cna_3core_run, after the ioctl *)

\* Mutant: only the fence of the first core is polled.
PollFirst(p) ==
    /\ pc[p] = "poll"
    /\ fence[Mine(p, 0)] = "signalled" \/ MayTimeOut
    /\ broken' = [broken EXCEPT ![p] = @ \/ fence[Mine(p, 0)] # "signalled"]
    /\ Goto(p, "add")
    /\ UNCHANGED <<tile, idx, in, product, z, kernelVars>>

\* Fence by fence.  After six seconds the process goes on.
Poll(p) ==
    /\ pc[p] = "poll"
    /\ LET answered == fence[Mine(p, idx[p])] = "signalled"
       IN  /\ answered \/ MayTimeOut
           /\ broken' = [broken EXCEPT ![p] = @ \/ ~answered]
    /\ IF idx[p] = 2
         THEN Goto(p, "add") /\ idx' = [idx EXCEPT ![p] = 0]
         ELSE idx' = [idx EXCEPT ![p] = @ + 1] /\ UNCHANGED pc
    /\ UNCHANGED <<tile, in, product, z, kernelVars>>

Add(p) ==
    /\ pc[p] = "add"
    /\ z' = [z EXCEPT ![p] = [c \in Cores |-> Append(z[p][c], product[p][c])]]
    /\ IF tile[p] = NTiles
         THEN Goto(p, "idle") /\ UNCHANGED tile
         ELSE Goto(p, "fill") /\ tile' = [tile EXCEPT ![p] = @ + 1]
    /\ UNCHANGED <<idx, in, product, broken, kernelVars>>

InRun(p) == Fill(p) \/ Alloc(p) \/ AllocFails(p) \/ GetDomain(p) \/ Queue(p)
            \/ Commit(p) \/ Poll(p) \/ Add(p)

Next ==
    \/ \E p \in Procs : StartRun(p) \/ InRun(p)
    \/ \E c \in Irqs : Done(c) \/ NextJob(c)

\* A process in the ioctl or in the loop goes on; a core finishes its job and
\* its interrupt is handled.
Fairness ==
    /\ \A p \in Procs : WF_vars(InRun(p))
    /\ \A c \in Irqs : WF_vars(Done(c)) /\ WF_vars(NextJob(c))

Spec == Init /\ [][Next]_vars /\ Fairness
-----------------------------------------------------------------------------
(* Properties *)

\* Every variable has its type, and the domain's count is no less than zero.
TypeOK ==
    /\ pc \in [Procs -> {"idle", "fill", "alloc", "get", "queue", "commit",
                         "poll", "add"}]
    /\ tile \in [Procs -> 1 .. NTiles]
    /\ idx \in [Procs -> Cores]
    /\ in \in [Procs -> 0 .. NTiles]
    /\ product \in [Procs -> [Cores -> 0 .. NTiles]]
    /\ z \in [Procs -> [Cores -> Seq(0 .. NTiles)]]
    /\ broken \in [Procs -> BOOLEAN]
    /\ todo \in [Irqs -> Seq(Jobs)]
    /\ job \in [Irqs -> Jobs \union {NoJob}]
    /\ hw \in [Irqs -> Jobs \union {NoJob}]
    /\ pending \subseteq Irqs
    /\ run_count \in [Jobs -> Int]
    /\ fence \in [Jobs -> {"none", "waiting", "signalled"}]
    /\ refs \in 0 .. Cardinality(Jobs)
    /\ held \subseteq Jobs

\* "Immediately pop if core is idle" (patch 0004, line 114): a core only ever
\* works on the job the driver has recorded for it, so the interrupt answers
\* the job that was run.
CoreRunsItsJob == \A c \in Irqs : hw[c] # NoJob => job[c] = hw[c]

\* A run of npu_cna_3core_run in which no ioctl failed and no poll timed out
\* has added, for each core, the product of every tile, once and in order.
SumsAreWhole ==
    \A p \in Procs, c \in Cores :
        pc[p] \in {"fill", "idle"} /\ ~broken[p] =>
            /\ \A n \in 1 .. Len(z[p][c]) : z[p][c][n] = n
            /\ pc[p] = "idle" => Len(z[p][c]) \in {0, NTiles}

\* The reference count of the IOMMU domain is the number of jobs that hold
\* it, and a job holds it for as long as it is on a core
\* (rknpu_iommu_domain_get_and_switch and _put).
DomainHeld ==
    /\ refs = Cardinality(held)
    /\ \A c \in Irqs : hw[c] # NoJob => hw[c] \in held

\* A run that was started comes to its end (patch 0004: all cores are
\* committed and answer their fences).
RunEnds == \A p \in Procs : pc[p] = "fill" ~> pc[p] = "idle"
=============================================================================
