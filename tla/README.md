# TLA+ verification of opennpu_rk3588

opennpu drives the RK3588 NPU without the vendor's libraries: a PJRT plugin in C for JAX, a matmul
engine for the CNA unit, language-model and vision passes on top of it, Python front ends (PJRT,
ONNX, PyTorch) and four kernel patches. This directory models the parts that keep state, checks
them with TLC on small instances, and proves some of the results with TLAPS for every value of the
constants. Paths below are relative to `src/src/opennpu/` unless they say otherwise.

## 1. Inventory

| Part | State | Operations | Used by | Hard behaviour | What makes it correct |
|---|---|---|---|---|---|
| Op 6 and its weight cache (`pjrt_c/pjrt_npu_impl.c`) | `s_wc_*` of the process, `mm_nw` and `mm_wsrc` of the client, BOs of arrays | client create/destroy, BufferFromHostBuffer, Execute: hit, miss, full, slow path | JAX programs | keys outlive a rebuild; set-up fails half-way; a slot limit; arrays lose their mapping | a result is that of its own weight and shape; a copied weight is copied once; arrays that are held stay usable |
| Compiler and executors (same file) | the executable, `mid[]` buffers, the argument buffers | parse the bytecode, lower to a graph, search for one operation, run by submits | JAX programs | renumbering of operations, chunks, submits that fail, anything that is dropped silently | what runs to its end is what the function means; what cannot run is refused |
| CNA context (`pjrt_c/cna_matmul.c`) | `g_cna`: fd, working BOs, `n_w`, a weight per slot | set up, load, run, close, attention | plugin (op 7), vision, language model, scripts | one context for everybody; nobody owns a slot; failed set-ups and loads | a matmul uses the weight its user loaded |
| Vision (`pjrt_c/vision_forward.c`) | init flag, working buffers | init, load, forward, close | `torch_npu.py`, `jax_npu_vision.py` | sets the context up again; ignores results | as above |
| Language model (`pjrt_c/lm_forward.c`, `lm.py`) | KV cache, `lm_pos`, tables, slots | init, load, step, reset, close | `lm.py`, `torch_npu.py` | a step fails half-way through the layers; stale cache entries; reload and close | logits are those of the tokens since the reset |
| Three-core run and batch submit (`cna_matmul.c`, `kernel-patches/0004`) | tiles, fences, per-core queues, `run_count`, domain count | run, the phases of the ioctl, interrupts | processes with the device open | several processes and cores in any order, failing allocations, time-outs | each tile is added once; a core runs the job recorded for it; a run ends |
| IOMMU domain (`kernel-patches/0002`) | domain id, reference count | get and switch, put | every submit | a lock-free fast path | no switch while a job holds the domain |
| Python PJRT and raw runtime (`pjrt.py`, `runtime.py`) | executable, its BOs, scratch, result array | compile, execute by chunks and submits, info, destroy | ONNX worker, programs | scratch carried between submits, a failing submit in the middle | "ok" means that the whole result is there |
| ONNX runner and worker (`onnx_runner.py`, `npu_worker.py`) | the values of the graph | run, dispatch or CPU, one process per NPU operation | programs | fixed captured kernels, attributes, precision, workers that fail | every value is what ONNX says |
| Captured programs and their patchers (`matmul_tmpl.h`, `relu_tmpl.h`, `tanh_tmpl.h`, `pjrt_npu_addtmpl.c`, `patch_*_tmpl`) | regcmd and task BOs, the IOVAs of an fd, scratch, the words of W (`s_wc_io1_*`), the NPU's register groups and lookup table | load and patch, run, cached run with another slot, probe a placement, create the BOs of an activation at compile time | op 6 and 7, the executors, `npu_matmul_raw`, the probes | a word is an address by its value only; BOs lie where the fd has room; scratch and registers of the last call; partial chunks | the program in its new place is the captured program; an answer is that of its own operands; a block touches its own BOs |
| Code synthesis (`codegen_synthesize.py`), plugin header (`pjrt_c_api.h`) | none | byte layout of register commands, declarations | plugin, `pjrt.py` | arithmetic of addresses | planned, section 8 |
| File descriptors and GEM handles (`npu_bo_free`, `close`, all over the two C files) | the process's fd table, the handles of each open of the device, `c->fd`, `s_wc_mfd`, `g_cna.fd`, `struct npu_bo`, `wt_h` | open, close, create and destroy a BO, inside every call that closes or reopens an fd | plugin, cache, CNA context | both kinds of numbers are reused at once; a BO outlives its fd; `prime_fd` is set by nobody | a number names what its holder opened; a destroy frees its own BO; nothing but a failed call leaks |
| JAX primitive (`jax_npu.py`), PyTorch front end (`torch_npu.py`) | weight files, ctypes handles | register, export, wrap | programs | order of calls | by their effects on the CNA context |

Interactions: the plugin, the vision encoder, the language model and scripts share `g_cna` in one
process and call it directly. The plugin has a second fd for the cache of op 6. `onnx_runner.py`
starts a process per operation that uses `pjrt.py`, which uses `runtime.py`. All of them end in
the driver's ioctls; only there do processes meet. User space has one thread per process apart
from loops that OpenMP runs to their end.

`PROJECT.json` lists the components with their status, the lines each definition stands for, and
the hazards with the properties that cover them.

## 2. Modules

| Module | Models | Abstracted |
|---|---|---|
| `MatmulCache` | op 6. `ClientCreate`, `ClientDestroy`, `BufferFromHostBuffer`, `BufferDestroy`; `Matmul` is one of `FastHit`, `FastMiss`, `FastMissUnmapped`, `FastFull`, `SlowNoStaging`, `SlowSetupFails`, `SlowPath`; `Restart` of the process. The variables keep the names of the C statics | bytes of a weight (its first 16 are `Head`), IOVAs, registers |
| `CnaContext` | `g_cna`: `CacheSetup` with its failures, `CacheLoad`, `CacheLoadFails`, `CacheClose` | tiling, descriptors |
| `CnaUsers` | plugin, vision, language model and script on one context; a run whose submit the driver refuses (its result is dropped, `Run`); op 6's cache as op 7 sees it (`OpSix`, `RunFallsBack`); `Attention` on its two slots, with loads and runs that are refused | the layers: a slot stands for a weight of its user; op 6's cache is the number of its filled slots |
| `Transformer` | what a decoder computes without a cache (uninterpreted layers) | arithmetic |
| `Autoregressive` | abstract specification of a language model: logits are a function of the tokens since the reset | cache, slots, position |
| `LmForward` | `lm_forward.c` below `NPUModel`: load, step layer by layer with submits that are refused and go unnoticed (`Refusals`), reset, close, and others on the context in between. Refines `Autoregressive` | as in `Transformer` |
| `NpuBatch` | `npu_cna_3core_run`, the four phases of `rknpu_batch_submit`, and the driver's interrupt handler (external) | data of a tile |
| `Stablehlo` | meaning of a traced function, chunk by chunk | elements of a chunk |
| `PjrtProgram` | `npu_parse_graph`, the choice graph / single / refused, both graph executors and the single path, submit by submit | varints, templates |
| `RegcmdPatch` | `patch_regcmd_tmpl`, `patch_task_tmpl`, and where the driver places BOs (external) | command encoding: a block is a function from registers to words |
| `MatmulTemplates`, `ActivationTemplates` | the captured programs themselves, block by block, with every word that locates data, as the headers have them | unit and mode words; the 512 words of tanh's table, of which three stand for the rest |
| `NpuChain` | what the NPU does with one block of a matmul program (external): where it reads and writes, and which matrix lies there | values of elements |
| `NpuKernel` | abstract specification of a template matmul: a call answers the product of its own X and of what its slot holds, or fails | everything below |
| `TemplateRun` | `npu_matmul_raw`, `npu_mm_cache_*` and the probes `npu_test_*`, block by block down to the register words. Refines `NpuKernel` | bias and residual, the arithmetic of a block |
| `CapturedRun` | one run of each captured matmul program as it was captured: BOs in place, scratch empty, registers unwritten; what is assumed of it (`CapturedAssumption`) | as in `TemplateRun`; the operands are two tokens |
| `ActivationRun` | the single relu, tanh and binary executions on the client's fd: BOs and their IOVAs, chunks, submits, blocks | 49152 halfwords of a chunk are two halves |
| `GemHandles` | the fd numbers and GEM handles of one process: `proc` is the fd table, who remembers which number, the handles of each open and the BO records. `ClientCreate`, `ClientDestroy`, `NewArray`, `BufferDestroy`, `Compile`, `LoadedExecutableDestroy`, `SlowPath`, `BinaryExecute`, `BinaryFails`, `GraphHost`, `CnaSetup`, `CnaClose`, `CnaLoad`, `CnaAttention`, and a file of the program. A call is one action, its steps are functions on `proc` in the code's order. The model follows the program up to the first call that closes a number which is not its own, or `c->fd` under a BO that is held (`astray`) | one BO stands for the five of an activation and for those a failed call leaves, two for the cache's; memory that stays mapped |
| `OnnxOps` | meaning of ONNX nodes, shapes and chunks | elements of a chunk |
| `PyExecutable` | `PJRTExecutable`: `Execute`, `WriteChunk`, `Submit`, `SubmitFails`, `ReadChunk`, codegen and templates | registers, dtypes |
| `OnnxRunner` | `_exec_node` (`CpuNode`, `NpuNode`), the worker (`WorkerCompile`, `WorkerExecute`, `Deliver`, `WorkerDies`), and a program that calls `pjrt.py` (`Program...`) | pickles, files |
| `MC...` | values of the constants for TLC | |
| `...Proofs` | theorems about the modules they extend; `CnaProofs` about `CnaUsers` and `NpuBatch`, for which the actions of `CnaUsers` as a whole are `UsersInit`, `UsersNext`, `UsersSpec` | |

`CnaUsers` and `LmForward` extend `CnaContext`; `LmForward` extends `Transformer` and instantiates
`Autoregressive`; `PjrtProgram` extends `Stablehlo`; `OnnxRunner` extends `PyExecutable`, which
extends `OnnxOps`; `TemplateRun` extends `NpuChain`, which extends `RegcmdPatch`, and instantiates
`NpuKernel`; `CapturedRun` extends `TemplateRun`; `ActivationRun` extends `ActivationTemplates`, which extends `RegcmdPatch`.
`GemHandles` stands alone. `MatmulCache` is about the keys of op 6, `GemHandles` about the fd and
handles of the same calls, `TemplateRun` about the words, addresses and scratch of the
same cache, and of the raw calls that share its patchers. One action is one call of the code, except where the order inside the call
matters: a step of the language model is an action per layer, an execution one per submit, the
ioctl one per phase and core, a matmul program one per block of the NPU. Definitions marked "Mutant" are plausible bugs; a property is kept
only if some mutant violates it.

## 3. Runs

| Run | States | Question | Bounds, and why they are enough |
|---|---|---|---|
| `matmul_cache` | 30,459 | Does the cache ever speak for a weight it does not hold, over hits, misses, a full cache, changes of shape, failed set-ups and restarts? | `NWPre` = 2 slots for the 12 of MM_NWPRE: full with the third weight. `MaxNw` = 4: two increments past the end. Two arrays, five weights: three of one shape, one of another, one without a kernel; one begins with zeros. `MaxClients` = 1, see section 7 |
| `matmul_same_head` | violation | Do two weights that begin alike each get their own result? | two weights with equal first 16 bytes |
| `cna_users` | 6,331 | Four users one after the other, with attention and op 6 beside them: does each multiply by its own weights? | two slots each, and two of attention behind them, which only the script asks for, as in the repository; `MaxSlots` = 4 is MAX_NW scaled; two keys, so that a stale one differs; two slots of op 6's cache (`CacheSlots`), full and not |
| `lm_step` | 1,055,334 | Are the logits those of the tokens since the reset, through failing loads and steps, foreign set-ups and closes? Does `LmForward` implement `Autoregressive`? | two layers (order and failure between layers), two tokens (stale entries differ), `MaxSeq` = 2 (one cached position and a full cache), `RaiseAt` the first load and one later, `Refusals` none or the product that makes key and value, in any layer of any step, `ForeignNw` too small and large enough |
| `npu_batch` | 1,829 | One process: are all tiles added once and in order, do cores run what is recorded, does the run end? | two tiles of a run and the next run reuse buffers; three cores, any order of fences, failing allocations |
| `npu_batch_busy` | violation | A second process while the cores are busy | one tile each |
| `pjrt_fused` | 144,971 | Does every executable return what its function means, and is no function refused that a graph can take, a lone maximum with zero excepted? | three operations: a constant, its broadcast and a use, or a DAG with a shared result; two chunks; `BodyCap`, `GraphCap` as in the source and not reached |
| `onnx_graph` | 49,348 | Is every value what ONNX says, whatever goes to a worker; does "ok" mean that the result is whole; is the scratch BO in step? | graphs of two nodes (a wrong value reaches the next); real shapes of one block, among them one of two chunks whose second is partly filled; captures of every kind that the code knows, a Clip among them; one or two submits per chunk; executables are run again with other arguments, also after a failure |
| `template_run` | 22,650 | Is every answer that of its own operands, for the five captured matmul programs, with what an earlier call left in scratch, registers and patched words? Does the chain lead through the task table, and does each block stay inside its BOs? Does `TemplateRun` implement `NpuKernel`? | two X, two W and two slots (a stale one differs; X and W are symmetric); both environment variables on or off, `NPU_ZSZ` below the size of scratch; an error after the 11th block (`AbortAfter`, after the copies and before the product) and wherever a block leaves its BOs; every placement the code makes: in place, below 19 weights, W below, below the relu BOs, scratch or the input last, the input in another fd |
| `template_low` | violation | The same placements: does patching move only addresses? | one X, W and slot |
| `activation_run` | 1,287,925 | Does relu, tanh or a difference answer its own operand wherever the fd left room, with any order of compiles, buffers and calls? Does a kernel write its own BOs only? Does an activation compiled first lie where it was captured? | `MaxCalls` = 5 calls that create BOs: an operation compiled and run between two others, with a hole left by a destroyed buffer; operands of three halves (a full chunk and a partial one); a kernel BO that cannot be had at the fourth place (`FailAt`), or an output; freed BOs of which all give back their IOVAs, or all but those from 128 KiB on, scratch and buffers of more than a chunk (`LeakFrom`) |
| `gem_handles` | 403,114 | With slow paths, host graphs, attention, set-ups and another file in any order, and BOs and submits that are refused: is each fd somebody remembers still his, is each BO he holds still named by its numbers, has each BO somebody to free it, those of failed calls excepted? | fds 3 to 6: three opens of the device and one other file; two arrays (the operands of a matmul; symmetric), one weight; eight handles, of which four are numbers of fds: four working BOs and two heads' worth of two; one BO of a failed call at a time on a file (`MaxLost`); the stack holds nothing or the number of an fd (`Garbage`) |

`ActivationRun_main.cfg` and `GemHandles_main.cfg` turn the deadlock check off: after `MaxCalls` calls a
program that holds nothing any more has nothing to do, and `GemHandles` stops at a call that goes astray.
What a violation run shows is in section 6.

## 4. Fairness

Only `NpuBatch` states fairness: weak fairness for a process that is in a run (the scheduler runs
it; the ioctl waits for nothing, `poll` returns at a signal or after six seconds), and for each core
finishing its job and having its interrupt handled (the hardware; a core that hangs is reset after
the driver's own time-out). No fairness is assumed for starting a run. `RunEnds` is stated with
`MayTimeOut = FALSE`, one task per job taking less than a poll. The other modules state only
safety: the device may refuse an open, a BO or a submit at any time, and nothing has to succeed.

## 5. What is proved

All theorems hold for every value of the constants that the named ASSUMEs allow; TLC evaluates
those on every run.

* `MatmulCacheProofs`. `TypeCorrect`: `[]TypeOK`. `KeysCorrect` and `CopiesKept`: `CacheCoherent` and
  `CopiedOnce`.
  `KeyedSlotsKept`: `KeyedSlotsStable`. The inductive invariant is `TypeOK` with the two key
  properties; they need each other, because a miss appends a key that no keyed slot has.
  `OpenShapeCorrect` (`ShapeOfOpenCache`) assumes `MaxClients = 1` and strengthens with `FreshOK`: a
  process that has not had a client has no open cache, so creating one overwrites no shape.
  `ResultCorrect` (`ResultIsOfW`) also assumes `HeadsDiffer`: no two contents agree in 16 bytes.
* `CnaProofs`, about what `cna_matmul.c` keeps; first part, about `CnaUsers`. `UsersTyped`: `[]UsersTypeOK`. `LoadedKept` and `OwnWeightsUsed` assume
  `Disciplined`: one user is closed before the next starts, loads are checked, and attention has slots
  that no user loads. The invariant `UsersInv` says: at most one user is up (`OneUser`); a client's slots hold
  its own weights or nothing (`ClientSlots`); a user has loaded only slots it uses (`LoadedInUse`), and
  what it loaded is in its slots (`LoadedStays`). The last one alone is not inductive: a second user
  that is up could overwrite a slot. `OwnWeights` is about matmuls in slots of the context whose submits
  the driver took; of the others (`refused`, `template`, `attention` in `last.how`) nothing of the kind holds,
  section 6.
* `CnaProofs`, second part, about `NpuBatch`. `BatchTyped` (`TypeOK`) and `DomainCounted` hold for any number of processes and
  tiles, with time-outs and failing allocations: the count of the domain is the number of jobs that
  hold it. The invariant is `HoldInv`: jobs on a list (`ListsHold`) or recorded for a core
  (`JobsHold`) hold the domain, a list has a job once, and a batch gets the domain for its jobs in the
  order of the cores (`GetsInOrder`); without these the count could be put twice for one job and
  `TypeOK` would not be inductive. `CoresCorrect` (`CoreRunsItsJob`), `DomainKept` (`DomainHeld`) and
  `SumsCorrect` (`SumsAreWhole`) assume `Alone`: one process whose polls do not time out. `CoreInv`
  adds what phase 3 and 4 rely on: at every step of the run no list has a job that waits, a core has
  nothing or the job of this tile, and its buffers hold this tile. `SumInv` says how many tiles each
  output has at each step, and that what is added has been computed. With two processes the first of
  them fails (`npu_batch_busy`).
* `LmForwardProofs`. Under `Agreed` (the loader's role count and stride are those of `lm_idx`, and
  GPT-2 has a projection block) `LmTyped` and `RolesCorrect` hold. With a reset before each model's
  first step, and as long as no submit was refused since the reset (`kept`), `PositionCorrect`, `CacheCorrect`, `LogitsCorrect` and `LmImplements` follow, for any
  number of layers, tokens, slots and models: also for two models that take turns, which no run
  checks. The invariant `Sound` puts together the types, where a step is (`StepPlace`,
  `StepOwner`), the position as the length of the context, the roles in their slots, and what the
  layers below `call.i` have written at the position (`StepValues`). The last one is needed because
  the cache is overwritten layer by layer while `pos` moves only at the end; a failure leaves it
  half written. `LmImplements` maps each action to one of `Autoregressive` or to a stutter.
  `Hidden` satisfies its recursive equations by assumption (`HiddenAssumption`): TLC evaluates
  them for the concrete terms of `MCLmForward`.
* `OnnxRunnerProofs`. `RunnerTyped` (`TypeOK`), `ValuesAreOnnx` (`ValuesCorrect`), `OkMeansWhole`
  (`OkIsWhole`) and `ScratchAlwaysInStep` (`ScratchInStep`), for any shapes with any numbers of elements,
  captures, submits and graphs of any length. `CaptureAssumption` says what the directories hold that
  `_exec_node` chooses by name, as `NPU_OPS` lists it; nothing is assumed of the others, and the program
  beside the runner may use them all. The invariant has three parts. `Control`: who is at work.
  `GraphInv`: what the nodes before have read was there (`InGraphOrder`), so a value more does not
  change what their operands mean, and the node a worker is started for is one of the graph. `ExeInv`:
  what is compiled belongs to that node (`Compilation`); the arguments are its operands (`Arguments`);
  the chunks below `ci` are in `outFlat` and the current one is in the input or the output BO
  (`Progress`); a result is whole, or a task says it failed (`Answers`); the tasks so far and the
  scratch BO (`Counts`). `OkIsWhole` alone is not inductive, since it says nothing before the last chunk.
  `Conversions` says that astype changes no shape, and to float16 no value. `RunnerCapture` then shows that the capture is the node's operation on the node's shapes (any shape
  for an activation) unless the node is one of `Diverges`, as all are that go to an int8 capture, and `Delivered` that the chunks put together
  are what ONNX says.

* `TemplateRunProofs`, first about the patchers of `RegcmdPatch`, for any capture, placement and word.
  `RepointKeepsRole`: an address goes to the same offset of the BO that has its role.
  `RepointKeepsApart`: two addresses never fall together. `WordMoves`: a word changes exactly if it lies
  in a window of the capture whose BO is elsewhere, whether it is an address or not; this is the cause
  of `template_low`. `InPlaceIsCaptured`: in place, patching is the identity. The first two assume that
  the windows are disjoint (and for the second the new BOs too).
  Then about `TemplateRun`. `ChainTheorem`: `[]ChainFollowsTable`, for any set of programs that satisfy
  `TemplateAssumption` (as captured, each task entry is a block and the block's chain word is the next
  entry). Two functions patch the two arrays; the invariant `ChainInv` says that in every open
  context both are the captured ones moved by the same distance, and that no word a cached run
  rewrites is a chain word. `SlotsFound`: `[]SlotWordsFound`. The setup finds the words of W by their
  values after patching, so it is right only if no other word falls into the first slot: an address does
  not, because the BOs are apart (`WordMovesToSlot`), and a number that lies in no window of the capture
  does not by `CaptureAssumption`, which TLC evaluates on the five programs. The invariant `SlotInv` adds
  that no word is remembered twice; otherwise a run would find two offsets for it and could mix them.
  `Types`: `[]TypeOK`. Its invariant `RunInv` adds what is open (`ContextInv`: the BOs are apart, and the
  commands are the captured ones patched for one of the weight BOs, the one whose contents the call in
  progress multiplies with), the offsets a set-up remembers (`OffsetInv`), what a matrix in scratch is
  made from (`ValueInv`) and where the NPU is in the task table (`DeviceInv`). That the commands are those
  of one slot after any number of cached runs is the lemma that needs `SlotInv`.
  Last, what the programs compute. They are data: that the words of one of them are the right ones
  can only be evaluated, and `CapturedAssumption` says what has to be found of a program when it runs
  once, alone, as it was captured. Each block stays in its BOs; what it reads in scratch is one matrix
  and whole; no piece that any block of any copy writes under the same layout can be mistaken for a
  part of it, unless this run has written over it before; the last block answers the product. TLC
  evaluates this on the five programs, on two copies of each. Everything else is proved from it: `StaysInBOs`
  (`[]AccessInsideBO`) and `KernelImplemented` (`Implements`) hold for any number of calls, slots, operands,
  environments, aborts and probes, for any set of such programs. The invariant is `JobInv`: in a context
  whose program is in place, scratch holds pieces of calls of this program only (`LeftIn`), and a call in
  progress goes `Alongside` the captured run. As many blocks on, the register groups are the captured
  ones, moved to where the BOs lie and to the slot (`RegsMove`); scratch holds the captured pieces
  with the operands of this call, and leftovers that share no byte with what this call has written
  (`SameScratch`). `Implements` alone says nothing before the answer. The steps are: a block reads the same
  matrices (`ReadsRight`, from `CoversSame`: the leftovers cover nothing of what is read), from the same
  registers (`PlacedRegisters`) or from the BO that took the place of the captured one (`ReaderFinds`),
  so it makes the same piece (`MakesSame`), at the same place (`StaysInScratch`) or at the same offset of
  a BO (`ReachSame`). `Content` was corrected on the way: its CASE had guards that hold together if
  BOs overlap; `@@` and `:>` of the module TLC, which the prover cannot expand, became functions.

* `GemHandlesProofs`. `HandlesTyped` (`TypeOK`), `NumbersAreOwned` (`FdsOwned`), `BosStayLive`
  (`HeldBosLive`) and `HandlesAreRemembered` (`NothingElseLeaks`), for any numbers, handles, arrays and
  weights and any garbage on the stack, whatever BOs and submits are refused. All four speak of the
  program up to the first call that goes astray: an attention or a free of a BO on the stack that
  closes the number of an open file, a slow path or host executor that closes `c->fd` under a BO that is
  held. Nothing in the code rules such a call out, and nothing is claimed of what follows it. None of the
  properties is inductive. `Good` adds: what a number names belongs to one owner (`Owned`); a BO that is
  held lies in the file of its owner, and those a closed CNA context left behind name one file, so that
  an open file always finds a fresh name (`Boxes`, `Fresh`); an open CNA context has its working BOs
  (`CnaReady`); what is live on the client's file or the cache's is remembered by its owner, unless a
  failed call left it (`Leakless`).
  A call of the code is a chain of open, close, create and free; there is a
  lemma for each of these (`OpenCore`, `CloseCore`, `CreateCore`, `FreeAllCore`, `ForgetCore`), which
  says that it keeps `Core` and what else it changes, and one for each call, which chains them.

* `PjrtProgramProofs`: all four properties of `pjrt_fused`, for functions of any length over any shapes
  with any numbers of chunks: `ProgramTyped` (`TypeOK`), `FusedIsRight` (`FusedCorrect`), `SingleIsRight`
  (`SingleCorrect`), `FusableCompiles` (`FusableAccepted`). `ProgramAssumption` asks for one to eight
  arguments, which is what the arrays of the executable hold, and positive capacities.
  First the compiler. `LoweredTo` says of the tables of `npu_parse_graph` after `i` operations that every
  tensor so far is a constant of the right content, nothing, or an entry of `g_ops` that computes it
  from the entries of its operands (`Translates`), and that entries are numbered upwards without gaps
  (`Numbered`); one lemma for each branch of the loop (`ConstLowers`, `MaximumLowers`, `TanhLowers`,
  `DotLowers`, `BinaryLowers`), and `AddsKeeps`: what is translated stays so.
  Then the executors. `Compiled` says that a graph comes from such tables, `Running` that `mid` holds what
  the operations below `k` mean: of the current chunk on the device (`DeviceAt`), of all chunks on the
  host (`HostAt`). `FusedCorrect` alone is not inductive, for it is about the end. The device's executor
  takes one size for all operations; that this is right is the lemma `SameShape` (a graph without
  matmul whose operations are all used has one shape). The host's follows the shapes of the operations
  (`GraphShapeIs`). For the single paths, `SingleInv` says which operation the search for names has
  found: with the operands in order it is the only one of the function (`InOrderIs`,
  `NamesInOrder`, `FirstInOrder`). `FusableCompiles` is the other direction, for all functions but a lone maximum (`LoneMaximum`): what `Fusable` says of the
  meaning of the tensors is what the branches look at in the tables (`Matches`), so no operation is
  refused (`FusedStep`), and there is room for all, because each takes one entry.
  `Values`, `GraphShape` and `Lowered` are defined by recursive functions. That each satisfies its
  equation is shown by taking the least position at which no function satisfies it further
  (`Least`, `Induct`), not by an induction theorem. `LowerOp` was corrected on the way: its CASE had two
  guards that hold together once an operation has been refused, and so did not say which is taken.

* `ActivationRunProofs`: all four properties of `activation_run`, for any set of operations, inputs of
  any positive length, number of calls and failing BOs. `Types` (`TypeOK`), `Answered` (`ResultRight`) and
  `StaysAtHome` (`WritesOwnBOs`) follow from one invariant (`Safe`: `[]Inv`); `FirstCompiled`
  (`CompileFirstInPlace`) is about the heap alone. `BoundAssumption` asks that the operands are not
  empty and that no operation has one of the two names an answer uses for its absence.
  First the captured programs, as words: for every place `lo` of the kernel BOs, the patched commands
  of relu, tanh and the binary template make block `b` do `Steps(op, lo)[b]`, one source and one
  destination, and lead to the next block (`EveryBlock`, from `ReluDoes`, `TanhDoes`, `AddDoes`); the task
  tables, submit by submit, name these blocks in order (`SubmitsFit`, `TaskEntries`).
  Then the heap: `Gap` finds a region below 4 GB that meets no other (`GapFits`), since the regions in
  use have a lowest one; that is shown with the least element of a set of numbers (`Least`, `Lowest`), as
  in `PjrtProgramProofs`. Regions that leaked stay taken for good (`LeakFrom`), which only makes the fd fuller: `CreateFits` gives
  the BOs of a call apart from each other and from all that is held or leaked, `CreateFirst` those of an empty fd: one below the other, which is where the captures lie.
  The invariant: `HeapInv`, everything held is below 4 GB and the BOs of an executable are apart;
  `CallInv`, the call in progress is one of an executable and of live buffers of one size; `PatchInv`, the
  commands and the task table are those of its operation patched to its BOs; `NpuInv`, the NPU is at the
  block after the `Done` ones; `DataInv`, the halves read back are right, and after `Done` blocks the
  chunk, or the result, lies whole at the one place the next block reads (`Stage`); `AnswerInv`.
  `ResultRight` alone says nothing before the answer, and `DataInv` is not inductive without the
  others: a block reads the right chunk only if the NPU is where the table says, the commands are
  patched to this call's BOs, and no two of its BOs overlap. An earlier call may leave anything in the
  BOs, which is why `Stage` speaks of the one place and not of memory as a whole.
  For the prover, `@@` and `:>` of the module TLC became `Over`, a union of a set of sets got its
  parentheses, and `Create` takes the regions of the BOs made so far directly; what the model does is
  the same, state for state.

Only model-checked: liveness (`RunEnds`; the prover has no rules for fairness and ENABLED). Evaluated
by TLC and not proved: `CapturedAssumption`, since the five matmul programs are data. What the words of
relu, tanh and the binary template make the NPU do is proved (`EveryBlock`), since they are few.

## 6. Where code and text disagree

Each of these is a violation run with one property that quotes the text, and a finding in
`PROJECT.json`.

* `matmul_same_head`: a weight is recognised by 16 bytes; another with the same ones gets its result.
* `npu_batch_busy`: the batch pops a queue whose core is at work and commits over it.
* `template_low`: the patcher repoints every word that looks like an address of the capture. The notch
  of the strided readers (register 0x504c, a negative distance) looks like one of scratch,
  and moves when scratch lies elsewhere: the reader drifts out of its BO. The texts put such failures
  down to a limit of the hardware ("hard DMA reach limit", `docs/ARCHITECTURE.md:811` in the root of
  the repository; "the reach window", `pjrt_c/pjrt_npu_impl.c:1988-1990`).

The following are no runs. TLC shows each one on the instance named, when the property named is checked
there, or a constant is changed; the properties of the passing runs except it by name, and the hazards in
`PROJECT.json` say where.

| What the code does | What a text says | How to see it |
|---|---|---|
| The result of the submit ioctl is dropped (`cna_matmul.c:169`): after a refused submit `npu_cna_cache_run_m` adds up what the output BO held and returns 0, `npu_lm_step` writes a key and value made of it, goes on and returns 0 with wrong logits, and later steps read that entry until the reset | "Process prompt tokens. Returns logits for last token." (`torch_npu.py:396`); `lm.py:104` raises only for a result other than 0 | `EveryAnswerOfContext` on `lm_step`; with `ForeignNw = {}` too, where nobody else touches the context |
| Close and init leave `lm_pos`: the first prompt after a new load starts in the middle | the same sentence | `lm_step` with `ResetsFirst = FALSE`: `LogitsOfContext` |
| Op 7 without an open CNA context runs slot `w_idx` of op 6's cache, whose slots op 6 fills in the order in which it meets its weights (`pjrt_npu_impl.c:1640`) | "W is a plugin-managed cached weight (loaded at Client_Create from $NPU_WEIGHTS_DIR/w{N}.bin into s_wc_wb[N])" (`:1601-1603`) | `FallbackOwn` on `cna_users` |
| Attention drops the results of its loads and runs (`cna_matmul.c:389-410`). Slots 126 and 127 are out of range of every set-up of the repository (12 to 86 slots; LLaMA asks for 226, in which they are its own), so the scores are those of the call before | "K and V are reloaded into CNA weight slots each call" (`:319`, `docs/OP_LOWERING.md:139`) | `AttentionUsesItsKeys` on `cna_users` |
| `fn_Client_Create` always sets the context up again and wipes what a script loaded (`pjrt_npu_impl.c:258`) | "You must set it up via `ctypes` before JAX execution" (`docs/CNA_DESCRIPTOR_GUIDE.md:654-669`, with `import jax` after the loads) | `cna_users` with `Exclusive = FALSE`: `LoadedStays` |
| Operands of an int8 capture are converted by `astype(int8)` and the result is never scaled back (`pjrt.py:509`, `:572`, `:614`): 0.3 goes in as 0 | "int8 (w8a8): Same as float16 (except Div)", of operations verified on hardware (`README.md:137-141`, root) | `Int8Values` on `onnx_graph` |
| `max(x, 0)` and nothing else is too small for a graph (`pjrt_npu_impl.c:938`) and, with its constant, too large for the single path (`:982`) | `docs/JAX_NPU_PLUGIN.md:167` lists it as supported | `LoneReluAccepted` on `pjrt_fused` |
| The single paths take the first two arguments whatever the operands are (`:1404`), and the operation is the first name in the text: `b - a` computes `a - b`, a call of silu a product | "Unsupported programs fail with a clear error message" (`docs/JAX_NPU_PLUGIN.md:178-179`) | `SingleNotWrong` on `pjrt_fused` |
| A compile or binary execute that cannot have all its BOs forgets those it got (`:1017`, `:1836`) | freed "so their IOVAs are released back to the aperture -- otherwise they leak" (`:1070`) | what `NothingElseLeaks` excepts (`Lost`) |
| `close(wt_h[slot])` passes a GEM handle to close(2), which closes the file of that number and frees no BO (`cna_matmul.c:388`) | it "frees the old GEM handle" (`docs/OP_LOWERING.md:152`) | `FdsStay` on `gem_handles`, with `Garbage = {0}` |
| `npu_bo_free` closes a positive `prime_fd`, which nothing sets and which for a BO on the stack is what lay there (`pjrt_npu_impl.c:97`) | "we deliberately do NOT call BO_REGISTER (0xC008640a) nor PRIME_FD here" (`:67-68`) | `FdsStay` on `gem_handles` |
| The client opens the CNA context at its start and not op 6's cache, so the first matmul takes the slow path and closes `c->fd` under arrays that are held (`:1570`) | "never needs to close c->fd -- device buffers stay alive" (`:253-255`) | `BuffersStayAlive` on `gem_handles` |
| Freeing BOs one by one leaks the IOVAs of large ones (`:1139-1141`, `:1512-1513`) | `fn_LoadedExecutable_Destroy` frees them "so their IOVAs are released" (`:1070-1072`) | `activation_run` takes both (`LeakFrom`) |

Met while reading and in no model's property: of a function with a cached matmul and other
operations only the matmul runs; `npu_worker.py` passes `dumps_dir` to `compile_codegen`, which has
`capture_dir`, so every Add, Sub, Mul, Div of equal shapes in float16 ends the run
(`WorkerRaises`); `s_wc_io1_n` "should be 2" (`pjrt_c/pjrt_npu_impl.c:2142`) is true of qkv alone.

## 7. Assumptions of the passing runs

These are conditions under which the properties are stated. Each one hides a behaviour of the code
that is known to be different:

* No submit refused: `OwnWeights`, `LogitsOfContext` and `CacheOfContext` except matmuls whose submit the
  driver refused, the last two until the next reset, and `OwnWeights` also op 7 on op 6's cache and
  attention. Op 6's cache in `cna_users` has the default `NPU_NWPRE`, MM_NWPRE slots.
* One client per process (`MaxClients`): a second overwrites the shape of an open cache.
* One user of the CNA context at a time (`Exclusive`): a client, a vision encoder or a script that
  starts wipes what others loaded. `CNA_DESCRIPTOR_GUIDE.md:654-669` loads from a script before JAX
  creates its client; with `Exclusive = FALSE` `LoadedStays` fails.
* Loads are checked (`Checking`): the loaders in `torch_npu.py` and for LLaMA ignore results; an
  empty slot multiplies to zeros and reports success.
* Set-ups fit the arrays (`MaxSlots`): LLaMA asks for 226 slots of 144.
* `Agreed`: with INTER = 8*dim the loader's stride differs from `lm_idx`, and without projection
  blocks role 3 is the next layer's slot 0. `ResetsFirst`: two `NPUModel`s share one state, and so
  does a model with the one that was closed before it.
* `FusedCorrect` leaves out runs after the host executor freed the caller's arrays.
  `SingleCorrect` is stated for operands in the order of the arguments and for operations of the
  documented table: `b - a` computes `a - b`, `a - a` of one argument reads one that is missing,
  `maximum(a, b)` runs as relu, a call of silu as a product.
* `Fusable` excludes tanh beside relu; `max(x, 0)` alone is refused although
  `docs/JAX_NPU_PLUGIN.md:167` lists it, and `FusableAccepted` excepts it by name (`LoneMaximum`). Two constants beside a matmul read `out_dims[-1]`; more
  than eight arguments are read behind an array.
* `ValuesCorrect` excludes `Diverges`: every node that goes to an int8 capture, int8 element-wise operations on
  other shapes than the captured one, softmax64 on another axis, LayerNormalization with another epsilon, Transpose without perm
  on the captured shape, Clip with a maximum only. A value stands for all that rounds to it in float16, so the values are ONNX's up to that rounding. Not in
  the model at all: Erf's polynomial,
  ReduceMean and Squeeze whose axes are an input, the axis of a LayerNormalization.
* `Implements`, and `ResultRight` for relu and tanh, are stated for programs that lie where they were
  captured (`InPlace`): elsewhere constants move with the addresses (`WordMoves`). Binary operations
  are patched word by word, and `ResultRight` holds for them wherever they lie.
* `CapturedAssumption` and `TemplateAssumption` are about the five programs of `MatmulTemplates`, and TLC
  evaluates them there; `ConstantAssumption` asks for fillers that are numbers, at least one extra BO
  where npu_test_wbelow is asked for any, and a role for npu_test_bo_low.
* The operands of `activation_run` are not empty, both of a binary operation have one size, and a result
  is not fed back as an operand: the size of the second is not looked at by the code.
  `CompileFirstInPlace` speaks of an fd on which nothing is held and nothing has leaked: no text says
  from which size on the IOVA of a freed BO is lost.
* `gem_handles` says nothing of a program from the first call on that goes astray: attention that closes a
  handle which is the number of an open file, `npu_bo_free` with such a number on the stack (undefined
  behaviour), a slow path or host executor with anything held but its operands. Section 6 has them.
  The BOs of failed calls leak and are excepted.
  A call runs as a whole: no other thread opens a file between the close and the open of a slow path.
* `SumsAreWhole` says nothing of a run in which an ioctl failed or a poll timed out: the code looks
  at neither and adds the last tile's product again.

## 8. Not modelled, and the plan

Not modelled: activations, layer norm, sampling and profiling of the language model (arithmetic);
`npu_cna_mm` (no caller); the replay mode of `pjrt.py` and `from_module` (what they call does not
exist); `serve` of `npu_worker.py` (it is called above its definition); the vendored header (it
declares); the rest of the kernel driver (external).

Of the captured programs: the words that select units and modes, the submit's flags, the host
arithmetic of `npu_mm_cache_run_bias`, the relu runs that `npu_test_coexist` puts between its
matmuls, where the kernel BOs of the graph executors lie, the change of the client's fd by the slow
path of op 6 at the level of IOVAs, relu and tanh executables of which only some BOs could be had
(`has_relu_bos` is not looked at when they run).

Order of work so far: op 6 first (the most state and the most paths), then the context that three
other parts share, the language model as its largest user with the abstract specification, the
batch submit for concurrency, then the compiler and the two Python stacks, then the captured
programs with their patchers, down to the words, and the numbers that all of them share.

Next, in this order:

1. The rest of `GemHandles`: `runtime.py` (`NPUBuffer.close`, "NEVER close the NPU device fd"), the BOs
   of the three-core run, which belong to the fd of `g_cna` at their set-up, and the raw calls'
   own fd.
2. `IommuDomain`: patch 0002's fast path against a switch, and the puts of `err_iommu`; two domains,
   three jobs. Abstract specification: a switch happens only when nobody holds the domain.
3. Tiles and layouts as functions: the descriptor tiling of `npu_cna_cache_load`, the fp16 layouts,
   `scratch_layout`, and the register arithmetic of `codegen_synthesize.py` against reference
   definitions over bounded sizes.
4. `torch_npu.py`: the loaders as users of `CnaUsers` and `LmForward` that do not check.

Since each run asks its own question, new ones replace or extend the ones above rather than
repeat them with other numbers.
