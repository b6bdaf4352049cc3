--------------------------- MODULE PyExecutable ---------------------------
(***************************************************************************)
(* PJRTExecutable of pjrt.py: a program for the NPU that is compiled once  *)
(* and executed many times on the same BOs.                                *)
(*                                                                         *)
(*   codegen    an element-wise kernel for KElem elements; larger tensors  *)
(*              are cut into chunks, and each chunk is one submit          *)
(*   template   a captured operation of one or more submits; activations   *)
(*              are cut into chunks as well, the others run once           *)
(*                                                                         *)
(* The scratch BO of a template carries state from one submit to the next  *)
(* within a chunk.  Register commands, addresses and the elements inside a *)
(* chunk are left out, and a value stands for all that float16 rounds to   *)
(* it; a submit that does not answer is reset by the driver and raises     *)
(* OSError.                                                                *)
(***************************************************************************)
EXTENDS OnnxOps, Integers

CONSTANT
    Templates    \* the captured operations, by the name of their directory

\* op, a      what the captured node computes
\* ins, out   the shapes it was captured with
\* dt         dtype of meta.json
\* submits    nsubmits of meta.json
ASSUME TemplateAssumption ==
    \A d \in DOMAIN Templates :
        /\ Templates[d].submits \in Nat \ {0}
        /\ Templates[d].ins \in Seq(Shapes) \ {<< >>}
        /\ Templates[d].out \in Shapes
        /\ Templates[d].dt \in {"float16", "int8"}

VARIABLES
    exe,        \* the executable
    operands,   \* the arguments of this execute, converted
    phase,      \* "none", "ready", "write", "submit", "read", "returned", "raised"
    ci,         \* the chunk
    sd,         \* the submit of the chunk
    scratch,    \* submits since the scratch BO was filled (-1: unknown)
    inputs,     \* the chunk in the input BOs
    outBo,      \* the chunk in the output BO
    outFlat,    \* out_flat, out_host
    counters,   \* for each run: did it answer (info())?
    res         \* the tensor execute returned

exeVars == <<exe, operands, phase, ci, sd, scratch, inputs, outBo, outFlat,
             counters, res>>

NoExe == [kind |-> "none", op |-> "none", a |-> "none", dt |-> "float16",
          ins |-> << >>, out |-> "none", submits |-> 0]

Zeros == <<"zeros">>
Garbage == <<"garbage">>

ExeInit ==
    /\ exe = NoExe /\ operands = << >> /\ phase = "none"
    /\ ci = 0 /\ sd = 0 /\ scratch = 0
    /\ inputs = Zeros /\ outBo = Zeros /\ outFlat = << >>
    /\ counters = << >> /\ res = Absent

\* from_codegen: nothing is allocated before execute.
Codegen(op, s) == [NoExe EXCEPT !.kind = "codegen", !.op = op, !.out = s, !.submits = 1]

\* from_template
FromTemplate(d) ==
    [kind |-> "template", op |-> Templates[d].op, a |-> Templates[d].a,
     dt |-> Templates[d].dt, ins |-> Templates[d].ins, out |-> Templates[d].out,
     submits |-> Templates[d].submits]

\* Frees the executable and its BOs.
Drop ==
    /\ exe' = NoExe /\ operands' = << >> /\ phase' = "none"
    /\ ci' = 0 /\ sd' = 0 /\ scratch' = 0
    /\ inputs' = Zeros /\ outBo' = Zeros /\ outFlat' = << >>
    /\ counters' = << >> /\ res' = Absent

Compiled(e) ==
    /\ exe' = e /\ phase' = "ready"
    /\ operands' = << >> /\ ci' = 0 /\ sd' = 0 /\ scratch' = -1
    /\ inputs' = Zeros /\ outBo' = Zeros /\ outFlat' = << >>
    /\ counters' = << >> /\ res' = Absent
-----------------------------------------------------------------------------
(* execute *)

Tileable == {"Relu", "Sigmoid", "Tanh", "LeakyRelu", "Clip", "Gelu"}

\* An activation whose argument has another number of elements than the
\* capture is cut into chunks.
Tiled(e, ts) == /\ e.op \in Tileable
                /\ Len(e.ins) = 1
                /\ Elements[e.out] = KElem
                /\ Elements[ts[1].shape] # KElem

ByChunks(e, ts) == e.kind = "codegen" \/ Tiled(e, ts)

\* n_chunks
Runs(e, ts) == IF ByChunks(e, ts) THEN Chunks(ts[1].shape) ELSE 1

\* Two arguments with different numbers of elements, or a compiled shape that
\* is not theirs: PJRTError, or ValueError from reshape after the submits.
Accepts(e, ts) == e.kind = "codegen" =>
    /\ Elements[ts[1].shape] = Elements[ts[2].shape]
    /\ Elements[e.out] = Elements[ts[1].shape]

\* What np.empty returned, one entry for each chunk.
Unfilled(n) == [c \in 1 .. n |-> Garbage]

\* to_host().astype(in_dt): of each number a capture of int8 gets what is left
\* of it in eight bits.  No scale is applied before, nor to the result.
Cast(dt, t) ==
    IF dt = "int8"
    THEN [t EXCEPT !.data = [c \in DOMAIN t.data |-> <<"int8", t.data[c]>>]]
    ELSE t

Converted(e, ts) == [j \in DOMAIN ts |-> Cast(e.dt, ts[j])]

Execute(ts) ==
    /\ phase \in {"ready", "returned", "raised"}
    /\ exe.kind # "none"
    /\ operands' = Converted(exe, ts)
    /\ ci' = 1 /\ sd' = 1 /\ counters' = << >> /\ res' = Absent
    /\ IF Accepts(exe, operands')
         THEN phase' = "write" /\ outFlat' = Unfilled(Runs(exe, operands'))
         ELSE phase' = "raised" /\ UNCHANGED outFlat
    \* codegen allocates its BOs for each execute.
    /\ outBo' = IF exe.kind = "codegen" THEN Garbage ELSE outBo
    /\ UNCHANGED <<exe, scratch, inputs>>

\* Are the arguments as long as those of the capture?  Longer ones are cut
\* off, shorter ones leave the end of the BO as it was.
Fits ==
    \A j \in DOMAIN operands :
        Elements[operands[j].shape] = Elements[exe.ins[j]]

\* What the input BOs hold in run n: chunk n, or the whole arguments.
Chunk(n) == [j \in DOMAIN operands |->
                IF ByChunks(exe, operands) THEN operands[j].data[n]
                ELSE operands[j]]

\* Mutant: the scratch BO is only filled for the first chunk.
WriteChunkOldScratch ==
    /\ phase = "write"
    /\ inputs' = Chunk(ci)
    /\ scratch' = IF ci = 1 THEN 0 ELSE scratch
    /\ outBo' = IF exe.kind = "template" THEN Zeros ELSE outBo
    /\ phase' = "submit" /\ sd' = 1
    /\ UNCHANGED <<exe, operands, ci, outFlat, counters, res>>

\* The inputs are written.  A template's scratch BO is filled again and its
\* output BO cleared; for codegen the scratch BO only holds the inputs.
WriteChunk ==
    /\ phase = "write"
    /\ inputs' = Chunk(ci)
    /\ scratch' = 0
    /\ outBo' = IF exe.kind = "template" THEN Zeros ELSE outBo
    /\ phase' = "submit" /\ sd' = 1
    /\ UNCHANGED <<exe, operands, ci, outFlat, counters, res>>

\* What the kernel puts into the output BO.
Computed ==
    IF ByChunks(exe, operands) THEN <<exe.op, exe.a, inputs>>
    ELSE IF ~Fits THEN Unfilled(Chunks(exe.out))
    ELSE LET seen == [j \in DOMAIN inputs |-> [inputs[j] EXCEPT !.shape = exe.ins[j]]]
         IN  Apply(exe.op, exe.a, seen).data

\* By chunks the last submit is counted, otherwise each one.
Counted == ByChunks(exe, operands) => sd = exe.submits

\* Mutant: one submit more than was captured.
SubmitOneMore ==
    /\ phase = "submit"
    /\ scratch = sd - 1
    /\ counters' = IF Counted THEN Append(counters, TRUE) ELSE counters
    /\ scratch' = sd
    /\ IF sd > exe.submits
         THEN outBo' = Computed /\ phase' = "read" /\ UNCHANGED sd
         ELSE sd' = sd + 1 /\ UNCHANGED <<outBo, phase>>
    /\ UNCHANGED <<exe, operands, ci, inputs, outFlat, res>>

\* The kernel answers if the scratch BO is as its submit expects.
Submit ==
    /\ phase = "submit"
    /\ scratch = sd - 1
    /\ counters' = IF Counted THEN Append(counters, TRUE) ELSE counters
    /\ scratch' = sd
    /\ IF sd = exe.submits
         THEN outBo' = Computed /\ phase' = "read" /\ UNCHANGED sd
         ELSE sd' = sd + 1 /\ UNCHANGED <<outBo, phase>>
    /\ UNCHANGED <<exe, operands, ci, inputs, outFlat, res>>

ResultShapeOf == IF Tiled(exe, operands) THEN operands[1].shape ELSE exe.out

\* Mutant: the failed submit is not entered in the list of tasks.
SubmitFailsSilently ==
    /\ phase = "submit"
    /\ IF exe.kind = "codegen"
         THEN phase' = "returned" /\ res' = Tensor(exe.out, outFlat)
         ELSE phase' = "raised" /\ UNCHANGED res
    /\ scratch' = -1
    /\ UNCHANGED <<exe, operands, ci, sd, inputs, outBo, outFlat, counters>>

\* codegen catches OSError and returns what it has; a template raises.
SubmitFails ==
    /\ phase = "submit"
    /\ IF exe.kind = "codegen"
         THEN /\ phase' = "returned"
              /\ counters' = Append(counters, FALSE)
              /\ res' = Tensor(exe.out, outFlat)
         ELSE phase' = "raised" /\ UNCHANGED <<counters, res>>
    /\ scratch' = -1
    /\ UNCHANGED <<exe, operands, ci, sd, inputs, outBo, outFlat>>

\* The chunk is copied; after the last one the result is a new buffer.
ReadChunk ==
    /\ phase = "read"
    /\ outFlat' = [outFlat EXCEPT ![ci] = outBo]
    /\ IF ci = Runs(exe, operands)
         THEN /\ phase' = "returned"
              /\ res' = Tensor(ResultShapeOf,
                               IF ByChunks(exe, operands) THEN outFlat' ELSE outBo)
              /\ UNCHANGED ci
         ELSE phase' = "write" /\ ci' = ci + 1 /\ UNCHANGED res
    /\ UNCHANGED <<exe, operands, sd, scratch, inputs, outBo, counters>>

ExeStep == WriteChunk \/ Submit \/ SubmitFails \/ ReadChunk
=============================================================================
