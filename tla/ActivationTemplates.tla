-------------------------- MODULE ActivationTemplates --------------------------
(***************************************************************************)
(* The captured programs of the element-wise kernels of one chunk of       *)
(* (1,64,768) halfwords: relu_tmpl.h, tanh_tmpl.h (three submits, an array *)
(* each) and pjrt_npu_addtmpl.c.  The registers are named as in            *)
(* MatmulTemplates; src2 is 0x5038 (the second operand), alu stands for    *)
(* the selectors 0x4070, 0x4084, 0x5044.                                   *)
(***************************************************************************)
EXTENDS RegcmdPatch

Block(at, kind, words) == [at |-> at, kind |-> kind, words |-> words]

ChunkBytes == 98304

\* A captured program: roles 1..4 as everywhere, the output is role 5.
OUT == 5
Copy(at, kind, src, dst) == Block(at, kind, [src |-> src, dst |-> dst])
With(b, more) == [b EXCEPT !.words = Over(@, more)]

(***************************************************************************)
(* relu: a strided reader that turns rows into columns, the relu in place, *)
(* a writer.  Task entries 4 to 11 hold the parts of a multi-core split,   *)
(* which no submit runs; the blocks they name chain to nothing.            *)
(***************************************************************************)
relu_sz == <<4096, 8192, 294912, ChunkBytes, ChunkBytes>>
relu_cap == <<-\h1000, -\h3000, -\h4B000, -\h63000, -\h7B000>>
g_relu_task ==
    LET at == <<\h80, \h300, \h580, \h80, \h800, \h580, \hA80, \h80, \hD00, \h580,
                \hF80, \h1200>>
    IN  [t \in 1 .. 12 |-> relu_cap[REGCMD] + at[t]]
g_relu_chain ==
    LET column == relu_cap[SCRATCH] + \h30000
    IN  <<With(Copy(\h80, "reader", relu_cap[INPUT], column),
               [rows |-> 64, line |-> \h600, notch |-> -\h17A00, next |-> relu_cap[REGCMD] + \h300]),
          With(Copy(\h300, "relu", column, column), [next |-> relu_cap[REGCMD] + \h580]),
          Copy(\h580, "writer", column, relu_cap[OUT])>>
g_relu_split ==
    LET part(at, from) == Copy(at, "relu", relu_cap[SCRATCH] + from, relu_cap[SCRATCH] + from)
    IN  <<part(\h800, \h30000), part(\hA80, \h3C000), part(\hD00, \h30000),
          part(\hF80, \h39000), part(\h1200, \h42000)>>
g_relu_regcmd == g_relu_chain \o g_relu_split
relu_submits == <<[start |-> 0, count |-> 3]>>

(***************************************************************************)
(* tanh: reader, upload of a table of 1026 words, lookup, writer; three    *)
(* submits of one, two and one blocks.  The arrays of the submits are the  *)
(* same.  512 words of the table are negative: as addresses they would lie *)
(* in scratch (348), in the register commands (143) or in the task table   *)
(* (21); one of each stands for them.  So is the constant 0x4110 (`bias')  *)
(* of the lookup.                                                          *)
(***************************************************************************)
tanh_sz == <<4096, 20480, 393216, ChunkBytes, ChunkBytes>>
tanh_cap == <<-\h1000, -\h6000, -\h66000, -\h7E000, -\h96000>>
Thrice4(cap, ats) == [t \in 1 .. 12 |-> cap[REGCMD] + ats[1 + ((t - 1) % 4)]]
g_tanh_task0 == Thrice4(tanh_cap, <<\h2300, \h2580, \h4800, \h4A80>>)
g_tanh_task1 == g_tanh_task0
g_tanh_task2 == g_tanh_task0
tanh_reader == With(Copy(\h2300, "reader", tanh_cap[INPUT], tanh_cap[SCRATCH] + \h30000),
                    [next |-> tanh_cap[REGCMD] + \h2580])
tanh_table == Block(\h2580, "table",
    [lut1 |-> -\h7F63, lut2 |-> -\h5FAE, lut3 |-> -\hFC6,
     src |-> tanh_cap[REGCMD] + \h2300, dst |-> tanh_cap[REGCMD] + \h2300,
     next |-> tanh_cap[REGCMD] + \h4800])
tanh_lookup == With(Copy(\h4800, "lookup", tanh_cap[SCRATCH] + \h30000, tanh_cap[SCRATCH]),
                    [bias |-> -\h4000, next |-> tanh_cap[REGCMD] + \h4A80])
tanh_writer == Copy(\h4A80, "writer", tanh_cap[SCRATCH], tanh_cap[OUT])
g_tanh_regcmd0 == <<tanh_reader, tanh_table, tanh_lookup, tanh_writer>>
g_tanh_regcmd1 == g_tanh_regcmd0
g_tanh_regcmd2 == g_tanh_regcmd0
tanh_submits == <<[start |-> 0, count |-> 1], [start |-> 1, count |-> 2],
                  [start |-> 3, count |-> 1]>>

(***************************************************************************)
(* add: readers of both operands, the ALU, a writer.  The addresses are 0, *)
(* every other word is final.                                              *)
(***************************************************************************)
add_sz == <<4096, 8192, \h60000, ChunkBytes, ChunkBytes, ChunkBytes>>
add_reader1 == With(Copy(\hC0, "reader", 0, 0),
                    [rows |-> 64, line |-> \h600, notch |-> -\h17A00, next |-> 0])
add_reader2 == [add_reader1 EXCEPT !.at = \h340]
add_alu == With(Copy(\h5C0, "alu", 0, 0), [src2 |-> 0, alu |-> "add", next |-> 0])
add_writer == Copy(\h840, "writer", 0, 0)
g_regcmd_tmpl == <<add_reader1, add_reader2, add_alu, add_writer>>
g_task_tmpl == [t \in 1 .. 12 |-> <<\hC0, \h340, \h5C0, \h840>>[1 + ((t - 1) % 4)]]

Program(sz, cap, submits, tasks, regcmds) ==
    [sz |-> sz, cap |-> cap, submits |-> submits, task |-> tasks, regcmd |-> regcmds]
Activations ==
    [relu |-> Program(relu_sz, relu_cap, relu_submits, <<g_relu_task>>, <<g_relu_regcmd>>),
     tanh |-> Program(tanh_sz, tanh_cap, tanh_submits,
                      <<g_tanh_task0, g_tanh_task1, g_tanh_task2>>,
                      <<g_tanh_regcmd0, g_tanh_regcmd1, g_tanh_regcmd2>>)]
==============================================================================
