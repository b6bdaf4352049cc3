--------------------------- MODULE MatmulTemplates ---------------------------
(***************************************************************************)
(* The five captured matmul programs of matmul_tmpl.h.  A program is a     *)
(* task table (one 40-byte entry per block: its regcmd_addr is what the    *)
(* loader touches) and an array of register commands: 8-byte words, a      *)
(* register, a value and a core id each, in blocks that end with a chain   *)
(* word (register 0x0010) holding the address of the next block.           *)
(*                                                                         *)
(* A block is given by its offset in the array, by what it does (`kind',   *)
(* which stands for the registers that select the units) and by the words  *)
(* that locate its data.  The register behind each name:                   *)
(*   src 0x5018, dst 0x4020, feature 0x1070, weight 0x1110, notch 0x504c,  *)
(*   next 0x0010, rows 0x5010, cols 0x5014 (of a tile 0x1084), width       *)
(*   0x4038, line 0x5048, step 0x4024 (of the writer 0x40c0), k 0x1084 and *)
(*   0x1088.                                                               *)
(* The NPU has two register groups and alternates between them, so that a  *)
(* later block of a kind writes only what differs from the last but one.   *)
(***************************************************************************)
EXTENDS RegcmdPatch, TLC

Block(at, kind, words) == [at |-> at, kind |-> kind, words |-> words]
None == [r \in {} |-> 0]

\* A reader: a strided copy from a BO into scratch; Geometry is its full form.
Reader(cap, at, src, dst, next, more) ==
    Block(at, "reader", [src |-> src, dst |-> cap[SCRATCH] + dst,
                         next |-> cap[REGCMD] + next] @@ more)

Geometry(rows, cols, width, line, notch) ==
    [rows |-> rows, cols |-> cols, width |-> width, line |-> line, notch |-> -notch]

\* Eight transposers: each turns eight of the 64 rows of X.
TransposerAt(first) == [i \in 1 .. 9 |->
    first + <<0, \h380, \h700, \h7C0, \h840, \h8C0, \h940, \h9C0, \hA40>>[i]]
Transposers(cap, first, k, from) == [i \in 1 .. 8 |->
    Block(TransposerAt(first)[i], "transposer",
          [feature |-> cap[SCRATCH] + from + (i - 1) * k * 16,
           weight |-> cap[REGCMD] + \hC0, dst |-> cap[SCRATCH] + (i - 1) * \h80,
           k |-> k, next |-> cap[REGCMD] + TransposerAt(first)[i + 1]])]

\* The two passes over the turned X, at scratch + 0: to a and from there to b.
Repackers(cap, first, k, a, b) ==
    <<Block(first, "repacker",
            [src |-> cap[SCRATCH], dst |-> cap[SCRATCH] + a, pass |-> 1, k |-> k,
             rows |-> k \div 8, line |-> \h400, notch |-> -\h400 * (k \div 8 - 1),
             next |-> cap[REGCMD] + first + \h280]),
      Block(first + \h280, "repacker",
            [src |-> cap[SCRATCH] + a, dst |-> cap[SCRATCH] + b, pass |-> 2, k |-> k,
             rows |-> 64, line |-> 2 * k, notch |-> -126 * k,
             next |-> cap[REGCMD] + first + \h500])>>

\* n tiles of cols columns, the last of `last'; W lies at w, b is the repacked
\* X, the product goes to z, all with groups of eight rows of `width' columns.
TileAt(first, j) == IF j <= 2 THEN first + (j - 1) * \h280
                              ELSE first + \h500 + (j - 3) * \h80
Tiles(cap, first, n, cols, last, k, width, w, b, z) == [j \in 1 .. n |->
    Block(TileAt(first, j), "tile",
          [feature |-> cap[SCRATCH] + w + (j - 1) * cols * 16,
           weight |-> cap[SCRATCH] + b,
           dst |-> cap[SCRATCH] + z + (j - 1) * cols * 16,
           cols |-> IF j = n THEN last ELSE cols, k |-> k,
           next |-> cap[REGCMD] + (CASE j < n -> TileAt(first, j + 1)
                                     [] j = n /\ n = 1 -> first + \h280
                                     [] OTHER -> TileAt(first, n) + \hC0)]
          @@ IF j <= 2 THEN [step |-> width * 16] ELSE None)]

\* The last block copies the product to the output BO and chains to nothing.
Writer(cap, at, width, z) ==
    Block(at, "writer", [src |-> cap[SCRATCH] + z, dst |-> cap[OUTPUT],
                         step |-> width * 16])

\* The regcmd_addr of three copies of the chain.
Thrice(cap, ats) ==
    [t \in 1 .. 3 * Len(ats) |-> cap[REGCMD] + ats[1 + ((t - 1) % Len(ats))]]
Run(first, step, n) == [i \in 1 .. n |-> first + (i - 1) * step]

\* The weights of the transposers, at 0xc0 of every array: the halfwords that are 1.0.
Ones == {4096 * copy + 1024 * g + 128 * p + 8 * (p + 8 * c) + 2 * g + c :
            copy \in 0 .. 1, g \in 0 .. 3, p \in 0 .. 7, c \in 0 .. 1}

(***************************************************************************)
(* up: X[64,768] @ W[768,3072].  W is read in five bands of 168 rows (the  *)
(* last of 96), each in two halves of 2048 and 1024 columns.               *)
(***************************************************************************)
up_sz == <<8192, 40960, 14254080, 98304, 4718592, 393216>>
up_cap == <<-\h2000, -\hC000, -\hDA4000, -\hDBC000, -\h123C000, -\h129C000>>
up_ones == Ones
up_task_tmpl == Thrice(up_cap,
    <<\h40C0, \h4340, \h45C0, \h4640, \h46C0, \h4740, \h47C0, \h4840, \h48C0, \h4980,
      \h4A40, \h4CC0, \h5040, \h53C0>> \o Run(\h5480, \h80, 5)
    \o <<\h5700, \h5980, \h5C00, \h5E80>> \o Run(\h6100, \h80, 35) \o <<\h72C0>>)
up_w_readers == [i \in 1 .. 10 |->
    LET at == <<\h40C0, \h4340, \h45C0, \h4640, \h46C0, \h4740, \h47C0, \h4840,
                \h48C0, \h4980, \h4A40>>
        band == (i - 1) \div 2  half == (i - 1) % 2
    IN  Reader(up_cap, at[i], up_cap[WEIGHTS] + band * \hFC000 + half * \h1000,
               \h918000 + band * \hFC000 + half * \h8000, at[i + 1],
               CASE i <= 2 -> Geometry(168, <<2048, 1024>>[i], 3072, \h1800, \hFA800)
                 [] i >= 9 -> [rows |-> 96, notch |-> -\h8E800]
                 [] OTHER -> None)]
up_x_reader == Reader(up_cap, \h4A40, up_cap[INPUT], \h30000, \h4CC0,
                      Geometry(64, 768, 768, \h600, \h17A00))
up_transposers == Transposers(up_cap, \h4CC0, 768, \h30000)
up_repackers == Repackers(up_cap, \h5700, 768, \h18080, \h30080)
up_tiles == Tiles(up_cap, \h5C00, 37, 84, 48, 768, 3072, \h918000, \h30080, \hA8080)
up_writer == Writer(up_cap, \h72C0, 3072, \hA8080)
up_regcmd_tmpl == up_w_readers \o <<up_x_reader>> \o up_transposers
                  \o up_repackers \o up_tiles \o <<up_writer>>

(***************************************************************************)
(* qkv: X[64,768] @ W[768,768].  Bands of 680 and 88 rows.                 *)
(***************************************************************************)
qkv_sz == <<4096, 28672, 3637248, 98304, 1179648, 98304>>
qkv_cap == <<-\h1000, -\h8000, -\h380000, -\h398000, -\h4B8000, -\h4D0000>>
qkv_ones == Ones
qkv_task_tmpl == Thrice(qkv_cap,
    <<\h40C0, \h4340, \h45C0, \h4840, \h4BC0, \h4F40>> \o Run(\h5000, \h80, 5)
    \o <<\h5280, \h5500, \h5780, \h5A00>> \o Run(\h5C80, \h80, 8) \o <<\h60C0>>)
qkv_w_readers ==
    <<Reader(qkv_cap, \h40C0, qkv_cap[WEIGHTS], \h258000, \h4340,
             Geometry(680, 768, 768, \h600, \hFEA00)),
      Reader(qkv_cap, \h4340, qkv_cap[WEIGHTS] + \hFF000, \h357000, \h45C0,
             Geometry(88, 768, 768, \h600, \h20A00))>>
qkv_x_reader == Reader(qkv_cap, \h45C0, qkv_cap[INPUT], \h30000, \h4840,
                       Geometry(64, 768, 768, \h600, \h17A00))
qkv_transposers == Transposers(qkv_cap, \h4840, 768, \h30000)
qkv_repackers == Repackers(qkv_cap, \h5280, 768, \h18080, \h30080)
qkv_tiles == Tiles(qkv_cap, \h5780, 10, 84, 12, 768, 768, \h258000, \h30080, \h48080)
qkv_writer == Writer(qkv_cap, \h60C0, 768, \h48080)
qkv_regcmd_tmpl == qkv_w_readers \o <<qkv_x_reader>> \o qkv_transposers
                   \o qkv_repackers \o qkv_tiles \o <<qkv_writer>>

(***************************************************************************)
(* down: X[64,3072] @ W[3072,768].  Four bands of 680 rows and one of 352; *)
(* X in two halves of 2048 and 1024 columns.                               *)
(***************************************************************************)
down_sz == <<8192, 40960, 14548992, 393216, 4718592, 98304>>
down_cap == <<-\h2000, -\hC000, -\hDEC000, -\hE4C000, -\h12CC000, -\h12E4000>>
down_ones == Ones
down_task_tmpl == Thrice(down_cap,
    <<\h40C0, \h4340, \h45C0, \h4640, \h46C0, \h4780, \h4A00, \h4C80, \h5000, \h5380>>
    \o Run(\h5440, \h80, 5) \o <<\h56C0, \h5940, \h5BC0, \h5E40>>
    \o Run(\h60C0, \h80, 37) \o <<\h7380>>)
down_w_readers == [i \in 1 .. 5 |->
    LET at == <<\h40C0, \h4340, \h45C0, \h4640, \h46C0, \h4780>>
    IN  Reader(down_cap, at[i], down_cap[WEIGHTS] + (i - 1) * \hFF000,
               \h960000 + (i - 1) * \hFF000, at[i + 1],
               CASE i <= 2 -> Geometry(680, 768, 768, \h600, \hFEA00)
                 [] i = 5 -> [rows |-> 352, notch |-> -\h83A00]
                 [] OTHER -> None)]
down_x_readers ==
    <<Reader(down_cap, \h4780, down_cap[INPUT], \hC0000, \h4A00,
             Geometry(64, 2048, 3072, \h1800, \h5E800)),
      Reader(down_cap, \h4A00, down_cap[INPUT] + \h1000, \hC8000, \h4C80,
             Geometry(64, 1024, 3072, \h1800, \h5E800))>>
down_transposers == Transposers(down_cap, \h4C80, 3072, \hC0000)
down_repackers == Repackers(down_cap, \h56C0, 3072, \h60080, \hC0080)
down_tiles == Tiles(down_cap, \h5BC0, 39, 20, 8, 3072, 768, \h960000, \hC0080, \h120080)
down_writer == Writer(down_cap, \h7380, 768, \h120080)
down_regcmd_tmpl == down_w_readers \o down_x_readers \o down_transposers
                    \o down_repackers \o down_tiles \o <<down_writer>>

(***************************************************************************)
(* qkt: X[64,768] @ W[768,64], a single tile.                              *)
(***************************************************************************)
qkt_sz == <<4096, 28672, 593920, 98304, 98304, 8192>>
qkt_cap == <<-\h1000, -\h8000, -\h99000, -\hB1000, -\hC9000, -\hCB000>>
qkt_ones == Ones
qkt_task_tmpl == Thrice(qkt_cap,
    <<\h40C0, \h4340, \h45C0, \h4940, \h4CC0>> \o Run(\h4D80, \h80, 5)
    \o <<\h5000, \h5280, \h5500, \h5780>>)
qkt_w_reader == Reader(qkt_cap, \h40C0, qkt_cap[WEIGHTS], \h48000, \h4340,
                       Geometry(768, 64, 64, \h80, \h17F80))
qkt_x_reader == Reader(qkt_cap, \h4340, qkt_cap[INPUT], \h30000, \h45C0,
                       Geometry(64, 768, 768, \h600, \h17A00))
qkt_transposers == Transposers(qkt_cap, \h45C0, 768, \h30000)
qkt_repackers == Repackers(qkt_cap, \h5000, 768, \h60080, \h78080)
qkt_tile == Tiles(qkt_cap, \h5500, 1, 64, 64, 768, 64, \h48000, \h78080, \h18000)
qkt_writer == Writer(qkt_cap, \h5780, 64, \h18000)
qkt_regcmd_tmpl == <<qkt_w_reader, qkt_x_reader>> \o qkt_transposers
                   \o qkt_repackers \o qkt_tile \o <<qkt_writer>>

(***************************************************************************)
(* atv: X[64,64] @ W[64,768], a single tile.                               *)
(***************************************************************************)
atv_sz == <<4096, 28672, 401408, 8192, 98304, 98304>>
atv_cap == <<-\h1000, -\h8000, -\h6A000, -\h6C000, -\h84000, -\h9C000>>
atv_ones == Ones
atv_task_tmpl == Thrice(atv_cap,
    <<\h40C0, \h4340, \h45C0, \h4940, \h4CC0>> \o Run(\h4D80, \h80, 5)
    \o <<\h5000, \h5280, \h5500, \h5780>>)
atv_w_reader == Reader(atv_cap, \h40C0, atv_cap[WEIGHTS], \h32000, \h4340,
                       Geometry(64, 768, 768, \h600, \h17A00))
atv_x_reader == Reader(atv_cap, \h4340, atv_cap[INPUT], \h4000, \h45C0,
                       Geometry(64, 64, 64, \h80, \h1F80))
atv_transposers == Transposers(atv_cap, \h45C0, 64, \h4000)
atv_repackers == Repackers(atv_cap, \h5000, 64, \h2080, \h4080)
atv_tile == Tiles(atv_cap, \h5500, 1, 768, 768, 64, 768, \h32000, \h4080, \h4A000)
atv_writer == Writer(atv_cap, \h5780, 768, \h4A000)
atv_regcmd_tmpl == <<atv_w_reader, atv_x_reader>> \o atv_transposers
                   \o atv_repackers \o atv_tile \o <<atv_writer>>

\* The rows of mm_templates that the loader uses: where the chain starts in the
\* task table and how many of its entries one core runs (subcore {0, n}).
mm_templates ==
    LET Row(m, k, n, sz, cap, tasks, blocks, ones) ==
            [shape |-> <<m, k, n>>, sz |-> sz, cap |-> cap, n_tasks |-> Len(tasks),
             start |-> 0, count |-> Len(tasks) \div 3,
             task_tmpl |-> tasks, regcmd_tmpl |-> blocks, ones |-> ones]
    IN  [up |-> Row(64, 768, 3072, up_sz, up_cap, up_task_tmpl, up_regcmd_tmpl, up_ones),
         qkv |-> Row(64, 768, 768, qkv_sz, qkv_cap, qkv_task_tmpl, qkv_regcmd_tmpl, qkv_ones),
         down |-> Row(64, 3072, 768, down_sz, down_cap, down_task_tmpl, down_regcmd_tmpl,
                      down_ones),
         qkt |-> Row(64, 768, 64, qkt_sz, qkt_cap, qkt_task_tmpl, qkt_regcmd_tmpl, qkt_ones),
         atv |-> Row(64, 64, 768, atv_sz, atv_cap, atv_task_tmpl, atv_regcmd_tmpl, atv_ones)]
==============================================================================
