------------------------------ MODULE NpuChain ------------------------------
(***************************************************************************)
(* What the NPU does with one block of a captured matmul program.  The     *)
(* device is external; this module says what the register words of the     *)
(* templates mean to it, at the grain the templates can go wrong at: where *)
(* a block reads, where it writes, and which matrix lies there.            *)
(*                                                                         *)
(* The scratch BO is a set of pieces: n runs of len bytes, step apart.  A  *)
(* matrix in scratch is kept in groups of eight rows: group g of a matrix  *)
(* at `at' starts at at + g * step, and position p of it at + p * 16.      *)
(***************************************************************************)
EXTENDS RegcmdPatch, FiniteSetsExt

Garbage == [m |-> "garbage", of |-> <<>>, at |-> 0]

Piece(lo, n, step, len, tag) == [lo |-> lo, n |-> n, step |-> step, len |-> len, tag |-> tag]
End(p) == p.lo + (p.n - 1) * p.step + p.len

Lower(a, b) == IF a <= b THEN a ELSE b
Upper(a, b) == IF a >= b THEN a ELSE b

\* Two pieces share a byte, unless their hulls are apart or they are different
\* lanes of the same stride.
Clash(p, q) ==
    /\ p.lo < End(q) /\ q.lo < End(p)
    /\ \/ p.step # q.step
       \/ (p.lo - q.lo) % p.step < q.len
       \/ (q.lo - p.lo) % p.step < p.len

Put(mem, p) == {q \in mem : ~Clash(p, q)} \cup {p}

\* The bytes of r that the piece p of the matrix at `at' holds.
Common(p, r, at) ==
    LET Row(q) == (q.lo - at) \div q.step
        Col(q) == (q.lo - at) % q.step
        rows == Lower(Row(p) + p.n, Row(r) + r.n) - Upper(Row(p), Row(r))
        cols == Lower(Col(p) + p.len, Col(r) + r.len) - Upper(Col(p), Col(r))
    IN  Upper(rows, 0) * Upper(cols, 0)

Covered(pieces, r, at) == MapThenSumSet(LAMBDA p : Common(p, r, at), pieces)

\* The matrices of kind m that fill the whole of r, and the one a block takes it
\* for: Garbage if there is none.
Holders(mem, r, m) ==
    {t \in {p.tag : p \in mem} :
        /\ t.m = m
        /\ Covered({p \in mem : p.tag = t /\ p.step = r.step}, r, t.at) = r.n * r.len}
Held(mem, r, m) ==
    IF Holders(mem, r, m) = {} THEN Garbage ELSE CHOOSE t \in Holders(mem, r, m) : TRUE

(***************************************************************************)
(* The weights of the transposers: 64 kernels of 8 positions by 8          *)
(* channels, kept by the NPU in groups of 16 as [position][kernel][channel]*)
(* halfwords.  Kernel 8 m + k must pick position k of channel m: that is   *)
(* what turns groups of eight rows into groups of eight columns.           *)
(***************************************************************************)
KernelTaps(ones, o) ==
    {t \in (0 .. 7) \X (0 .. 7) :
        1024 * (o \div 16) + 128 * t[1] + 8 * (o % 16) + t[2] \in ones}
Transposes(ones) == \A m, k \in 0 .. 7 : KernelTaps(ones, 8 * m + k) = {<<k, m>>}

(***************************************************************************)
(* The strided source of a reader: `rows' lines, `line' bytes apart, once  *)
(* for every eight columns; after the last line the notch is added to come *)
(* back to the first one.  A notch that is off by a drift takes the reader *)
(* that far away at every one of its surfaces.                             *)
(***************************************************************************)
Drift(f) == f.notch + (f.rows - 1) * f.line

\* How far the last surface is off.  A drift above MaxDrift has left every BO by
\* then, so that it need not be told from MaxDrift.
MaxDrift == 2^22
Astray(f) == (f.cols \div 8 - 1) * Lower(MaxDrift, Upper(-MaxDrift, Drift(f)))
SourceLow(f) == f.src + Lower(0, Astray(f))
SourceEnd(f) == f.src + (f.rows - 1) * f.line + f.cols * 2 + Upper(0, Astray(f))

\* A copy of rows x cols of the matrix `what' (its BO begins at base) into scratch.
ReadPiece(f, what, base) ==
    LET row == (f.src - base) \div f.line
        col == ((f.src - base) % f.line) \div 2
        step == f.width * 16
    IN  Piece(f.dst, f.rows \div 8, step, f.cols * 16,
              IF Drift(f) # 0 \/ row % 8 # 0 THEN Garbage
              ELSE [m |-> what.m, of |-> what.of,
                    at |-> f.dst - (row \div 8) * step - col * 16])

\* Eight rows of X, turned: k \div 8 groups of eight positions each.
TransposePiece(f, mem, ones) ==
    LET t == Held(mem, Piece(f.feature, 1, f.k * 16, f.k * 16, Garbage), "X")
        i == (f.feature - t.at) \div (f.k * 16)
    IN  Piece(f.dst, f.k \div 8, 1024, 128,
              IF t = Garbage \/ ~Transposes(ones) THEN Garbage
              ELSE [m |-> "T", of |-> t.of, at |-> f.dst - i * 128])

\* The two passes that lay the turned X out as the weights of a convolution.
RepackPiece(f, mem) ==
    LET whole(m, n, step) == Held(mem, Piece(f.src, n, step, step, Garbage), m)
        t == whole("T", f.k \div 8, 1024)
        a == whole("A", 1, f.k * 128)
        Good(s) == s # Garbage /\ s.at = f.src
    IN  Piece(f.dst, 1, f.k * 128, f.k * 128,
              CASE f.pass = 1 /\ Good(t) -> [m |-> "A", of |-> t.of, at |-> f.dst]
                [] f.pass = 2 /\ Good(a) -> [m |-> "B", of |-> a.of, at |-> f.dst]
                [] OTHER -> Garbage)

\* `cols' columns of the product: all k rows of W there, times the repacked X.
TilePiece(f, mem) ==
    LET w == Held(mem, Piece(f.feature, f.k \div 8, f.step, f.cols * 16, Garbage), "W")
        b == Held(mem, Piece(f.weight, 1, f.k * 128, f.k * 128, Garbage), "B")
    IN  Piece(f.dst, 8, f.step, f.cols * 16,
              IF w = Garbage \/ b = Garbage \/ b.at # f.weight THEN Garbage
              ELSE [m |-> "Z", of |-> b.of \o w.of, at |-> f.dst - (f.feature - w.at)])

\* What a block of one of these kinds writes, with the registers f: `what' is the
\* matrix a reader finds in the BO that begins at base, `ones' the transposers' weights.
Produced(kind, f, mem, what, base, ones) ==
    CASE kind = "reader" -> ReadPiece(f, what, base)
      [] kind = "transposer" -> TransposePiece(f, mem, ones)
      [] kind = "repacker" -> IF Drift(f) # 0 THEN [RepackPiece(f, mem) EXCEPT !.tag = Garbage]
                                              ELSE RepackPiece(f, mem)
      [] kind = "tile" -> TilePiece(f, mem)

\* What the writer copies to the output BO: the product, when all of it is there.
Written(f, mem) ==
    LET z == Held(mem, Piece(f.src, 8, f.step, f.step, Garbage), "Z")
    IN  IF z = Garbage \/ z.at # f.src THEN <<>> ELSE z.of
==============================================================================
