----------------------------- MODULE CapturedRun -----------------------------
(***************************************************************************)
(* The captured matmul programs as the capture ran them: the BOs where     *)
(* they were, scratch empty, the register groups unwritten.  What TLC      *)
(* finds here of each program, block by block, is what TemplateRunProofs   *)
(* starts from: that every context, slot and leftover of an earlier call   *)
(* gives what the capture gave.                                            *)
(*                                                                         *)
(* The operands are the tokens "x" and "w".                                *)
(***************************************************************************)
EXTENDS TemplateRun

Matrices == {"X", "T", "A", "B", "W", "Z"}

\* What a matrix of kind m is made from, when a call has the operands x and w.
Operands(m, x, w) == CASE m = "W" -> <<w>> [] m = "Z" -> <<x, w>> [] OTHER -> <<x>>

(***************************************************************************)
(* One block after the other.                                              *)
(***************************************************************************)
CapturedBlock(t, i) ==
    CHOOSE b \in DOMAIN Blocks(t) : T(t).cap[REGCMD] + T(t).regcmd_tmpl[b].at = T(t).task_tmpl[i]
CapturedKind(t, i) == T(t).regcmd_tmpl[CapturedBlock(t, i)].kind

\* The state between two blocks: the register groups, scratch, and every piece
\* that was ever in it.
Fresh == [group |-> 1, regs |-> <<Unwritten, Unwritten>>, mem |-> {}, made |-> {}]

\* The block of task i after the state d: its registers, the BO a reader reads,
\* and the piece it writes.
CapturedRegisters(t, i, d) == Over(Blocks(t)[CapturedBlock(t, i)], d.regs[d.group])
SourceRole(t, f) == IF Within(f.src, T(t).cap[INPUT], T(t).sz[INPUT]) THEN INPUT ELSE WEIGHTS
CapturedPiece(t, i, d) ==
    LET f == CapturedRegisters(t, i, d)
        what == IF SourceRole(t, f) = INPUT THEN [m |-> "X", of |-> <<"x">>]
                                            ELSE [m |-> "W", of |-> <<"w">>]
    IN  Produced(CapturedKind(t, i), f, d.mem, what, T(t).cap[SourceRole(t, f)],
                 IF f.weight = T(t).cap[REGCMD] + \hC0 THEN T(t).ones ELSE {})

CapturedStep(t, i, d) ==
    LET piece == CapturedPiece(t, i, d)
        writes == CapturedKind(t, i) # "writer"
    IN  [group |-> 3 - d.group,
         regs |-> [d.regs EXCEPT ![d.group] = CapturedRegisters(t, i, d)],
         mem |-> IF writes THEN Put(d.mem, piece) ELSE d.mem,
         made |-> IF writes THEN d.made \cup {piece} ELSE d.made]

\* The copies of the chain that a submit starts from, and the states of one.
Starts(t) == {T(t).start, 2 * T(t).count}
Captured(t, s) ==
    LET state[k \in 0 .. T(t).count] ==
            IF k = 0 THEN Fresh ELSE CapturedStep(t, s + k, state[k - 1])
    IN  state

\* Every piece that a call of t may leave in scratch.
Pieces(t) == UNION {Captured(t, s)[k].made : s \in Starts(t), k \in 0 .. T(t).count}

(***************************************************************************)
(* What holds of the captured programs.                                    *)
(***************************************************************************)

\* The registers that say what a block of each kind does.
Uses(kind) ==
    CASE kind = "reader" -> {"src", "dst", "rows", "cols", "width", "line", "notch"}
      [] kind = "transposer" -> {"feature", "weight", "dst", "k"}
      [] kind = "repacker" -> {"src", "dst", "pass", "k", "rows", "line", "notch"}
      [] kind = "tile" -> {"feature", "weight", "dst", "cols", "k", "step"}
      [] kind = "writer" -> {"src", "dst", "step"}

\* The word a means the same in every context whose program lies in place: as an
\* address it lies in no BO, in the commands or in scratch.
Stays(t, a) == Windows(a, T(t).cap, T(t).sz) \subseteq {REGCMD, SCRATCH}

\* The regions of scratch a block reads, and the kind of the matrix it expects.
Reads(kind, f) ==
    LET Region(at, n, step, len, m) == [piece |-> Piece(at, n, step, len, Garbage), m |-> m]
    IN  CASE kind = "transposer" -> {Region(f.feature, 1, f.k * 16, f.k * 16, "X")}
          [] kind = "repacker" -> IF f.pass = 1 THEN {Region(f.src, f.k \div 8, 1024, 1024, "T")}
                                  ELSE {Region(f.src, 1, f.k * 128, f.k * 128, "A")}
          [] kind = "tile" -> {Region(f.feature, f.k \div 8, f.step, f.cols * 16, "W"),
                               Region(f.weight, 1, f.k * 128, f.k * 128, "B")}
          [] kind = "writer" -> {Region(f.src, 8, f.step, f.step, "Z")}
          [] OTHER -> {}

\* One matrix fills the region r, and none of the pieces that an earlier call may
\* have left shows in it: each was overwritten before, or shares no byte with r.
Filled(d, r, pieces) ==
    /\ r.piece.step > 0 /\ r.piece.n * r.piece.len > 0
    /\ \E tag \in {p.tag : p \in d.mem} : Holders(d.mem, r.piece, r.m) = {tag}
    /\ \A q \in pieces : q.tag.m = r.m /\ q.step = r.piece.step =>
           (\E p \in d.made : Clash(q, p)) \/ Common(q, r.piece, q.tag.at) = 0

InWindow(t, r, low, end) == T(t).cap[r] <= low /\ end <= T(t).cap[r] + T(t).sz[r]

\* The block of task i, after the state d, is a block of the capture that went
\* right: it stays inside its BOs, and what it reads is there.
BlockRight(t, i, d, pieces) ==
    LET f == CapturedRegisters(t, i, d)
        kind == CapturedKind(t, i)
        role == SourceRole(t, f)
        p == CapturedPiece(t, i, d)
    IN  /\ Uses(kind) \subseteq DOMAIN f
        /\ \A r \in Uses(kind) : f[r] \in Int
        /\ \A r \in Uses(kind) :
               \/ kind = "reader" /\ r = "src"
               \/ kind = "writer" /\ r = "dst"
               \/ Stays(t, f[r])
        /\ \A r \in Reads(kind, f) : Filled(d, r, pieces)
        /\ kind = "reader" => /\ Within(f.src, T(t).cap[role], T(t).sz[role])
                              /\ InWindow(t, role, SourceLow(f), SourceEnd(f))
        /\ kind = "repacker" => Drift(f) = 0
        /\ kind = "writer" => /\ InWindow(t, SCRATCH, f.src, End(Piece(f.src, 8, f.step, f.step, Garbage)))
                              /\ f.dst = T(t).cap[OUTPUT] /\ f.step * 8 = T(t).sz[OUTPUT]
                              /\ T(t).sz[OUTPUT] > 0
                              /\ Written(f, d.mem) = <<"x", "w">>
        /\ kind # "writer" => InWindow(t, SCRATCH, p.lo, End(p))

\* A piece of a matrix, whole.
PieceRight(p) ==
    /\ {p.lo, p.n, p.step, p.len, p.tag.at} \subseteq Int /\ p.step > 0
    /\ p = Piece(p.lo, p.n, p.step, p.len, p.tag)
    /\ p.tag = [m |-> p.tag.m, of |-> Operands(p.tag.m, "x", "w"), at |-> p.tag.at]
    /\ p.tag.m \in Matrices

ASSUME CapturedAssumption ==
    \A t \in DOMAIN Templates :
        /\ \A b \in DOMAIN Blocks(t) : \A r \in DOMAIN Blocks(t)[b] :
               /\ Blocks(t)[b][r] \in Int
               /\ r \notin Words \cup {"next"} => Windows(Blocks(t)[b][r], T(t).cap, T(t).sz) = {}
        /\ \A pieces \in {Pieces(t)} :
               /\ IsFiniteSet(pieces) /\ \A p \in pieces : PieceRight(p)
               /\ \A s \in Starts(t), k \in 1 .. T(t).count : \A d \in {Captured(t, s)[k - 1]} :
                      /\ BlockRight(t, s + k, d, pieces)
                      /\ CapturedKind(t, s + k) = "writer" <=> k = T(t).count
==============================================================================
