--------------------------- MODULE MCMatmulCache ---------------------------
(* Small instances of MatmulCache. *)
EXTENDS MatmulCache, TLC

CONSTANTS b1, b2, wA, wB, wC, wD, wO, square, wide, odd, h0, hA, hB, hC, hD, hJ

\* Three weights of the decomposed shape, one of another shape and one of a
\* shape without a captured kernel.
MCShapeOf == (wA :> square) @@ (wB :> square) @@ (wC :> square)
             @@ (wD :> wide) @@ (wO :> odd)
\* Every content has its own first 16 bytes; those of wA are all zero.
MCHead == (wA :> h0) @@ (wB :> hB) @@ (wC :> hC) @@ (wD :> hD) @@ (wO :> hA)
          @@ (Junk :> hJ)

\* Two weights of the decomposed shape, with the same first 16 bytes.
MCShapeSame == (wA :> square) @@ (wB :> square)
MCHeadSame  == (wA :> hA) @@ (wB :> hA) @@ (Junk :> hJ)

BufferSymmetry == Permutations(Buffers)
=============================================================================
