-------------------------- MODULE MCNDArrayMemory --------------------------
(* Instantiates NDArrayMemory for TLC: two array objects (an owner and a  *)
(* view of it, or a source and its copy), one buffer and one shapeInfo of  *)
(* the caller, two buffers and two shapeInfos for the library, and shapes  *)
(* of extents 1 and 2.                                                     *)
EXTENDS NDArrayMemory, TLC

CONSTANTS a1, a2, b1, b2, s1, s2, cb, cs

MCArrays == {a1, a2}
MCBufBlocks == {cb, b1, b2}
MCCallerBufs == {cb}
MCShpBlocks == {cs, s1, s2}
MCCallerShps == {cs}
MCExtents == {1, 2}

(* A 2x2 matrix and a 1x2 row: two lengths, so that operator= between    *)
(* arrays of different shapes happens; transpose, transposei and dup add   *)
(* the 'f' and 2x1 shapes.                                                 *)
MCShapes == {[rows |-> 2, cols |-> 2, ord |-> "c"],
             [rows |-> 1, cols |-> 2, ord |-> "c"]}

(* Arrays and the library's blocks are only compared for equality:        *)
(* permuting them is sound.                                                *)
MCSymmetry ==
  Permutations(MCArrays) \cup Permutations({b1, b2}) \cup Permutations({s1, s2})
=============================================================================
