--------------------------- MODULE MCNativeLayer ---------------------------
(* Instantiates NativeLayer for TLC: the members _input and _output of one *)
(* layer and no array of the caller, one buffer and shapeInfo of the       *)
(* caller, two of each for the library, one rng.                           *)
EXTENDS NativeLayer, TLC

CONSTANTS mIn, mOut, b1, b2, s1, s2, cb, cs, r1

MCArrays == {mIn, mOut}
MCMember == [m \in {"input", "output"} |-> IF m = "input" THEN mIn ELSE mOut]
MCBufBlocks == {cb, b1, b2}
MCCallerBufs == {cb}
MCShpBlocks == {cs, s1, s2}
MCCallerShps == {cs}
MCExtents == {1, 2}
MCRngs == {r1}
MCPInputs == {-1, 1}

(* A 2x2 matrix and a 1x2 row.                                             *)
MCShapes == {[rows |-> 2, cols |-> 2, ord |-> "c"],
             [rows |-> 1, cols |-> 2, ord |-> "c"]}

(* The library's blocks are only compared for equality.                    *)
MCSymmetry == Permutations({b1, b2}) \cup Permutations({s1, s2})
=============================================================================
