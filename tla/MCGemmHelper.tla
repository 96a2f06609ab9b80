--------------------------- MODULE MCGemmHelper ----------------------------
(* Instantiation of GemmHelper for TLC.                                    *)
EXTENDS GemmHelper

Ords == {"c", "f"}

(* Every order combination but A in 'c' with B in 'f'.                    *)
MCOrdersWithoutCF == {o \in Ords \X Ords \X Ords : ~(o[1] = "c" /\ o[2] = "f")}

MCAllOrders == Ords \X Ords \X Ords

(* Row-major arrays of the caller may be views with a leading stride one  *)
(* larger than their column count; column-major ones are not padded.     *)
MCPadRowMajor(o) == IF o = "c" THEN {0, 1} ELSE {0}

MCNoPad(o) == {0}

=============================================================================
