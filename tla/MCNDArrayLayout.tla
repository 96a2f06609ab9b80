-------------------------- MODULE MCNDArrayLayout --------------------------
(* Instantiation of NDArrayLayout for TLC.                                 *)
EXTENDS NDArrayLayout

CONSTANTS a1, a2

MCArrays == {a1, a2}
MCExtents == {1, 2}

(* A stand-in for an elementwise op: maps 0 .. MaxVal onto itself and is  *)
(* not the identity.                                                       *)
MCOp(x) == MaxVal - x

(* Views of a larger matrix a caller might pass: a 2 x 2 block of a 2 x 3 *)
(* 'c' matrix, and every other element of a row.  Their ews is not 1.      *)
MCStridedViews == {Shape(2, 2, 3, 1, 0, "c"), Shape(1, 2, 2, 2, 0, "c")}

(* A stand-in for a backward activation: the epsilon where the input is 0 *)
(* (a derivative mask), else 0.                                           *)
MCBpOp(x, e) == IF x = 0 THEN e ELSE 0

MCNoViews == {}

=============================================================================
