---------------------------- MODULE GemmHelper -----------------------------
(***************************************************************************)
(* INativeLayer<T>::gemmHelper (src/include/layers/layers.h): C = alpha*A*B *)
(* + beta*C on rank-2 arrays of either memory order.  It wraps the three  *)
(* buffers in borrowed NDArrays, dup('f')s the operands it needs in       *)
(* column-major order, picks the order it hands to GEMM, calls GEMM and   *)
(* copies the result back into C when C is not 'f'.                       *)
(*                                                                         *)
(* Arrays are records [rows, cols, ord, sr, sc, m]: extents, order, the    *)
(* strides of the shapeInfo and m mapping buffer cells to values.  A      *)
(* caller may pass a view of a larger matrix, whose leading stride is     *)
(* padded.  A call is one step from the inputs to the outputs.             *)
(***************************************************************************)
EXTENDS Integers, Functions

CONSTANTS
  Extents,   \* the values M, N and K may take
  Vals,      \* element values of the inputs
  Orders,    \* the triples <<aOrder, bOrder, cOrder>> callers pass
  Alphas,    \* the values of alpha
  Betas,     \* the values of beta
  Pads(_)    \* the paddings of the leading stride of a caller's array
             \* of the given order

VARIABLES
  A, B, C,   \* the operands and the result array
  alpha, beta,
  C0,        \* history: C's matrix before the call
  done,      \* the call has returned
  oob        \* history: GEMM read or wrote outside a buffer

vars == <<A, B, C, alpha, beta, C0, done, oob>>

Len(x) == x.rows * x.cols

(* shape::getOffset: cell of element (i, j).                               *)
Off(x, i, j) == i * x.sr + j * x.sc

At(x, i, j) == x.m[Off(x, i, j)]

Matrix(x) == [e \in (0 .. x.rows - 1) \X (0 .. x.cols - 1) |-> At(x, e[1], e[2])]

(* The n-th element of x in the order o.                                   *)
InOrder(x, o, n) ==
  IF o = "c" THEN <<n \div x.cols, n % x.cols>> ELSE <<n % x.rows, n \div x.rows>>

(* NDArray::dup('f'): a column-major buffer with the standard strides    *)
(* holding the same matrix (the pairwise branch of assign: gemmHelper      *)
(* dup's only 'c' arrays).                                                 *)
DupF(x) ==
  [x EXCEPT !.ord = "f", !.sr = 1, !.sc = x.rows,
            !.m = [n \in 0 .. Len(x) - 1 |->
                     LET e == InOrder(x, "f", n) IN At(x, e[1], e[2])]]

(* nd4j::blas::GEMM<T>::op(rOrder, 'N', 'N', M, N, K, alpha, a, lda, b,   *)
(* ldb, beta, c, ldc), the BLAS contract: element (i, j) of a matrix with  *)
(* leading dimension ld is cell i + j*ld column-major ('f') and i*ld + j   *)
(* row-major ('c').                                                        *)
Cell(o, i, j, ld) == IF o = "f" THEN i + j * ld ELSE i * ld + j

Rd(buf, n) == IF n \in DOMAIN buf THEN buf[n] ELSE 0

GEMM(o, M, N, K, al, a, lda, b, ldb, be, c, ldc) ==
  LET val(i, j) ==
        al * SumFunctionOnSet([k \in 0 .. K - 1 |->
                                 Rd(a, Cell(o, i, k, lda)) * Rd(b, Cell(o, k, j, ldb))],
                              0 .. K - 1)
        + be * Rd(c, Cell(o, i, j, ldc))
      written(n) == {e \in (0 .. M - 1) \X (0 .. N - 1) : Cell(o, e[1], e[2], ldc) = n}
  IN [n \in DOMAIN c |->
        IF written(n) = {} THEN c[n]
        ELSE LET e == CHOOSE e \in written(n) : TRUE IN val(e[1], e[2])]

GemmOOB(o, M, N, K, a, lda, b, ldb, c, ldc) ==
  \E i \in 0 .. M - 1, j \in 0 .. N - 1, k \in 0 .. K - 1 :
    \/ Cell(o, i, k, lda) \notin DOMAIN a
    \/ Cell(o, k, j, ldb) \notin DOMAIN b
    \/ Cell(o, i, j, ldc) \notin DOMAIN c

(* Variant duplicating only A when both operands are 'c'.                 *)
OperandsWithoutDupB(a, b) ==
  IF a.ord = b.ord
    THEN IF a.ord = "c" THEN <<DupF(a), b, "f">> ELSE <<a, b, "f">>
    ELSE IF a.ord = "c" THEN <<DupF(a), b, a.ord>> ELSE <<a, DupF(b), a.ord>>

(* The operands handed to GEMM and the order it is told, <<_A, _B, rOrder>>. *)
Operands(a, b) ==
  IF a.ord = b.ord
    THEN IF a.ord = "c" THEN <<DupF(a), DupF(b), "f">> ELSE <<a, b, "f">>
    ELSE IF a.ord = "c" THEN <<DupF(a), b, a.ord>> ELSE <<a, DupF(b), a.ord>>

(* Variant taking the leading dimensions from the column counts.          *)
LeadingDimsFromColumns(a, b, c) == <<a.cols, b.cols, c.cols>>

(* lda = aShape[0], ldb = bShape[0], ldc = cShape[0].                      *)
LeadingDims(a, b, c) == <<a.rows, b.rows, c.rows>>

(* tC->assign(_C) with C not 'f': the pairwise transform writes element  *)
(* (i, j) of the result to C's cell of (i, j).                            *)
AssignBack(x, r) ==
  [x EXCEPT !.m = [n \in DOMAIN x.m |->
                     IF \E i \in 0 .. x.rows - 1, j \in 0 .. x.cols - 1 : Off(x, i, j) = n
                       THEN LET e == CHOOSE e \in (0 .. x.rows - 1) \X (0 .. x.cols - 1) :
                                       Off(x, e[1], e[2]) = n
                            IN At(r, e[1], e[2])
                       ELSE x.m[n]]]

(* gemmHelper(A, aShapeInfo, B, bShapeInfo, C, cShapeInfo, alpha, beta).  *)
gemmHelper ==
  /\ ~done
  /\ LET opd == Operands(A, B)
         cF == IF C.ord # "f" THEN DupF(C) ELSE C
         M == C.rows
         N == C.cols
         K == A.cols
         ld == LeadingDims(A, B, C)
         res == [cF EXCEPT !.m = GEMM(opd[3], M, N, K, alpha, opd[1].m, ld[1],
                                       opd[2].m, ld[2], beta, cF.m, ld[3])]
     IN /\ C' = IF C.ord # "f" THEN AssignBack(C, res) ELSE res
        /\ oob' = GemmOOB(opd[3], M, N, K, opd[1].m, ld[1], opd[2].m, ld[2],
                          cF.m, ld[3])
  /\ done' = TRUE
  /\ UNCHANGED <<A, B, alpha, beta, C0>>

(* The arrays a caller passes: r x c in order o, the leading stride       *)
(* padded by p, over a buffer of the cells the shapeInfo spans.          *)
Arrays(r, c, o) ==
  UNION {LET sr == IF o = "c" THEN c + p ELSE 1
             sc == IF o = "c" THEN 1 ELSE r + p
         IN {[rows |-> r, cols |-> c, ord |-> o, sr |-> sr, sc |-> sc, m |-> m] :
               m \in [0 .. (r - 1) * sr + (c - 1) * sc -> Vals]} : p \in Pads(o)}

(* A caller's well-formed call: A is M x K, B is K x N, C is M x N.        *)
Init ==
  /\ \E M, N, K \in Extents, o \in Orders :
       /\ A \in Arrays(M, K, o[1])
       /\ B \in Arrays(K, N, o[2])
       /\ C \in Arrays(M, N, o[3])
  /\ alpha \in Alphas /\ beta \in Betas
  /\ C0 = Matrix(C)
  /\ done = FALSE
  /\ oob = FALSE

Next == gemmHelper

Spec == Init /\ [][Next]_vars

-----------------------------------------------------------------------------
(* Properties.                                                             *)

(* alpha * A * B + beta * C on the matrices, whatever the memory orders.   *)
Reference ==
  [e \in DOMAIN C0 |->
     alpha * SumFunctionOnSet([k \in 0 .. A.cols - 1 |->
                                 Matrix(A)[<<e[1], k>>] * Matrix(B)[<<k, e[2]>>]],
                              0 .. A.cols - 1)
     + beta * C0[e]]

(* When gemmHelper returns, C holds alpha*A*B + beta*C as matrices, for    *)
(* every combination of the operands' orders it is called with: the order *)
(* it hands GEMM matches the layout of the dup'd operands.                 *)
GemmCorrect == done => Matrix(C) = Reference

(* GEMM never reads or writes outside the three buffers: the leading       *)
(* dimensions gemmHelper passes fit the order it passes.                   *)
GemmInBounds == ~oob

=============================================================================
