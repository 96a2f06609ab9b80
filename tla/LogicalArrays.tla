--------------------------- MODULE LogicalArrays ---------------------------
(***************************************************************************)
(* What an NDArray promises its callers, with no buffer and no strides:    *)
(* every array is a rows x cols matrix of values with a memory order, and  *)
(* each public operation changes the matrices as spec.md section 4.2 says. *)
(* The variable `call' names the operation a step performs and its          *)
(* arguments, so that a step of the detailed model is matched with the      *)
(* operation it really performed and not with any other that happens to    *)
(* produce the same matrices.                                               *)
(***************************************************************************)
EXTENDS Integers

LOCAL INSTANCE Functions

CONSTANTS
  Arrays,   \* NDArray objects (model values)
  Extents,  \* the extents a dimension may have
  MaxVal,   \* element values are 0 .. MaxVal (additions are bounded by it)
  Op(_),    \* the elementwise transform applied by applyTransform
  BpOp(_, _) \* the backward activation of an input and an epsilon element

VARIABLES val, call

Vals == 0 .. MaxVal

MaxExtent == CHOOSE e \in Extents : \A x \in Extents : x <= e


Cells(m) == (0 .. m.rows - 1) \X (0 .. m.cols - 1)

Matrix(r, c, o, v) == [rows |-> r, cols |-> c, ord |-> o, v |-> v]

NoMatrix == Matrix(0, 0, "c", [x \in {} |-> 0])

Alive(a) == val[a].rows > 0

Length(m) == m.rows * m.cols

(* The n-th element in row-major (logical) order, and in the array's own  *)
(* order (the position a linear index names).                              *)
RowMajor(m, n) == <<n \div m.cols, n % m.cols>>

InOrder(m, n) ==
  IF m.ord = "c" THEN RowMajor(m, n) ELSE <<n % m.rows, n \div m.rows>>

Set(a, c, x) == val' = [val EXCEPT ![a].v[c] = x]

Flip(o) == IF o = "c" THEN "f" ELSE "c"

TransposeOf(m) ==
  Matrix(m.cols, m.rows, Flip(m.ord), [c \in (0 .. m.cols - 1) \X (0 .. m.rows - 1) |-> m.v[<<c[2], c[1]>>]])

Create(a) ==
  /\ call' = <<"create", a>>
  /\ ~Alive(a)
  /\ \E r, c \in Extents, o \in {"c", "f"} :
       val' = [val EXCEPT ![a] = Matrix(r, c, o, [x \in (0 .. r - 1) \X (0 .. c - 1) |-> 0])]

Borrow(a) ==
  /\ call' = <<"borrow", a>>
  /\ ~Alive(a)
  /\ \E r, c \in Extents, o \in {"c", "f"} :
       \E v \in [(0 .. r - 1) \X (0 .. c - 1) -> Vals] :
         val' = [val EXCEPT ![a] = Matrix(r, c, o, v)]

Copy(a, o) ==
  /\ call' = <<"copy", a, o>>
  /\ ~Alive(a) /\ Alive(o)
  /\ val' = [val EXCEPT ![a] = val[o]]

(* A linear index past the end is a silent no-op (spec.md section 5).      *)
PutLinear(a, n, x) ==
  /\ call' = <<"putLinear", a, n, x>>
  /\ Alive(a) /\ n \in Nat
  /\ IF n < Length(val[a]) THEN Set(a, InOrder(val[a], n), x)
                            ELSE UNCHANGED val

Put2D(a, c, x) ==
  /\ call' = <<"put2D", a, c, x>>
  /\ Alive(a) /\ c \in Cells(val[a])
  /\ Set(a, c, x)

(* Reads return the element a linear index or a pair of indices names and *)
(* change nothing; a linear index past the end is an error.               *)
GetLinear(a, n) ==
  /\ Alive(a) /\ n \in 0 .. Length(val[a]) - 1
  /\ call' = <<"getLinear", a, n, val[a].v[InOrder(val[a], n)]>>
  /\ UNCHANGED val

Get2D(a, c) ==
  /\ Alive(a) /\ c \in Cells(val[a])
  /\ call' = <<"get2D", a, c, val[a].v[c]>>
  /\ UNCHANGED val

(* Queries: same extents; same extents and elements; the sum of the       *)
(* elements.                                                               *)
SameShape(a, o) == val[a].rows = val[o].rows /\ val[a].cols = val[o].cols

IsSameShape(a, o) ==
  /\ Alive(a) /\ Alive(o)
  /\ call' = <<"isSameShape", a, o, SameShape(a, o)>>
  /\ UNCHANGED val

EqualsTo(a, o) ==
  /\ Alive(a) /\ Alive(o)
  /\ call' = <<"equalsTo", a, o, SameShape(a, o) /\ val[a].v = val[o].v>>
  /\ UNCHANGED val

SumNumber(a) ==
  /\ Alive(a)
  /\ call' = <<"sumNumber", a, SumFunction(val[a].v)>>
  /\ UNCHANGED val

(* The mean, as the sum of the elements over their number.               *)
MeanNumber(a) ==
  /\ Alive(a)
  /\ call' = <<"meanNumber", a, SumFunction(val[a].v), Length(val[a])>>
  /\ UNCHANGED val

(* Accessors of three indices fail on a matrix (spec.md 4.2, RankMismatch). *)
Access3D(a) ==
  /\ Alive(a)
  /\ call' = <<"rank3", a>>
  /\ UNCHANGED val

(* Reduction along dimension d (spec.md 4.3, 4.4): one slice per index of *)
(* the other dimension, running along d, and a new 1 x numTads 'c' row   *)
(* holding the sums of the slices.                                        *)
SliceSum(m, d, t) == SumFunctionOnSet(m.v, {c \in Cells(m) : c[2 - d] = t})

ReduceAlongDimension(a, r, d) ==
  /\ call' = <<"sum", a, r, d>>
  /\ Alive(a) /\ ~Alive(r)
  /\ LET n == IF d = 0 THEN val[a].cols ELSE val[a].rows IN
     val' = [val EXCEPT ![r] = Matrix(1, n, "c", [c \in {0} \X (0 .. n - 1) |-> SliceSum(val[a], d, c[2])])]

AssignValue(a, x) ==
  /\ call' = <<"assignValue", a, x>>
  /\ Alive(a)
  /\ val' = [val EXCEPT ![a].v = [c \in Cells(val[a]) |-> x]]

(* Elements are paired in logical order, whatever the memory orders.       *)
AssignArray(a, o) ==
  /\ call' = <<"assignArray", a, o>>
  /\ Alive(a) /\ Alive(o) /\ Length(val[a]) = Length(val[o])
  /\ val' = [val EXCEPT ![a].v =
               [c \in Cells(val[a]) |->
                  val[o].v[RowMajor(val[o], c[1] * val[a].cols + c[2])]]]

OperatorAssign(a, o) ==
  /\ call' = <<"operator=", a, o>>
  /\ a # o /\ Alive(a) /\ Alive(o)
  /\ val' = [val EXCEPT ![a] = val[o]]

Dup(a, r, o) ==
  /\ call' = <<"dup", a, r, o>>
  /\ Alive(a) /\ ~Alive(r)
  /\ val' = [val EXCEPT ![r] = [val[a] EXCEPT !.ord = o]]

Transpose(a, r) ==
  /\ call' = <<"transpose", a, r>>
  /\ Alive(a) /\ ~Alive(r)
  /\ val' = [val EXCEPT ![r] = TransposeOf(val[a])]

TransposeInPlace(a) ==
  /\ call' = <<"transposei", a>>
  /\ Alive(a)
  /\ val' = [val EXCEPT ![a] = TransposeOf(val[a])]

(* Every row of a gets the row vector o added; o's length is a's column   *)
(* count.                                                                  *)
AddRowVector(a, o) ==
  /\ call' = <<"addiRowVector", a, o>>
  /\ Alive(a) /\ Alive(o) /\ val[o].rows = 1 /\ val[o].cols = val[a].cols
  /\ \A c \in Cells(val[a]) : val[a].v[c] + val[o].v[<<0, c[2]>>] <= MaxVal
  /\ val' = [val EXCEPT ![a].v =
               [c \in Cells(val[a]) |-> val[a].v[c] + val[o].v[<<0, c[2]>>]]]

Transform(a) ==
  /\ call' = <<"applyTransform", a>>
  /\ Alive(a)
  /\ val' = [val EXCEPT ![a].v = [c \in Cells(val[a]) |-> Op(val[a].v[c])]]

(* Activations map the input's elements into an output of the same shape *)
(* and order, element by element.                                         *)
Like(a, o) == val[o].rows = val[a].rows /\ val[o].cols = val[a].cols /\ val[o].ord = val[a].ord

ExecuteFF(a, o) ==
  /\ call' = <<"executeFF", a, o>>
  /\ Alive(a) /\ Alive(o) /\ Like(a, o)
  /\ val' = [val EXCEPT ![o].v = [c \in Cells(val[a]) |-> Op(val[a].v[c])]]

ExecuteBP(a, e, o) ==
  /\ call' = <<"executeBP", a, e, o>>
  /\ Alive(a) /\ Alive(e) /\ Alive(o) /\ Like(a, e) /\ Like(a, o)
  /\ val' = [val EXCEPT ![o].v = [c \in Cells(val[a]) |-> BpOp(val[a].v[c], val[e].v[c])]]

Destroy(a) ==
  /\ call' = <<"destroy", a>>
  /\ Alive(a)
  /\ val' = [val EXCEPT ![a] = NoMatrix]

Init ==
  /\ val = [a \in Arrays |-> NoMatrix]
  /\ call = <<"init">>

Next ==
  \E a \in Arrays :
    \/ Create(a) \/ Borrow(a) \/ TransposeInPlace(a) \/ Transform(a)
    \/ Destroy(a)
    \/ \E x \in Vals : AssignValue(a, x)
    \/ \E n \in -1 .. MaxExtent * MaxExtent, x \in Vals : PutLinear(a, n, x)
    \/ \E c \in Cells(val[a]), x \in Vals : Put2D(a, c, x)
    \/ \E n \in 0 .. MaxExtent * MaxExtent : GetLinear(a, n)
    \/ \E c \in Cells(val[a]) : Get2D(a, c)
    \/ SumNumber(a) \/ MeanNumber(a) \/ Access3D(a)
    \/ \E o \in Arrays :
         \/ Copy(a, o) \/ AssignArray(a, o) \/ OperatorAssign(a, o)
         \/ AddRowVector(a, o) \/ ExecuteFF(a, o)
         \/ IsSameShape(a, o) \/ EqualsTo(a, o)
         \/ \E e \in Arrays : ExecuteBP(a, e, o)
         \/ Transpose(o, a)
         \/ \E d \in {0, 1} : ReduceAlongDimension(o, a, d)
         \/ \E ord \in {"c", "f"} : Dup(o, a, ord)

Spec == Init /\ [][Next]_<<val, call>>

=============================================================================
