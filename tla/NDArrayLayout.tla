--------------------------- MODULE NDArrayLayout ---------------------------
(***************************************************************************)
(* The elements of NDArray<T> and how the operations of                    *)
(* src/blas/cpu/NDArray.cpp move them (rank 2, as all constructors but one *)
(* build).  Each array has a buffer of `cap' physical cells and a          *)
(* shapeInfo giving extents, strides, element-wise stride (ews) and order; *)
(* logical element (i, j) lives at cell i*stride0 + j*stride1, the offset   *)
(* shape::getOffset computes.  Which blocks are shared or freed is the     *)
(* business of NDArrayMemory; here every array has a buffer of its own.    *)
(*                                                                         *)
(* The variable `call' records the operation a step performs, so that the  *)
(* model can be shown to implement LogicalArrays step by step.            *)
(***************************************************************************)
EXTENDS Integers

LOCAL INSTANCE Functions

CONSTANTS
  Arrays,       \* NDArray objects (model values)
  Extents,      \* the extents a dimension may have
  MaxVal,       \* element values are 0 .. MaxVal (additions are bounded by it)
  Op(_),        \* the elementwise transform of applyTransform<OpName>
  BpOp(_, _),   \* Activation::bpActivation(input, epsilon) of executeBP
  MaxCap,       \* the largest buffer a caller hands in, in elements
  ExtraViews,   \* shapeInfos with other strides a caller may hand in
  NegIndex,     \* may a caller pass a negative linear index?
  RowMismatch   \* may a caller pass a row vector of the wrong length?

ASSUME Extents \subseteq Nat \ {0} /\ MaxVal \in Nat /\ MaxCap \in Nat
ASSUME NegIndex \in BOOLEAN /\ RowMismatch \in BOOLEAN

VARIABLES
  mem,   \* array -> its buffer, cell -> value (cells past cap are 0)
  cap,   \* array -> number of cells its buffer has
  shp,   \* array -> the shapeInfo it reads (NoView when not constructed)
  own,   \* array -> _allocated
  oob,   \* history: a cell outside a buffer was read or written
  call   \* the operation the last step performed

vars == <<mem, cap, shp, own, oob, call>>

Vals == 0 .. MaxVal
Cells == 0 .. MaxCap - 1
MaxExtent == CHOOSE e \in Extents : \A x \in Extents : x <= e

Shape(r, c, sr, sc, e, o) ==
  [rows |-> r, cols |-> c, sr |-> sr, sc |-> sc, ews |-> e, ord |-> o]

NoView == Shape(0, 0, 0, 0, 0, "c")

Flip(o) == IF o = "c" THEN "f" ELSE "c"

(* shape::shapeBuffer ('c') and shape::shapeBufferFortran ('f').           *)
ShapeBuffer(r, c, o) ==
  IF o = "c" THEN Shape(r, c, c, 1, 1, "c") ELSE Shape(r, c, 1, r, 1, "f")

Len(k) == k.rows * k.cols
Coords(k) == (0 .. k.rows - 1) \X (0 .. k.cols - 1)

(* shape::getOffset(0, shapeOf(), stridesOf(), coords, 2).                 *)
Off(k, c) == c[1] * k.sr + c[2] * k.sc

Footprint(k) == {Off(k, c) : c \in Coords(k)}

RowMajor(k, n) == <<n \div k.cols, n % k.cols>>

(* shape::doPermuteShapeBuffer with rearrange = {1, 0}.                    *)
Permuted(k) ==
  Shape(k.cols, k.rows, k.sc, k.sr, k.ews, Flip(k.ord))

(* The shapeInfos shape::shapeBuffer builds, and those a caller can hand  *)
(* to NDArray(T *buffer, int *shapeInfo): these include views of a larger  *)
(* matrix when ExtraViews is not empty.                                    *)
Standard == {ShapeBuffer(r, c, o) : r, c \in Extents, o \in {"c", "f"}}

Views == Standard \cup ExtraViews

Span(k) == 1 + (CHOOSE x \in Footprint(k) : \A y \in Footprint(k) : y <= x)

ASSUME \A k \in Views : k.rows \in Extents /\ k.cols \in Extents /\ Span(k) <= MaxCap

-----------------------------------------------------------------------------
(* Reading and writing buffers.  A view is a shapeInfo over a buffer.      *)

View(a) == [k |-> shp[a], m |-> mem[a], cp |-> cap[a]]

InCap(v, i) == i \in 0 .. v.cp - 1

(* An out-of-bounds read yields some value; the read itself is recorded.   *)
Rd(v, i) == IF InCap(v, i) THEN v.m[i] ELSE 0

Element(v, c) == Rd(v, Off(v.k, c))

OutOfCap(v, S) == \E i \in S : ~InCap(v, i)

(* The buffer of v after a loop n = 0 .. Len(w)-1 writing x[n] to cell   *)
(* w[n]: the last write to a cell wins; writes outside the buffer are lost. *)
Written(v, w, x) ==
  [i \in Cells |->
     IF InCap(v, i) /\ \E n \in DOMAIN w : w[n] = i
       THEN x[CHOOSE n \in DOMAIN w :
                 w[n] = i /\ \A l \in DOMAIN w : w[l] = i => l <= n]
       ELSE v.m[i]]

(* The loop index set of a loop of N iterations.                          *)
Loop(N) == 0 .. N - 1

(* A fresh buffer of n cells holding memcpy'd cells 0 .. n-1 of v.         *)
Memcpy(v, n) == [i \in Cells |-> IF i < n THEN Rd(v, i) ELSE 0]

(* The logical loop of execScalar / execTransform / execPairwiseTransform  *)
(* over every element of d, in row-major order, element n being F(n).      *)
Logical(d, f) == Written(d, [n \in Loop(Len(d.k)) |-> Off(d.k, RowMajor(d.k, n))], f)

(* Variant of assign taking the memcpy path whatever the orders.           *)
AssignedByMemcpy(d, s) ==
  Written(d, [n \in Loop(Len(d.k)) |-> n], [n \in Loop(Len(d.k)) |-> Rd(s, n)])

(* assign(other) into d from s when the lengths agree: one memcpy of      *)
(* lengthOf() cells when the orders are equal, else the pairwise           *)
(* transform pairing elements in logical order.                            *)
Assigned(d, s) ==
  IF d.k.ord = s.k.ord
    THEN Written(d, [n \in Loop(Len(d.k)) |-> n], [n \in Loop(Len(d.k)) |-> Rd(s, n)])
    ELSE Logical(d, [n \in Loop(Len(d.k)) |-> Element(s, RowMajor(s.k, n))])

AssignOOB(d, s) ==
  IF d.k.ord = s.k.ord
    THEN OutOfCap(d, 0 .. Len(d.k) - 1) \/ OutOfCap(s, 0 .. Len(d.k) - 1)
    ELSE OutOfCap(d, Footprint(d.k)) \/ OutOfCap(s, Footprint(s.k))

Alive(a) == shp[a].rows > 0

Zeros == [i \in Cells |-> 0]

-----------------------------------------------------------------------------
(* Constructors and destructor.                                            *)

(* An array a gets the buffer m of n cells and the shapeInfo k.            *)
Become(a, m, n, k, owned) ==
  /\ mem' = [mem EXCEPT ![a] = m]
  /\ cap' = [cap EXCEPT ![a] = n]
  /\ shp' = [shp EXCEPT ![a] = k]
  /\ own' = [own EXCEPT ![a] = owned]

(* NDArray(rows, columns, order), NDArray(length, order) (1 x length) and *)
(* NDArray(order, {shape}): a zero-filled buffer and a fresh shapeInfo.   *)
Create(a) ==
  /\ ~Alive(a)
  /\ \E r, c \in Extents, o \in {"c", "f"} :
       Become(a, Zeros, r * c, ShapeBuffer(r, c, o), TRUE)
  /\ call' = <<"create", a>>
  /\ UNCHANGED oob

(* NDArray(const int *shape): a zero-filled buffer of shape::length and a  *)
(* verbatim copy of the caller's shapeInfo, strides included.             *)
CreateFromShape(a) ==
  /\ ~Alive(a)
  /\ \E k \in Views : Become(a, Zeros, Len(k), k, TRUE)
  /\ call' = <<"create", a>>
  /\ UNCHANGED oob

(* NDArray(T *buffer, int *shapeInfo): the caller's buffer, large enough  *)
(* for every element the shapeInfo addresses, with any contents.          *)
Borrow(a) ==
  /\ ~Alive(a)
  /\ \E k \in Views :
       \E data \in [0 .. Span(k) - 1 -> Vals] :
         Become(a, [i \in Cells |-> IF i < Span(k) THEN data[i] ELSE 0],
                Span(k), k, FALSE)
  /\ call' = <<"borrow", a>>
  /\ UNCHANGED oob

(* Variant of the copy constructor allocating one cell more.              *)
CopyOneMore(a, o) ==
  /\ ~Alive(a) /\ Alive(o)
  /\ Become(a, Memcpy(View(o), Len(shp[o])), Len(shp[o]) + 1, shp[o], TRUE)
  /\ oob' = (oob \/ OutOfCap(View(o), 0 .. Len(shp[o]) - 1))
  /\ call' = <<"copy", a, o>>

(* NDArray(const NDArray& other): memcpy of shape::length(other) cells and *)
(* of the whole shapeInfo.                                                 *)
Copy(a, o) ==
  /\ ~Alive(a) /\ Alive(o)
  /\ Become(a, Memcpy(View(o), Len(shp[o])), Len(shp[o]), shp[o], TRUE)
  /\ oob' = (oob \/ OutOfCap(View(o), 0 .. Len(shp[o]) - 1))
  /\ call' = <<"copy", a, o>>

(* ~NDArray().                                                             *)
Destroy(a) ==
  /\ Alive(a)
  /\ Become(a, Zeros, 0, NoView, FALSE)
  /\ call' = <<"destroy", a>>
  /\ UNCHANGED oob

-----------------------------------------------------------------------------
(* Element access and in-place operations.  Each rewrites a's buffer.      *)

Store(a, m, bad) ==
  /\ mem' = [mem EXCEPT ![a] = m]
  /\ oob' = (oob \/ bad)
  /\ UNCHANGED <<cap, shp, own>>

(* Variant of putScalar(i, value) returning only when i > length.         *)
PutLinearOffByOne(a, i, x) ==
  /\ Alive(a)
  /\ IF i > Len(shp[a])
       THEN UNCHANGED <<mem, cap, shp, own, oob>>
       ELSE Store(a, Written(View(a), <<i>>, <<x>>),
                  OutOfCap(View(a), {i}))
  /\ call' = <<"putLinear", a, i, x>>

(* putScalar(i, value): returns when i >= shape::length, else             *)
(* _buffer[i] = value (Nd4jIndex is signed: a negative i is not caught).   *)
PutLinear(a, i, x) ==
  /\ Alive(a)
  /\ IF i >= Len(shp[a])
       THEN UNCHANGED <<mem, cap, shp, own, oob>>
       ELSE Store(a, Written(View(a), <<i>>, <<x>>),
                  OutOfCap(View(a), {i}))
  /\ call' = <<"putLinear", a, i, x>>

(* putScalar(i, j, value): getOffset (which fails when a coordinate is     *)
(* out of range), then putScalar(xOffset, value).                          *)
Put2D(a, c, x) ==
  /\ Alive(a) /\ c \in Coords(shp[a])
  /\ LET off == Off(shp[a], c) IN
     IF off >= Len(shp[a])
       THEN UNCHANGED <<mem, cap, shp, own, oob>>
       ELSE Store(a, Written(View(a), <<off>>, <<x>>),
                  OutOfCap(View(a), {off}))
  /\ call' = <<"put2D", a, c, x>>

(* getScalar(i): throws when i >= shape::length, else returns _buffer[i].   *)
GetLinear(a, i) ==
  /\ Alive(a) /\ i < Len(shp[a])
  /\ oob' = (oob \/ OutOfCap(View(a), {i}))
  /\ call' = <<"getLinear", a, i, Rd(View(a), i)>>
  /\ UNCHANGED <<mem, cap, shp, own>>

(* getScalar(i, j): the rank check, then _buffer[getOffset(coords)].       *)
Get2D(a, c) ==
  /\ Alive(a) /\ c \in Coords(shp[a])
  /\ oob' = (oob \/ OutOfCap(View(a), {Off(shp[a], c)}))
  /\ call' = <<"get2D", a, c, Element(View(a), c)>>
  /\ UNCHANGED <<mem, cap, shp, own>>

(* A query: it reads the elements of the arrays S and returns r.          *)
Query(S, r) ==
  /\ oob' = (oob \/ \E b \in S : OutOfCap(View(b), Footprint(shp[b])))
  /\ call' = r
  /\ UNCHANGED <<mem, cap, shp, own>>

Matrix(a) == [c \in Coords(shp[a]) |-> Element(View(a), c)]

(* isSameShape(other): rank, then _shapeInfo[1 .. rank] compared.         *)
IsSameShape(a, o) ==
  /\ Alive(a) /\ Alive(o)
  /\ Query({}, <<"isSameShape", a, o, shp[a].rows = shp[o].rows /\ shp[a].cols = shp[o].cols>>)

(* equalsTo(other, eps): shape::equalsSoft on the extents, then           *)
(* execReduce3Scalar counting the pairs of elements further apart than eps *)
(* (values are integers, eps < 1); other being this is not tested.        *)
equalsTo(a, o) ==
  /\ Alive(a) /\ Alive(o)
  /\ LET soft == shp[a].rows = shp[o].rows /\ shp[a].cols = shp[o].cols IN
     Query(IF soft THEN {a, o} ELSE {},
           <<"equalsTo", a, o, soft /\ Matrix(a) = Matrix(o)>>)

(* operator==(other): true at once, reading nothing, when other is this;  *)
(* otherwise equalsTo with eps = EPSN.                                     *)
EqualsTo(a, o) ==
  IF a = o THEN Alive(a) /\ Query({}, <<"equalsTo", a, o, TRUE>>)
  ELSE equalsTo(a, o)

(* sumNumber(): execReduceScalar(Sum) over every element.                  *)
SumNumber(a) ==
  /\ Alive(a)
  /\ Query({a}, <<"sumNumber", a, SumFunction(Matrix(a))>>)

(* meanNumber(): execReduceScalar(Mean), the sum over the length.          *)
MeanNumber(a) ==
  /\ Alive(a)
  /\ Query({a}, <<"meanNumber", a, SumFunction(Matrix(a)), Len(shp[a])>>)

(* getScalar(i, j, k) throws when rankOf() != 3, as for every array here, *)
(* before getOffset; so does putScalar(i, j, k, value).                   *)
Get3D(a) ==
  /\ Alive(a)
  /\ Query({}, <<"rank3", a>>)

Put3D(a) ==
  /\ Alive(a)
  /\ Query({}, <<"rank3", a>>)

(* assign(value): execScalar writes value to every element.                *)
AssignValue(a, x) ==
  /\ Alive(a)
  /\ Store(a, Logical(View(a), [n \in Loop(Len(shp[a])) |-> x]), OutOfCap(View(a), Footprint(shp[a])))
  /\ call' = <<"assignValue", a, x>>

(* assign(other): returns if other is this; throws on unequal lengths.     *)
AssignArray(a, o) ==
  /\ Alive(a) /\ Alive(o) /\ Len(shp[a]) = Len(shp[o])
  /\ IF a = o THEN UNCHANGED <<mem, cap, shp, own, oob>>
              ELSE Store(a, Assigned(View(a), View(o)), AssignOOB(View(a), View(o)))
  /\ call' = <<"assignArray", a, o>>

(* operator=(other) when shape::equalsStrict holds: memcpy of lengthOf()   *)
(* cells.  (The other branch is undefined behaviour: see NDArrayMemory.)   *)
OperatorAssign(a, o) ==
  /\ a # o /\ Alive(a) /\ Alive(o) /\ shp[a] = shp[o]
  /\ Store(a, Written(View(a), [n \in Loop(Len(shp[a])) |-> n], [n \in Loop(Len(shp[a])) |-> Rd(View(o), n)]),
           OutOfCap(View(a), 0 .. Len(shp[a]) - 1) \/ OutOfCap(View(o), 0 .. Len(shp[a]) - 1))
  /\ call' = <<"operator=", a, o>>

(* applyTransform<OpName>(): Transform::exec with input = output.          *)
ApplyTransform(a) ==
  /\ Alive(a)
  /\ Store(a, Logical(View(a), [n \in Loop(Len(shp[a])) |-> Op(Element(View(a), RowMajor(shp[a], n)))]),
           OutOfCap(View(a), Footprint(shp[a])))
  /\ call' = <<"applyTransform", a>>

(* ActivationsExecutioner<T>::executeFF(input, output) without a special  *)
(* FF: output->getBuff()[e] = ffActivation(input->getBuff()[e]) for every *)
(* e < input->lengthOf(), buffer cell by buffer cell.  Callers pass an     *)
(* output of the input's extents and order.                                *)
Like(a, o) == shp[o].rows = shp[a].rows /\ shp[o].cols = shp[a].cols /\ shp[o].ord = shp[a].ord

ExecuteFF(a, o) ==
  /\ Alive(a) /\ Alive(o) /\ Like(a, o)
  /\ LET n == Len(shp[a]) IN
     /\ mem' = [mem EXCEPT ![o] = Written(View(o), [e \in Loop(n) |-> e],
                                           [e \in Loop(n) |-> Op(Rd(View(a), e))])]
     /\ oob' = (oob \/ OutOfCap(View(a), Loop(n)) \/ OutOfCap(View(o), Loop(n)))
  /\ call' = <<"executeFF", a, o>>
  /\ UNCHANGED <<cap, shp, own>>

(* executeBP(input, epsilon, output): output cell e gets                   *)
(* bpActivation(input cell e, epsilon cell e), e < input->lengthOf().      *)
ExecuteBP(a, p, o) ==
  /\ Alive(a) /\ Alive(p) /\ Alive(o) /\ Like(a, p) /\ Like(a, o)
  /\ LET n == Len(shp[a]) IN
     /\ mem' = [mem EXCEPT ![o] = Written(View(o), [e \in Loop(n) |-> e],
                                           [e \in Loop(n) |-> BpOp(Rd(View(a), e), Rd(View(p), e))])]
     /\ oob' = (oob \/ OutOfCap(View(a), Loop(n)) \/ OutOfCap(View(p), Loop(n))
                    \/ OutOfCap(View(o), Loop(n)))
  /\ call' = <<"executeBP", a, p, o>>
  /\ UNCHANGED <<cap, shp, own>>

(* addiRowVector(row): throws unless row is a row vector (shape::isRowVector); *)
(* then execBroadcast over the TADs along dimension 1 (the rows of a): each   *)
(* element (i, j) gets row element (0, j) added, for j below a's columns.     *)
AddiRowVector(a, o) ==
  /\ Alive(a) /\ Alive(o) /\ shp[o].rows = 1
  /\ RowMismatch \/ shp[o].cols = shp[a].cols
  /\ LET k == shp[a]
         sum == [n \in Loop(Len(k)) |-> Element(View(a), RowMajor(k, n))
                                          + Element(View(o), <<0, RowMajor(k, n)[2]>>)]
     IN /\ \A n \in Loop(Len(k)) : sum[n] <= MaxVal
        /\ Store(a, Logical(View(a), sum),
                 OutOfCap(View(a), Footprint(k))
                 \/ OutOfCap(View(o), {Off(shp[o], <<0, j>>) : j \in 0 .. k.cols - 1}))
  /\ call' = <<"addiRowVector", a, o>>

-----------------------------------------------------------------------------
(* Operations returning a new owning array r.                              *)

(* dup(newOrder): a buffer of shape::length cells, a fresh shapeInfo of    *)
(* the same extents in newOrder with ews 1, _allocated = true, then        *)
(* result->assign(this).                                                   *)
Dup(a, r, o) ==
  /\ Alive(a) /\ ~Alive(r)
  /\ LET k == ShapeBuffer(shp[a].rows, shp[a].cols, o)
         fresh == [k |-> k, m |-> Zeros, cp |-> Len(k)]
     IN /\ Become(r, Assigned(fresh, View(a)), Len(k), k, TRUE)
        /\ oob' = (oob \/ AssignOOB(fresh, View(a)))
  /\ call' = <<"dup", a, r, o>>

(* shape::TAD over dimension d of a rank-2 shapeInfo (spec.md 4.3): one  *)
(* slice per index t of the other axis, starting at t times that axis'   *)
(* stride; element i of a slice lies i strides of d further.             *)
NumTads(k, d) == IF d = 0 THEN k.cols ELSE k.rows

TadOffset(k, d, t, i) ==
  IF d = 0 THEN t * k.sc + i * k.sr ELSE t * k.sr + i * k.sc

(* sum({d}) = reduceAlongDimension<Sum>({d}): the TAD, a new owning       *)
(* NDArray(1, numTads, 'c'), and ReduceFunction::exec writing the sum of  *)
(* slice t to cell t of its buffer.  Sums stay within 0 .. MaxVal.        *)
ReduceAlongDimension(a, r, d) ==
  /\ Alive(a) /\ ~Alive(r)
  /\ LET k == shp[a]
         n == NumTads(k, d)
         ext == IF d = 0 THEN k.rows ELSE k.cols
         offs(t) == [i \in Loop(ext) |-> TadOffset(k, d, t, i)]
         s == [t \in Loop(n) |-> SumFunction([i \in Loop(ext) |-> Rd(View(a), offs(t)[i])])]
     IN /\ \A t \in Loop(n) : s[t] <= MaxVal
        /\ Become(r, [i \in Cells |-> IF i < n THEN s[i] ELSE 0], n, ShapeBuffer(1, n, "c"), TRUE)
        /\ oob' = (oob \/ \E t \in Loop(n) : OutOfCap(View(a), {offs(t)[i] : i \in Loop(ext)}))
  /\ call' = <<"sum", a, r, d>>

(* The shapeInfo transpose and transposei build: permuted, ews set to 1.  *)
TransposedShape(k) == [Permuted(k) EXCEPT !.ews = 1]

(* transpose(): the permuted copy of the shapeInfo, and memcpy of          *)
(* lengthOf() cells into a new buffer; the result owns both.               *)
Transpose(a, r) ==
  /\ Alive(a) /\ ~Alive(r)
  /\ Become(r, Memcpy(View(a), Len(shp[a])), Len(shp[a]), TransposedShape(shp[a]), TRUE)
  /\ oob' = (oob \/ OutOfCap(View(a), 0 .. Len(shp[a]) - 1))
  /\ call' = <<"transpose", a, r>>

(* transposei(): a borrowed array first gets a new buffer holding memcpy   *)
(* of lengthOf() cells (and a copy of the shapeInfo); then the shapeInfo   *)
(* is permuted in place.                                                   *)
Transposei(a) ==
  /\ Alive(a)
  /\ IF own[a]
       THEN Become(a, mem[a], cap[a], TransposedShape(shp[a]), TRUE)
       ELSE Become(a, Memcpy(View(a), Len(shp[a])), Len(shp[a]),
                   TransposedShape(shp[a]), TRUE)
  /\ oob' = (oob \/ OutOfCap(View(a), 0 .. Len(shp[a]) - 1))
  /\ call' = <<"transposei", a>>

-----------------------------------------------------------------------------

Init ==
  /\ mem = [a \in Arrays |-> Zeros]
  /\ cap = [a \in Arrays |-> 0]
  /\ shp = [a \in Arrays |-> NoView]
  /\ own = [a \in Arrays |-> FALSE]
  /\ oob = FALSE
  /\ call = <<"init">>

LinearIndices == (IF NegIndex THEN {-1} ELSE {}) \cup 0 .. MaxExtent * MaxExtent

Next ==
  \E a \in Arrays :
    \/ Create(a) \/ CreateFromShape(a) \/ Borrow(a) \/ Destroy(a)
    \/ Transposei(a) \/ ApplyTransform(a)
    \/ \E i \in LinearIndices : GetLinear(a, i)
    \/ \E c \in Coords(shp[a]) : Get2D(a, c)
    \/ SumNumber(a) \/ MeanNumber(a) \/ Get3D(a) \/ Put3D(a)
    \/ \E x \in Vals :
         \/ AssignValue(a, x)
         \/ \E i \in LinearIndices : PutLinear(a, i, x)
         \/ \E c \in Coords(shp[a]) : Put2D(a, c, x)
    \/ \E o \in Arrays :
         \/ Copy(a, o) \/ AssignArray(a, o) \/ OperatorAssign(a, o)
         \/ AddiRowVector(a, o) \/ Transpose(o, a) \/ ExecuteFF(a, o)
         \/ IsSameShape(a, o) \/ EqualsTo(a, o) \/ equalsTo(a, o)
         \/ \E p \in Arrays : ExecuteBP(a, p, o)
         \/ \E ord \in {"c", "f"} : Dup(o, a, ord)
         \/ \E d \in {0, 1} : ReduceAlongDimension(o, a, d)

Spec == Init /\ [][Next]_vars

(* The state without `call', which no action reads.                        *)
StateView == <<mem, cap, shp, own, oob>>

-----------------------------------------------------------------------------
(* Properties.                                                             *)

TypeOK ==
  /\ mem \in [Arrays -> [Cells -> Vals]]
  /\ cap \in [Arrays -> 0 .. MaxCap]
  /\ shp \in [Arrays -> [rows : 0 .. MaxExtent, cols : 0 .. MaxExtent,
                         sr : 0 .. MaxCap, sc : 0 .. MaxCap, ews : {0, 1},
                         ord : {"c", "f"}]]
  /\ own \in [Arrays -> BOOLEAN]
  /\ oob \in BOOLEAN

(* The matrix each array holds, read through its shapeInfo.                *)
LogicalOf(a) ==
  [rows |-> shp[a].rows, cols |-> shp[a].cols, ord |-> shp[a].ord,
   v |-> [c \in Coords(shp[a]) |-> Element(View(a), c)]]

LA == INSTANCE LogicalArrays WITH val <- [a \in Arrays |-> LogicalOf(a)]

(* Every operation changes the logical contents of the arrays exactly as   *)
(* LogicalArrays says: dup, assign and operator= copy the logical elements, *)
(* transpose and transposei transpose them, putScalar writes the element   *)
(* it names, addiRowVector adds the row to every row.                      *)
ImplementsLogicalArrays == LA!Spec

(* No operation reads or writes a cell outside an array's buffer, and no   *)
(* array's shapeInfo addresses a cell outside its buffer.                   *)
NoOutOfBounds ==
  /\ ~oob
  /\ \A a \in Arrays : Alive(a) => \A i \in Footprint(shp[a]) : i < cap[a]

(* dup(newOrder) returns an array holding the same matrix as the original *)
(* (spec.md: "identical logical content"), whether it copies with memcpy  *)
(* or with the pairwise transform.                                         *)
DupPreservesContents ==
  [][\A a, r \in Arrays, o \in {"c", "f"} :
       call' = <<"dup", a, r, o>> => LogicalOf(r)'.v = LogicalOf(a).v]_vars

=============================================================================
