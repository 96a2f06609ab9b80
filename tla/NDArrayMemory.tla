--------------------------- MODULE NDArrayMemory ---------------------------
(***************************************************************************)
(* Ownership and lifetime of the memory behind NDArray<T>                  *)
(* (src/blas/NDArray.h, src/blas/cpu/NDArray.cpp).                          *)
(*                                                                         *)
(* An NDArray object holds two heap pointers, _buffer and _shapeInfo, and  *)
(* the flag _allocated saying whether it owns them.  The memory is modelled *)
(* as two pools of blocks (buffers and shape-info arrays); the element     *)
(* values are abstracted away, a buffer block keeps only its capacity and  *)
(* a shape block only the shape it encodes (rows x cols and the order).    *)
(* Every constructor, operator=, replacePointers, dup, transpose,          *)
(* transposei, reduceAlongDimension and the destructor is one action, and  *)
(* each action records the accesses it makes to memory that is no longer  *)
(* live, and the frees it makes that are not legal.                        *)
(*                                                                         *)
(* The caller (a layer, an op, a test) is the environment: it owns some   *)
(* blocks of its own, hands live pointers to the library, and keeps the    *)
(* documented contract: memory that another live NDArray still views is    *)
(* not released.                                                           *)
(***************************************************************************)
EXTENDS Naturals, FiniteSets

CONSTANTS
  Arrays,      \* NDArray objects (model values)
  BufBlocks,   \* heap blocks usable as element buffers (model values)
  ShpBlocks,   \* heap blocks usable as shapeInfo arrays (model values)
  Null,        \* nullptr
  Extents,     \* the extents a dimension may have
  Shapes,      \* the shapes constructors and callers create
  CallerBufs,  \* buffers the caller allocated itself
  CallerShps,  \* shapeInfos the caller allocated itself
  SelfReplace  \* may a caller hand an array its own pointers back?

ASSUME Null \notin Arrays \cup BufBlocks \cup ShpBlocks
ASSUME Extents \subseteq Nat \ {0} /\ Extents # {}
ASSUME SelfReplace \in BOOLEAN

Blocks == BufBlocks \cup ShpBlocks

(* What a shapeInfo block encodes: the model keeps rank-2 shapes (every    *)
(* constructor of NDArray.cpp but the initializer-list one builds rank 2). *)
ShapeVals == [rows : Extents, cols : Extents, ord : {"c", "f"}]

Len(k) == k.rows * k.cols

MaxLen == LET m == CHOOSE e \in Extents : \A x \in Extents : x <= e IN m * m

ASSUME Shapes \subseteq ShapeVals /\ Shapes # {}
ASSUME CallerBufs \subseteq BufBlocks /\ CallerShps \subseteq ShpBlocks

FaultKinds == {"use_after_free", "double_free", "foreign_free"}

VARIABLES
  status,             \* block -> "free" | "live"
  origin,             \* block -> who allocated it: "lib" | "caller"
  size,               \* buffer block -> capacity in elements
  info,               \* shape block -> the shape it encodes
  arr,                \* array -> [alive, buf, shp, allocated]
  faults,             \* history: the kinds of illegal memory use so far
  foreignShapeWrites  \* history: shape blocks written through a non-owner

vars == <<status, origin, size, info, arr, faults, foreignShapeWrites>>

NoArray == [alive |-> FALSE, buf |-> Null, shp |-> Null, allocated |-> FALSE]

TypeOK ==
  /\ status \in [Blocks -> {"free", "live"}]
  /\ origin \in [Blocks -> {"lib", "caller"}]
  /\ size \in [BufBlocks -> 0 .. MaxLen]
  /\ info \in [ShpBlocks -> ShapeVals]
  /\ arr \in [Arrays -> [alive : BOOLEAN, buf : BufBlocks \cup {Null},
                         shp : ShpBlocks \cup {Null}, allocated : BOOLEAN]]
  /\ faults \subseteq FaultKinds
  /\ foreignShapeWrites \subseteq ShpBlocks

-----------------------------------------------------------------------------
(* Helpers over the heap.                                                  *)

Live(b) == b # Null /\ status[b] = "live"

RefBy(a) == {arr[a].buf, arr[a].shp} \ {Null}

Referenced(b) == \E a \in Arrays : arr[a].alive /\ b \in RefBy(a)

(* A block the allocator may hand out: not live and no live object points  *)
(* at it (so a dangling pointer is never silently revived by reuse).       *)
Allocatable(b) == status[b] # "live" /\ ~Referenced(b)

nonNull(a) == arr[a].buf # Null /\ arr[a].shp # Null

(* shape::length(_shapeInfo); a freed block still holds its old contents.  *)
lengthOf(a) == Len(info[arr[a].shp])

(* Faults of reading or writing the blocks S.                              *)
Touch(S) == IF \E b \in S : status[b] # "live" THEN {"use_after_free"} ELSE {}

(* Faults of delete[] on the blocks S.                                     *)
FreeFaults(S) ==
  (IF \E b \in S : status[b] # "live" THEN {"double_free"} ELSE {})
  \cup (IF \E b \in S : origin[b] = "caller" THEN {"foreign_free"} ELSE {})

NoShape == CHOOSE k \in Shapes : TRUE

(* One step of the heap: the blocks F are deleted, and `who' allocates    *)
(* the blocks N (at most one buffer of n elements and one shapeInfo        *)
(* encoding k).  A deleted block forgets what it held.                     *)
HeapBy(who, F, N, n, k) ==
  /\ status' = [b \in Blocks |-> IF b \in N THEN "live"
                                 ELSE IF b \in F THEN "free" ELSE status[b]]
  /\ origin' = [b \in Blocks |-> IF b \in N THEN who
                                 ELSE IF b \in F THEN "lib" ELSE origin[b]]
  /\ size' = [b \in BufBlocks |-> IF b \in N THEN n
                                  ELSE IF b \in F THEN 0 ELSE size[b]]
  /\ info' = [b \in ShpBlocks |-> IF b \in N THEN k
                                  ELSE IF b \in F THEN NoShape ELSE info[b]]

Heap(F, N, n, k) == HeapBy("lib", F, N, n, k)

Release(F) == Heap(F, {}, 0, NoShape)

(* The pointer pairs a caller can pass to NDArray(buffer, shapeInfo) or to *)
(* replacePointers: nullptr, or a live buffer large enough for a live      *)
(* shape (its own, or one it obtained with getBuff()/getShape()).          *)
Pointers ==
  {<<Null, Null>>} \cup
  {p \in BufBlocks \X ShpBlocks :
     Live(p[1]) /\ Live(p[2]) /\ size[p[1]] >= Len(info[p[2]])}

(* Caller contract: an owner is only released while no other live object  *)
(* views its memory.                                                       *)
Releasable(a) ==
  \A o \in Arrays \ {a} : arr[o].alive => RefBy(o) \cap RefBy(a) = {}

-----------------------------------------------------------------------------
(* Constructors.                                                           *)

(* NDArray(T *buffer, int *shapeInfo): a borrowed view, _allocated=false. *)
NDArrayBorrowed(a) ==
  /\ ~arr[a].alive
  /\ \E p \in Pointers :
       arr' = [arr EXCEPT ![a] = [alive |-> TRUE, buf |-> p[1], shp |-> p[2],
                                  allocated |-> FALSE]]
  /\ UNCHANGED <<status, origin, size, info, faults, foreignShapeWrites>>

(* The object r becomes an owner of a new buffer bb of n elements and a   *)
(* new shapeInfo sb encoding k, after reading the blocks R and deleting    *)
(* the blocks F; X are faults the step makes after its deletes.           *)
Owns(r, F, bb, sb, n, k, R, X) ==
  /\ Allocatable(bb) /\ Allocatable(sb) /\ bb \notin F /\ sb \notin F
  /\ Heap(F, {bb, sb}, n, k)
  /\ arr' = [arr EXCEPT ![r] = [alive |-> TRUE, buf |-> bb, shp |-> sb,
                                allocated |-> TRUE]]
  /\ faults' = faults \cup Touch(R) \cup FreeFaults(F) \cup X

(* Variant allocating one element more than the shape's length.          *)
NDArrayAllocOneMore(a) ==
  /\ ~arr[a].alive
  /\ \E k \in Shapes, bb \in BufBlocks, sb \in ShpBlocks :
       Owns(a, {}, bb, sb, Len(k) + 1, k, {}, {})
  /\ UNCHANGED foreignShapeWrites

(* NDArray(rows, columns, order), NDArray(length, order),                 *)
(* NDArray(order, {shape}) and NDArray(const int *shape): a zero-filled    *)
(* buffer of the shape's length and a shapeInfo, both owned.              *)
NDArrayAlloc(a) ==
  /\ ~arr[a].alive
  /\ \E k \in Shapes, bb \in BufBlocks, sb \in ShpBlocks :
       Owns(a, {}, bb, sb, Len(k), k, {}, {})
  /\ UNCHANGED foreignShapeWrites

(* NDArray(const NDArray<T>& other): deep copy of buffer and shapeInfo.   *)
NDArrayCopy(a, o) ==
  /\ ~arr[a].alive /\ arr[o].alive /\ nonNull(o)
  /\ \E bb \in BufBlocks, sb \in ShpBlocks :
       Owns(a, {}, bb, sb, lengthOf(o), info[arr[o].shp], RefBy(o), {})
  /\ UNCHANGED foreignShapeWrites

-----------------------------------------------------------------------------
(* Assignment and pointer replacement.                                     *)

(* operator=(other).  When the shapes are strictly equal the elements are *)
(* copied in place.  Otherwise the old storage is deleted when owned, and  *)
(* a new buffer of other's length is filled with lengthOf() elements:      *)
(* lengthOf() reads _shapeInfo, which at that point is the old, possibly   *)
(* already deleted, shape.                                                 *)
LengthAfterDelete(F) == IF F # {} THEN {"use_after_free"} ELSE {}

OperatorAssign(a, o) ==
  /\ a # o /\ arr[a].alive /\ arr[o].alive /\ nonNull(a) /\ nonNull(o)
  /\ IF info[arr[a].shp] = info[arr[o].shp]
       THEN /\ faults' = faults \cup Touch(RefBy(a) \cup RefBy(o))
            /\ UNCHANGED <<status, origin, size, info, arr>>
       ELSE LET F == IF arr[a].allocated THEN RefBy(a) ELSE {} IN
            /\ F # {} => Releasable(a)
            /\ \E bb \in BufBlocks, sb \in ShpBlocks :
                 Owns(a, F, bb, sb, lengthOf(o), info[arr[o].shp], RefBy(o),
                      LengthAfterDelete(F))
  /\ UNCHANGED foreignShapeWrites

(* The pointers of a become p after the blocks F were deleted; the blocks *)
(* Kept stay allocated and are now the caller's to release.                *)
SwapPointers(a, p, F, Kept) ==
  /\ status' = [b \in Blocks |-> IF b \in F THEN "free" ELSE status[b]]
  /\ origin' = [b \in Blocks |-> IF b \in Kept THEN "caller"
                                 ELSE IF b \in F THEN "lib" ELSE origin[b]]
  /\ size' = [b \in BufBlocks |-> IF b \in F THEN 0 ELSE size[b]]
  /\ info' = [b \in ShpBlocks |-> IF b \in F THEN NoShape ELSE info[b]]
  /\ arr' = [arr EXCEPT ![a] = [alive |-> TRUE, buf |-> p[1], shp |-> p[2],
                                allocated |-> FALSE]]
  /\ faults' = faults \cup FreeFaults(F)
  /\ UNCHANGED foreignShapeWrites

(* Caller contract for replacePointers: what is released is not viewed by *)
(* another array, and (unless SelfReplace) the pointers passed in are not  *)
(* the very ones being released.                                           *)
ReplaceAllowed(a, p, F) ==
  /\ F # {} => Releasable(a)
  /\ ~SelfReplace => {p[1], p[2]} \cap F = {}

(* Variant deleting on releaseExisting whether or not the array owns its  *)
(* storage (the _allocated test dropped).                                  *)
ReplacePointersIgnoringOwnership(a, p, release) ==
  LET F == IF release THEN RefBy(a) ELSE {}
      Kept == IF arr[a].allocated /\ ~release THEN RefBy(a) ELSE {}
  IN ReplaceAllowed(a, p, F) /\ SwapPointers(a, p, F, Kept)

(* Variant deleting the old storage but not installing the new pointers.  *)
ReplacePointersKeepingOld(a, p, release) ==
  LET F == IF arr[a].allocated /\ release THEN RefBy(a) ELSE {}
      Kept == IF arr[a].allocated /\ ~release THEN RefBy(a) ELSE {}
  IN ReplaceAllowed(a, p, F) /\ SwapPointers(a, <<arr[a].buf, arr[a].shp>>, F, Kept)

(* a->replacePointers(p[1], p[2], release): deletes the owned storage if   *)
(* releaseExisting, installs the new pointers, and the array no longer     *)
(* owns anything.  Storage not released becomes the caller's.              *)
ReplacePointers(a, p, release) ==
  LET F == IF arr[a].allocated /\ release THEN RefBy(a) ELSE {}
      Kept == IF arr[a].allocated /\ ~release THEN RefBy(a) ELSE {}
  IN ReplaceAllowed(a, p, F) /\ SwapPointers(a, p, F, Kept)

(* A caller's call of replacePointers on a, with any pointers it holds.    *)
replacePointers(a) ==
  /\ arr[a].alive
  /\ \E p \in Pointers, release \in BOOLEAN : ReplacePointers(a, p, release)

-----------------------------------------------------------------------------
(* Operations returning a new owning array r.                              *)

(* Variant of dup leaving result->_allocated false.                        *)
dupNotOwning(a, r) ==
  /\ arr[a].alive /\ nonNull(a) /\ ~arr[r].alive
  /\ \E bb \in BufBlocks, sb \in ShpBlocks, ord \in {"c", "f"} :
       /\ Allocatable(bb) /\ Allocatable(sb)
       /\ Heap({}, {bb, sb}, lengthOf(a), [info[arr[a].shp] EXCEPT !.ord = ord])
       /\ arr' = [arr EXCEPT ![r] = [alive |-> TRUE, buf |-> bb, shp |-> sb,
                                     allocated |-> FALSE]]
       /\ faults' = faults \cup Touch(RefBy(a))
  /\ UNCHANGED foreignShapeWrites

(* dup(newOrder): new buffer and a fresh shapeInfo of the same extents in  *)
(* newOrder, result->_allocated = true, then result->assign(this).         *)
dup(a, r) ==
  /\ arr[a].alive /\ nonNull(a) /\ ~arr[r].alive
  /\ \E bb \in BufBlocks, sb \in ShpBlocks, ord \in {"c", "f"} :
       Owns(r, {}, bb, sb, lengthOf(a), [info[arr[a].shp] EXCEPT !.ord = ord],
            RefBy(a), {})
  /\ UNCHANGED foreignShapeWrites

(* shape::doPermuteShapeBuffer with the reversed axes: extents swapped,    *)
(* and the order of the permuted strides is the other one.                 *)
Transposed(k) ==
  [rows |-> k.cols, cols |-> k.rows, ord |-> IF k.ord = "c" THEN "f" ELSE "c"]

(* transpose(): copies the shapeInfo and permutes the copy, copies the     *)
(* buffer unchanged; the result owns both.                                 *)
transpose(a, r) ==
  /\ arr[a].alive /\ nonNull(a) /\ ~arr[r].alive
  /\ \E bb \in BufBlocks, sb \in ShpBlocks :
       Owns(r, {}, bb, sb, lengthOf(a), Transposed(info[arr[a].shp]), RefBy(a), {})
  /\ UNCHANGED foreignShapeWrites

(* reduceAlongDimension({d}): a TAD over the dimension, and a new owned    *)
(* 1 x numTads 'c' row for the result (the TAD and dims are freed again).  *)
reduceAlongDimension(a, r) ==
  /\ arr[a].alive /\ nonNull(a) /\ ~arr[r].alive
  /\ \E d \in {0, 1}, bb \in BufBlocks, sb \in ShpBlocks :
       LET k == info[arr[a].shp]
           numTads == IF d = 0 THEN k.cols ELSE k.rows
       IN Owns(r, {}, bb, sb, numTads,
               [rows |-> 1, cols |-> numTads, ord |-> "c"], RefBy(a), {})
  /\ UNCHANGED foreignShapeWrites

(* doPermuteShapeBuffer on the array's own _shapeInfo.                    *)
PermuteInPlace(a) ==
  /\ info' = [info EXCEPT ![arr[a].shp] = Transposed(info[arr[a].shp])]
  /\ faults' = faults \cup Touch(RefBy(a))
  /\ foreignShapeWrites' = foreignShapeWrites \cup
       (IF arr[a].allocated THEN {} ELSE {arr[a].shp})
  /\ UNCHANGED <<status, origin, size, arr>>

(* Variant of transposei without the detach of a borrowed array.          *)
transposeiWithoutDetach(a) ==
  /\ arr[a].alive /\ nonNull(a)
  /\ PermuteInPlace(a)

(* Variant of transposei detaching into one element more than the length. *)
transposeiAllocOneMore(a) ==
  /\ arr[a].alive /\ nonNull(a)
  /\ IF ~arr[a].allocated
       THEN /\ \E bb \in BufBlocks, sb \in ShpBlocks :
                 LET k == info[arr[a].shp] IN
                 Owns(a, {}, bb, sb, Len(k) + 1, Transposed(k), RefBy(a), {})
            /\ UNCHANGED foreignShapeWrites
       ELSE PermuteInPlace(a)

(* transposei(): a borrowed array is first detached (buffer and shapeInfo *)
(* copied into owned storage, the caller's left alone); then the           *)
(* shapeInfo is permuted in place.                                         *)
transposei(a) ==
  /\ arr[a].alive /\ nonNull(a)
  /\ IF ~arr[a].allocated
       THEN /\ \E bb \in BufBlocks, sb \in ShpBlocks :
                 LET k == info[arr[a].shp] IN
                 Owns(a, {}, bb, sb, Len(k), Transposed(k), RefBy(a), {})
            /\ UNCHANGED foreignShapeWrites
       ELSE PermuteInPlace(a)

(* ~NDArray(): deletes buffer and shapeInfo when owned.                    *)
Destroy(a) ==
  /\ arr[a].alive
  /\ LET F == IF arr[a].allocated THEN RefBy(a) ELSE {} IN
     /\ F # {} => Releasable(a)
     /\ Release(F)
     /\ faults' = faults \cup FreeFaults(F)
  /\ arr' = [arr EXCEPT ![a] = NoArray]
  /\ UNCHANGED foreignShapeWrites

-----------------------------------------------------------------------------

(* The caller's memory is allocated before any array exists and outlives *)
(* every array viewing it; the rest of the heap is free.                   *)
CallerMem == CallerBufs \cup CallerShps

Init ==
  /\ status = [b \in Blocks |-> IF b \in CallerMem THEN "live" ELSE "free"]
  /\ origin = [b \in Blocks |-> IF b \in CallerMem THEN "caller" ELSE "lib"]
  /\ size \in [BufBlocks -> {0} \cup {Len(k) : k \in Shapes}]
  /\ \A b \in BufBlocks : size[b] = 0 <=> b \notin CallerBufs
  /\ info \in [ShpBlocks -> Shapes]
  /\ \A b \in ShpBlocks \ CallerShps : info[b] = NoShape
  /\ arr = [a \in Arrays |-> NoArray]
  /\ faults = {}
  /\ foreignShapeWrites = {}

(* Every library operation but operator=.                                  *)
LibNext ==
  \E a \in Arrays :
    \/ NDArrayBorrowed(a)
    \/ NDArrayAlloc(a)
    \/ replacePointers(a)
    \/ transposei(a)
    \/ Destroy(a)
    \/ \E o \in Arrays :
         \/ NDArrayCopy(a, o)
         \/ dup(o, a)
         \/ transpose(o, a)
         \/ reduceAlongDimension(o, a)

Next ==
  \/ LibNext
  \/ \E a, o \in Arrays : OperatorAssign(a, o)

NextWithoutOperatorAssign == LibNext

(* operator= as callers use it apart from its reallocating branch on an   *)
(* owner: between equal shapes, or into an array that owns nothing.        *)
NextWithoutReallocatingAssign ==
  \/ LibNext
  \/ \E a, o \in Arrays :
       /\ arr[a].allocated /\ nonNull(o) => info[arr[a].shp] = info[arr[o].shp]
       /\ OperatorAssign(a, o)

Spec == Init /\ [][Next]_vars

SpecWithoutOperatorAssign == Init /\ [][NextWithoutOperatorAssign]_vars

SpecWithoutReallocatingAssign == Init /\ [][NextWithoutReallocatingAssign]_vars

-----------------------------------------------------------------------------
(* Properties.                                                             *)

(* The library never deletes a block twice, nor a block the caller         *)
(* allocated: ~NDArray, replacePointers and operator= free only what the   *)
(* array's _allocated flag says it owns.                                   *)
NoBadFree == faults \cap {"double_free", "foreign_free"} = {}

(* No library operation reads or writes a block after it was deleted,      *)
(* however the caller interleaves constructors, replacePointers, copies    *)
(* and destructors of arrays that view each other's memory.               *)
NoUseAfterFree == "use_after_free" \notin faults

(* Every block the library allocated and has not freed is owned by a live *)
(* array (or was handed to the caller by replacePointers(.., false)):      *)
(* dup, transpose, transposei, the copy constructor and operator= set      *)
(* _allocated on what they allocate, and whatever they drop they delete.   *)
NoLeak ==
  \A b \in Blocks :
    (status[b] = "live" /\ origin[b] = "lib") =>
      \E a \in Arrays : arr[a].alive /\ arr[a].allocated /\ b \in RefBy(a)

(* An in-place transpose never rewrites a shapeInfo the array does not own *)
(* (a borrowed view's caller keeps its shape).                             *)
NoForeignShapeWrite == foreignShapeWrites = {}

=============================================================================
