# TLA+ models of libnd4j's NDArray and native layer helpers

This directory holds TLA+ models of the C++ sources under `src/`, the TLC
configurations that check them, and `PROJECT.json`. `PROJECT.json` maps every
definition to the source lines it models. It also lists the runs, mutants,
findings and hazards.

## The system

The repository is a small slice of libnd4j.

- **`NDArray<T>`** (`src/blas/NDArray.h`, `src/blas/cpu/NDArray.cpp`) is an
  n-dimensional array. It holds two heap pointers: `_buffer` (the elements)
  and `_shapeInfo` (rank, shape, strides, element-wise stride `ews`, order).
  It also holds the flag `_allocated`, which says whether the array owns both
  pointers.
  - Constructors either allocate or borrow a caller's pointers.
  - `operator=`, `replacePointers`, `transposei` and the destructor free what
    the array owns.
  - `dup`, `transpose` and `reduceAlongDimension` return new heap arrays.
  - Element access goes through `shape::getOffset` or through the raw buffer.
  - Whole-array work goes to `NativeOpExcutioner`.
- **`shape.h`, `TadDecomposer`, `NativeOpExcutioner` and `nd4j::blas::GEMM`**
  are not in this repository. They are modelled from `spec.md`, from the call
  sites, and from the BLAS contract. Their map entries are marked
  `spec_modelled`.
- **`INativeLayer<T>`** (`src/include/layers/layers.h`) is the base of the
  native layers. It has:
  - setters that take over a caller's arrays through `replacePointers`;
  - `configureLayerFF/BP`, which validate and install the inputs;
  - `gemmHelper`, which computes C = αAB + βC for arrays of either order
    through `dup('f')` and GEMM.
- **`ActivationsExecutioner`** (`src/include/layers/generic`) holds the
  element loops of activations: `executeFF`/`executeBP` walk
  `input->lengthOf()` buffer cells.
- **The declarable ops** (`src/include/ops/declarable/generic`) are
  `fused_batch_norm`, `tile_to_shape`, `extract_image_patches` and
  `hardtanh`. Their headers only declare ops through macros.

### How the parts interact

- A layer or an op (the caller) hands buffers to NDArrays. It either lends
  them (borrowed views) or transfers them (`replacePointers`).
- NDArrays share `_shapeInfo` and `_buffer` blocks with each other, through
  views made by `NDArray(getBuff(), getShapeInfo())`.
- `gemmHelper` wraps the raw buffers of A, B and C in borrowed NDArrays. It
  dups them and writes the result back through `assign`.
- `fused_batch_norm` reshapes its input with `assign`, a memcpy when the
  orders agree, and computes per-column statistics of the result.

The hazards therefore come from four sources:
- which object frees which block, and when;
- what a strided (non-standard) view's buffer looks like to operations that
  assume the standard layout;
- the order and strides handed to GEMM;
- how an op derives extents and groupings from a shapeInfo.

## Modules

| module | models | state | actions |
|---|---|---|---|
| `NDArrayMemory` | NDArray ownership and lifetime | `status`, `origin`, `size`, `info` of heap blocks; `arr[a] = [alive, buf, shp, allocated]`; history: `faults`, `foreignShapeWrites` | `NDArrayBorrowed`, `NDArrayAlloc`, `NDArrayCopy`, `OperatorAssign`, `replacePointers`, `dup`, `transpose`, `reduceAlongDimension`, `transposei`, `Destroy` (each its whole member function, including the `delete`s it makes) |
| `LogicalArrays` | what an NDArray promises: matrices with an order, no buffers | `val[a]`, `call` | one action per public operation |
| `NDArrayLayout` | element layout: buffers, capacity, strides, `ews` | `mem`, `cap`, `shp`, `own`; history `oob`; `call` | constructors, `putScalar` (linear and 2-D), `assign` (value, array), `operator=`, `applyTransform`, `addiRowVector`, `dup`, `transpose`, `transposei`, destructor |
| `NativeLayer` | `INativeLayer` configuration, composed with `NDArrayMemory` | the memory model's variables; `layer`; `pc` (the steps left of a call); `rng`, `pDropOut`, `pDropConnect`, `dropOut`, `dropConnect` | `INativeLayer`, `DestroyLayer`, `SetMember` (the ten setters), `setParameters`, `setInput`, `setOutput`, `configureLayerBP`, `configureLayerFF`, `Step` (one `replacePointers` or validator call of the call in progress), the dropout/rng setters, and `CallerOps` (NDArray calls on members through the getters) |
| `DeclarableOps` | `fused_batch_norm` and the shape function of `extract_image_patches` | `call` (op and arguments), `status`, `out` | one action per op, one call per behaviour |
| `GemmHelper` | `INativeLayer::gemmHelper` | `A`, `B`, `C`, `alpha`, `beta`; history `C0`, `oob`; `done` | `gemmHelper` (one call) |

### `NDArrayMemory`

- Element values are abstracted away.
- A buffer block keeps its capacity, and a shape block keeps the shape it
  encodes (rank 2, order `c` or `f`).
- The caller owns blocks of its own (`CallerBufs`, `CallerShps`). It keeps the
  documented contract: nothing another live array views is released. This is
  the guard `Releasable`.
- With `SelfReplace`, the caller may hand an array its own pointers back.
- `NextWithoutReallocatingAssign` keeps `operator=` except its reallocating
  branch on an owner, the bug `memory_opassign` shows. This lets every other
  operation be checked for use-after-free.
- `NextWithoutOperatorAssign` leaves out `operator=` entirely. It is used to
  isolate the self-replacement bug.

### `NDArrayLayout`

- Arrays are rank 2. The shape is a record of rows, cols, strides, `ews` and
  order.
- `mem[a]` is the buffer the array views. Views of the same caller buffer are
  separate copies of the contents, because the checks concern one array at a
  time.
- `cap[a]` is the buffer's capacity.
- Reads and writes outside `0..cap-1` set `oob`.
- `ExtraViews` adds caller views with non-standard strides. An example is a
  row of a 2x2 matrix: strides `<<2, 2>>`, or a sub-matrix.
- Each step of the refinement mapping `LogicalOf` reads an array's matrix
  through its strides. The mapping relates it to `LogicalArrays`. The
  variable `call` makes each concrete step match the abstract operation it
  performed.
- Reads and queries (`getScalar`, `isSameShape`, `operator==`/`equalsTo`,
  `sumNumber`, `meanNumber`) only set `call` to the value they return, which
  `LogicalArrays` says the matrices give. The rank-3 accessors throw on
  every array here, as `rankOf() != 3`.
- `EqualsTo` is `operator==` and `equalsTo` is `equalsTo(other, eps)`.
  Both compare extents (`shape::equalsSoft`), then count mismatching
  elements with Reduce3. Only `operator==` returns true at once for
  `other == this`. `equalsTo(a, a)` therefore still reads `a`'s buffer
  through its strides, and the `layout` run checks that read stays in
  bounds.
- `ReduceAlongDimension` is `sum({d})`, i.e. `reduceAlongDimension<Sum>`.
  `NumTads` and `TadOffset` are the TAD of spec.md 4.3 for one dimension of
  a matrix: slice `t` starts `t` strides of the other axis in and steps by
  the stride of `d`. The result is a new owning `1 x numTads` `c` row.
  `LogicalArrays` sums the matrix's rows or columns, so the refinement
  checks that the TAD walk reads the right cells for either order.
- `CreateFromShape` is `NDArray(const int*)`: it copies any shapeInfo the
  caller gives, strides included, over `shape::length` cells.
- `ExecuteFF`/`ExecuteBP` are `ActivationsExecutioner`'s loops. They write
  output cell `e` from input (and epsilon) cell `e`. Their callers pass
  arrays of the input's extents and order (`Like`). The abstract model maps
  the matrices element by element. `BpOp` stands for
  `Activation::bpActivation`.
- `VIEW StateView` leaves `call` out of the fingerprint. This is sound because
  no action reads `call`.

### `NativeLayer`

- `NativeLayer` instantiates `NDArrayMemory` (`Mem == INSTANCE NDArrayMemory`).
  The layer's members are arrays of that model.
- `Member` maps the member names a model follows to arrays. A member left
  out is only ever rebound onto caller memory, which frees nothing, so it is
  skipped. The MC module follows `_input` and `_output`.
- A call that rebinds several members (`setParameters`, `configureLayerFF`,
  ...) is a sequence of steps held in `pc`. Each step is one
  `replacePointers(.., true)` or one validator call. The caller waits while
  `pc` is not empty, because the calls are synchronous.
- Validators are pure virtual, so each one may return OK or an error. An
  error ends the call, as the code's early returns do.
- The caller contract of `NDArrayMemory` holds: a call does not release a
  member's memory while another array views it.
- The destructor (`DestroyLayer`) deletes every member at once. Its only
  guard is that no caller array views memory a member owns
  (`ViewedOnlyByMembers`): members that view each other are deleted
  together, and deleting a non-owning member touches no memory.
- A member comes to own memory when the caller runs `transposei` or
  `replacePointers` on it through a getter.

### `DeclarableOps`

- Element values are abstracted to the buffer cells they come from. A batch
  statistic is the set of cells of `x` it sums. An element of `y` is the
  column of `xAffected` whose mean, variance, scale and offset normalise it.
- `Column` is the reshape: `xAffected` has `x`'s order, so `assign` is a
  memcpy. Cell `n` lands in column `n % iD` (`c`) or `n / restSize` (`f`).
- `Channel` is the reference: the index of cell `n` along the channel axis.
- `fused_batch_norm` checks the `REQUIRE_TRUE`s, then takes the training or
  inference branch.
- A shapeInfo is the int array of `shape.h`: rank, extents, strides,
  offset, ews, order char. `sizeAt(info, d)` is `info[d + 2]` in TLA+'s
  1-based indexing. `PatchesShape` is the shape function line by line.
- A behaviour is one op call. The op keeps no state between calls, so the
  model stops after it (`CHECK_DEADLOCK FALSE`).

### `GemmHelper`

- Operands are records with extents, order and strides. A caller may pass
  a view whose leading stride is padded by one of `Pads(order)`, over a
  buffer of the cells it spans.
- `AssignBack` is `tC->assign(_C)` for a C not in `f`: the pairwise
  transform writes each element to C's own cell.
- `Operands` is the order selection and the `dup('f')` of `gemmHelper`.
- `LeadingDims` gives the leading dimensions.
- `GEMM` is the BLAS contract. Element (i, j) of an `f` matrix with leading
  dimension `ld` is cell `i + j*ld`. For a `c` matrix it is `i*ld + j`.
- `Reference` is the matrix product computed on the matrices.

## Runs

| run | expect | what it shows |
|---|---|---|
| `memory_ownership` | pass | `TypeOK`, `NoUseAfterFree`, `NoBadFree`, `NoLeak` and `NoForeignShapeWrite` hold under every interleaving of the ten operations on two arrays, a caller buffer and shapeInfo, and two library blocks of each kind. `operator=` is excluded only in its reallocating branch on an owner, which is the bug `memory_opassign` shows. |
| `layer` | pass | A layer's constructor, setters, configure calls and destructor, interleaved with a caller's work on `_input` and `_output` through the getters, leave nothing the library allocated unreachable: memory a member came to own is deleted when the member is rebound or the layer destroyed. The layer frees only through `replacePointers` and `~NDArray`, whose memory safety `memory_ownership` checks, so this run does not repeat those invariants. |
| `memory_opassign` | violation | `operator=` between owners of different shapes reads `lengthOf()` from the `_shapeInfo` it has just deleted (`NDArray.cpp:131`). |
| `layout` | pass | On standard layouts, every operation stays in bounds. The element model implements `LogicalArrays`, including sums along a dimension through the TAD offsets. |
| `layout_strided_dup` | violation | `dup()` of a strided view memcpy's physical cells. |
| `layout_strided_oob` | violation | `NDArray(const int*)` given a strided view's shapeInfo allocates `shape::length` cells but keeps the strides (`NDArray.cpp:83`); `transposei`, `transpose` and the copy constructor do the same with `lengthOf()` cells. |
| `layout_rowvector` | violation | `addiRowVector` with a row shorter than the column count reads past it. |
| `gemm` | pass | For all order triples except A `c` with B `f`, all operands of extents 1..2 with values 0..1, and row-major operands and results that are views with a padded leading stride, gemmHelper computes αAB+βC in bounds. |
| `ops` | pass | `fused_batch_norm` on NHWC inputs of either order, training or not, with every `REQUIRE_TRUE` outcome, normalises each element with its own channel's statistics and sums exactly one channel into each statistic. `extract_image_patches` calls, including zero strides that trap (`SIGFPE`), are enumerated; only `ops_patches` checks their shapes. |
| `ops_nchw` | violation | With NCHW, `fused_batch_norm` groups `x` by buffer position: for `x` = [1,2,1,2] `c`, column 0 sums cells {0,2} where channel 0 is {0,1} (`fusedBatchNorm.cpp:63`). |
| `ops_patches` | violation | `extract_image_patches`' shape function reads `sizeAt(in, inputRowsDim)`: an image of 2 rows and 1 column is said to give 1 output row, not 2 (`extract_image_patches.cpp:40`). |
| `gemm_mixed` | violation | A `c` with B `f`: both operands end up `f`, but GEMM is told `c` (`layers.h:346`). In the trace GEMM also reads and writes past a 2-cell buffer (`oob` TRUE). |

Each property of a passing run has a mutant in `PROJECT.json`: a plausible
bug in the mapped definition that TLC finds. Examples:
- a dropped ownership test in `replacePointers`;
- `dup` that does not set `_allocated`;
- `transposei` that does not detach a borrowed shapeInfo;
- an off-by-one in the length check of `putScalar`;
- `assign` by memcpy whatever the order;
- `gemmHelper` not dup'ing B;
- leading dimensions taken from column counts;
- `xAffected` built in `c` whatever `x`'s order, or a column index divided
  by the wrong extent.

### Reproducing further violations

The following violations have no run of their own. The constants that
produce them remain in the models:
- `SelfReplace = TRUE` in `MCNDArrayMemory_ownership.cfg`: `replacePointers`
  on an owner, given its own pointers, frees and keeps them
  (`NDArray.cpp:162`).
- `NegIndex = TRUE` in `MCNDArrayLayout.cfg`: `putScalar(-1)` and
  `getScalar(-1)` pass the `i >= length` check (`NDArray.cpp:425`).
- `ExtraViews <- MCStridedViews` in `MCNDArrayLayout.cfg` makes
  `ImplementsLogicalArrays` fail on strided views. One failure is
  `putScalar(i)`, which writes buffer cell `i` (a gap), not element `i`
  (`NDArray.cpp:427`).
- `MCPadRowMajor(o) == {0, 1}` in `MCGemmHelper.tla`: a column-major view
  with a padded column stride reaches GEMM with `ldc = cShape[0]`. TLC finds
  `GemmCorrect` violated for a 1 x 2 `f` C with column stride 2: GEMM
  writes the padding and leaves element (0, 1) stale (`layers.h:322`).

## Bounds

The bounds are chosen so that each interesting case actually occurs.

- **Two arrays** are enough for an owner with a view, an array and its copy,
  and `operator=` between two owners.
- **The layer model follows two members** (`_input`, `_output`) with no
  caller array. One member can view another (`setOutput(getInput())`) and own
  memory through a getter. Every call but `setParameters` and
  `configureLayerBP` rebinds one of them; those two still make their
  validator call. The dropout inputs are `{-1, 1}`: clamped to 0, or kept.
  There is one rng object.
- **Extents {1, 2}** make rows, columns, row vectors, column vectors and
  non-square matrices occur, and different lengths meet in `operator=` and
  `assign`.
- **Two library blocks of each kind** let `dup` and `transpose` allocate while
  an owner is alive. The one caller block of each kind makes borrowing
  possible.
- **`MaxVal = 1`** with `Op(x) = 1 - x` makes every write and transform
  visible.
- **`MaxCap` 4 or 5** is the largest buffer a 2x2 array or a strided view
  needs.
- **The ops** use extents {1, 2} in each of four dimensions. This is the
  smallest setting where an NCHW reshape mixes channels (`H*W` = 2,
  `iD` = 2) and a row count differs from a column count. Kernel sizes,
  strides and rates range over {1, 2}, and the `ops` run adds stride 0.
- **Padding 1** of the leading stride is the smallest that puts a gap
  between the rows (`c`) or columns (`f`) of a view. `gemm` uses alpha 2
  only: alpha 1 adds no case where a factor is dropped or applied twice.
- **Symmetry** is used only in `NDArrayMemory`, over the arrays and the
  library's blocks. These are compared only for equality there.

## Fairness and liveness

Every operation is a synchronous call that returns. The code has no threads,
callbacks or waits, so no step is owed to any actor. The models therefore state
safety and refinement only, with no fairness. `GemmHelper` and `DeclarableOps` model a
single call and stop after it, hence `CHECK_DEADLOCK FALSE` in their cfgs. The NDArray
models never deadlock, because the caller can always create or destroy an
array.

That every call returns needs no liveness property. In `NativeLayer` only
`Step` is enabled while a call is in progress (`pc` not empty), because the
caller waits. A call that could not finish would therefore be a deadlock,
and the `layer` run checks for deadlock.

## What is not modelled

- **`reduceNumber<OpName>` and reductions over several axes.** The first
  reads the same elements `sumNumber` does, with an op this repository does
  not define. Several axes need rank 3, where the unsorted axes that
  `reduceAlongDimension` passes to the TAD (`NDArray.cpp:266`) would
  matter. spec.md says the offsets are then wrong but not which they are,
  so that case cannot be modelled faithfully.
- **Allocation failure.** `new` never throws in the models. Two hazards are
  therefore listed but unchecked: `operator=` deleting before it allocates,
  and a constructor, `dup` or `transpose` leaking its new `_buffer` when
  the `new` of `_shapeInfo` throws.
- **`setBuff`/`setShape`.** They assign a `const` pointer to a non-`const`
  member, so they cannot be instantiated and no program calls them.
- **Code that is modelled although it does not compile as written.** Three
  pieces of code cannot be instantiated, but each has a single evident
  intent, so they are modelled by that intent:
  - `operator=` reads `other->_shapeInfo` through a reference
    (`NDArray.cpp:127-128`). The `memory_opassign` finding is about the
    logic of lines 122-131.
  - The ten `setX(NDArray*)` setters of `INativeLayer` call
    `other->getShapeInfo()`, which `NDArray.h` does not declare; it has
    `getShape()`.
  - The `NDArray*` overload of `gemmHelper` (`layers.h:267-269`) calls
    `getShapeInfo()` as well. The map therefore names only the raw-pointer
    overload (lines 271-377).

  `setBuff`/`setShape` are left out instead, because the type error is in
  what they do: they store a pointer to `const` in a non-`const` member.
  `operator=` into an empty array (null `_shapeInfo`) is not modelled:
  `shape::equalsStrict` dereferences the null pointer first.
- **`INativeLayer::setWorkspace`, `allocate`, `feedForward`,
  `backPropagate`.** The workspace bookkeeping is read by no code here. The
  others are pure virtual.
- **Whether a failed `configureLayerFF` is atomic.** It is not: a `BAD_RNG`
  return leaves `dropOut` set, and a `BAD_INPUT` return leaves `_input`
  rebound. The model reproduces this, but no comment or spec states a
  contract, so no property asserts it.
- **The special branches of `ActivationsExecutioner`** call `Activation`
  classes that are not in this repository. The loops are checked only on
  outputs of the input's extents and order. No caller here shows which pairs
  a layer passes. With mismatched pairs the loops transpose elements or
  write past a shorter output.
- **`tile_to_shape`, `hardtanh`**, and the arithmetic of `fused_batch_norm`.
  The kernels call `tileToShape`, `applyTransform<HardTanh>`,
  `applyPairwiseLambda` and `ShapeUtils`, none of which is in this
  repository. The model of `fused_batch_norm` is about which cells each
  value is computed from, not about `rsqrt` or the epsilon clamp.
- **The op headers** (`activations.h`, `boolean.h`, `tests.h`). They only
  declare ops through macros.

## Plan for later work

1. `NativeLayer` with a caller array next to the members, so that views of
   members held by the caller (and `dup`/`transpose` of members) are covered.
   This needs a faster encoding; the state space grows past 15 minutes.
2. `fused_batch_norm` on a borrowed strided `x`, reusing `NDArrayLayout`'s
   views.
3. Allocation failure as a fault model, for `operator=`'s delete before
   `new` and the constructors' second `new`.
4. A run of its own for column-major views reaching GEMM (see above).
