--------------------------- MODULE DeclarableOps ---------------------------
(***************************************************************************)
(* Two declarable ops of src/include/ops/declarable/generic and what they  *)
(* compute from the shapeInfo of their input:                             *)
(*                                                                         *)
(*  - fused_batch_norm (nn/fusedBatchNorm.cpp): x is reshaped to           *)
(*    xAffected [restSize, iD] by assign (a memcpy, both arrays having     *)
(*    x's order); per-column sums give the batch mean and variance, and    *)
(*    y is xAffected normalised column by column, copied back into y.      *)
(*  - extract_image_patches (parity_ops/extract_image_patches.cpp): the    *)
(*    shape function giving the output's extents; the kernel only checks   *)
(*    the rank.                                                            *)
(*                                                                         *)
(* Element values are abstracted to the buffer cells they come from: a     *)
(* statistic is the set of cells of x it sums, an element of y is the      *)
(* column of xAffected whose statistics normalise it.  A shapeInfo is the  *)
(* int array shape.h builds: rank, extents, strides, offset, ews, order.   *)
(***************************************************************************)
EXTENDS Integers, Sequences, Functions

CONSTANTS
  Extents,      \* the extents a dimension of the input may have
  Orders,       \* memory orders of the input
  DataFormats,  \* INT_ARG(0) of fused_batch_norm: 0 NHWC, 1 NCHW
  KSizes,       \* ksizeRows, ksizeCols of extract_image_patches
  KStrides,     \* kstrideRows, kstrideCols
  KRates        \* krateRows, krateCols

ASSUME Extents \subseteq 1 .. 10 /\ KSizes \subseteq Nat \ {0} /\ KStrides \subseteq Nat

VARIABLES
  call,    \* the op called last and its arguments
  status,  \* the Status it returned
  out      \* its outputs

vars == <<call, status, out>>

Prod(d, S) == FoldFunctionOnSet(LAMBDA a, b : a * b, 1, d, S)

(* shape::shapeBuffer ('c') and shape::shapeBufferFortran ('f') of rank n. *)
Strides(d, o) ==
  [i \in 1 .. Len(d) |-> IF o = "c" THEN Prod(d, i + 1 .. Len(d)) ELSE Prod(d, 1 .. i - 1)]

ShapeInfo(d, o) ==
  <<Len(d)>> \o d \o Strides(d, o) \o <<0, 1, IF o = "c" THEN 99 ELSE 102>>

(* shape::sizeAt(info, dim): shape::shapeOf(info)[dim].                    *)
sizeAt(info, dim) == info[dim + 2]

(* Integer division of C: truncation towards zero.                         *)
CDiv(a, b) == IF a >= 0 THEN a \div b ELSE -((-a) \div b)

Shapes == [1 .. 4 -> Extents] \cup [1 .. 3 -> Extents]

(* The axis of x that holds the channels.                                  *)
ChannelAxis(df) == IF df = 1 THEN 2 ELSE 4

(* A variant building xAffected in 'c' whatever x's order.               *)
ColumnAlwaysC(o, iD, restSize, n) == n % iD

(* A variant dividing by the channel count in 'f'.                         *)
ColumnDivByChannels(o, iD, restSize, n) == IF o = "c" THEN n % iD ELSE n \div iD

(* xAffected(x->ordering(), {restSize, iD}); xAffected.assign(x) memcpy's  *)
(* x's buffer, so cell n of x lands in column n % iD ('c') or              *)
(* n \div restSize ('f') of xAffected; y->assign copies it back to cell n. *)
Column(o, iD, restSize, n) == IF o = "c" THEN n % iD ELSE n \div restSize

(* CUSTOM_OP_IMPL(fused_batch_norm): the REQUIRE_TRUEs on the ranks and    *)
(* extents of x, scale, offset and (when not training) mean and variance,  *)
(* or on block.width() == 3 when training, then the statistics and y.     *)
fused_batch_norm(d, o, df, isTraining, width, aux) ==
  LET iD == d[ChannelAxis(df)]
      cells == 0 .. Prod(d, DOMAIN d) - 1
      restSize == Prod(d, DOMAIN d) \div iD
      col(n) == Column(o, iD, restSize, n)
      summed == [j \in 0 .. iD - 1 |-> {n \in cells : col(n) = j}]
      valid == /\ Len(d) = 4
               /\ aux.scale = iD /\ aux.offset = iD
               /\ IF isTraining THEN width = 3 ELSE aux.mean = iD /\ aux.variance = iD
  IN /\ call' = [op |-> "fused_batch_norm", d |-> d, o |-> o, df |-> df,
                 training |-> isTraining]
     /\ status' = IF valid THEN "OK" ELSE "BAD"
     /\ out' = IF ~valid THEN [none |-> TRUE]
               ELSE [batchMean |-> IF isTraining THEN summed ELSE [j \in 0 .. iD - 1 |-> {}],
                     batchVar |-> IF isTraining THEN summed ELSE [j \in 0 .. iD - 1 |-> {}],
                     y |-> [n \in cells |-> col(n)]]

FusedBatchNorm ==
  \E d \in Shapes, o \in Orders, df \in DataFormats, isTraining \in BOOLEAN,
     width \in {3, 5}, aux \in [{"scale", "offset", "mean", "variance"} -> Extents] :
    fused_batch_norm(d, o, df, isTraining, width, aux)

(* DECLARE_SHAPE_FN(extract_image_patches), with k = <<ksizeRows,          *)
(* ksizeCols>>, s the strides, r the rates and same INT_ARG(6) != 0.       *)
PatchesShape(in, k, s, r, same) ==
  LET eff(i) == k[i] + (k[i] - 1) * (r[i] - 1)
      inputRowsDim == sizeAt(in, 1)
      inputColsDim == sizeAt(in, 2)
      inSize == <<sizeAt(in, inputRowsDim), sizeAt(in, inputColsDim)>>
      outSize(i) == IF same THEN CDiv(inSize[i] + s[i] - 1, s[i])
                    ELSE CDiv(inSize[i] - eff(i) + s[i], s[i])
  IN <<sizeAt(in, 0), outSize(1), outSize(2), sizeAt(in, 3) * k[1] * k[2]>>

(* The call with both strides positive returns OK (the kernel checks only  *)
(* the rank, which is 4); with a zero stride the division traps.           *)
ExtractImagePatches ==
  \E d \in [1 .. 4 -> Extents], o \in Orders, k \in KSizes \X KSizes,
     s \in KStrides \X KStrides, r \in KRates \X KRates, same \in BOOLEAN :
    /\ call' = [op |-> "extract_image_patches", d |-> d, o |-> o,
                k |-> k, s |-> s, r |-> r, same |-> same]
    /\ IF s[1] > 0 /\ s[2] > 0
         THEN /\ status' = "OK"
              /\ out' = [shape |-> PatchesShape(ShapeInfo(d, o), k, s, r, same)]
         ELSE /\ status' = "SIGFPE"
              /\ out' = [none |-> TRUE]

Init ==
  /\ call = [op |-> "none"]
  /\ status = "OK"
  /\ out = [none |-> TRUE]

(* One op call per behaviour: an op is a function of its inputs and keeps  *)
(* no state between calls.                                                 *)
Next == call.op = "none" /\ (FusedBatchNorm \/ ExtractImagePatches)

Spec == Init /\ [][Next]_vars

-----------------------------------------------------------------------------
Ops == {"none", "fused_batch_norm", "extract_image_patches"}

TypeOK ==
  /\ call.op \in Ops
  /\ status \in {"OK", "BAD", "SIGFPE"}
  /\ call.op = "fused_batch_norm" /\ status = "OK" =>
       /\ DOMAIN out.y = 0 .. Prod(call.d, 1 .. 4) - 1
       /\ \A n \in DOMAIN out.y : out.y[n] \in 0 .. call.d[ChannelAxis(call.df)] - 1

(* The channel of cell n of x: its index along the channel axis under the  *)
(* strides of x's order.                                                   *)
Channel(d, o, df, n) ==
  (n \div Strides(d, o)[ChannelAxis(df)]) % d[ChannelAxis(df)]

(* fused_batch_norm is per channel: when it returns OK, every element of y *)
(* is normalised with the mean, variance, scale and offset of its own      *)
(* channel, and in training batchMean and batchVar of channel j sum        *)
(* exactly the elements of channel j.  This is about the reshape of x into *)
(* xAffected by memcpy, for each data format and memory order.            *)
FBNPerChannel ==
  call.op = "fused_batch_norm" /\ status = "OK" =>
    LET ch(n) == Channel(call.d, call.o, call.df, n) IN
    /\ \A n \in DOMAIN out.y : out.y[n] = ch(n)
    /\ call.training =>
         \A j \in DOMAIN out.batchMean :
           out.batchMean[j] = {n \in DOMAIN out.y : ch(n) = j} /\ out.batchVar[j] = out.batchMean[j]

(* extract_image_patches' output extents are those of                      *)
(* GetWindowedOutputSizeVerboseV2, quoted in the op's source: a stride     *)
(* <= 0 is an invalid argument, VALID gives (in - effective + stride) /    *)
(* stride rows and SAME (in + stride - 1) / stride, over the image's own   *)
(* rows and columns; the depth is depth * ksizeRows * ksizeCols.           *)
PatchesShapeMatchesWindow ==
  call.op = "extract_image_patches" =>
    LET d == call.d  k == call.k  s == call.s
        eff(i) == k[i] + (k[i] - 1) * (call.r[i] - 1)
        window(in, i) == IF call.same THEN CDiv(in + s[i] - 1, s[i])
                         ELSE CDiv(in - eff(i) + s[i], s[i])
    IN IF s[1] > 0 /\ s[2] > 0
         THEN status = "OK" /\ out.shape = <<d[1], window(d[2], 1), window(d[3], 2), d[4] * k[1] * k[2]>>
         ELSE status = "BAD"

=============================================================================
