CONSTANTS
  a1 = a1
  a2 = a2
  Arrays <- MCArrays
  Extents <- MCExtents
  MaxVal = 1
  Op <- MCOp
  BpOp <- MCBpOp
  MaxCap = 5
  ExtraViews <- MCStridedViews
  NegIndex = FALSE
  RowMismatch = FALSE
SPECIFICATION Spec
VIEW StateView
PROPERTY DupPreservesContents
