CONSTANTS
  a1 = a1
  a2 = a2
  Arrays <- MCArrays
  Extents <- MCExtents
  MaxVal = 1
  Op <- MCOp
  BpOp <- MCBpOp
  MaxCap = 4
  ExtraViews <- MCNoViews
  NegIndex = FALSE
  RowMismatch = FALSE
SPECIFICATION Spec
INVARIANT TypeOK NoOutOfBounds
PROPERTY ImplementsLogicalArrays
VIEW StateView
