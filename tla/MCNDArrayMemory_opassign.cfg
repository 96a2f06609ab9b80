CONSTANTS
  a1 = a1  a2 = a2
  b1 = b1  b2 = b2  cb = cb
  s1 = s1  s2 = s2  cs = cs
  Null = Null
  Arrays <- MCArrays
  BufBlocks <- MCBufBlocks
  ShpBlocks <- MCShpBlocks
  Extents <- MCExtents
  SelfReplace = FALSE
  Shapes <- MCShapes
  CallerBufs <- MCCallerBufs
  CallerShps <- MCCallerShps
SYMMETRY MCSymmetry
SPECIFICATION Spec
INVARIANT NoUseAfterFree
