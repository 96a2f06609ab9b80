CONSTANTS
  mIn = mIn  mOut = mOut
  b1 = b1  b2 = b2  cb = cb
  s1 = s1  s2 = s2  cs = cs
  r1 = r1
  Null = Null
  Arrays <- MCArrays
  Member <- MCMember
  BufBlocks <- MCBufBlocks
  ShpBlocks <- MCShpBlocks
  Extents <- MCExtents
  SelfReplace = FALSE
  Shapes <- MCShapes
  CallerBufs <- MCCallerBufs
  CallerShps <- MCCallerShps
  Rngs <- MCRngs
  PInputs <- MCPInputs
SYMMETRY MCSymmetry
SPECIFICATION SpecWithoutOperatorAssign
INVARIANT TypeOK LayerNoLeak
