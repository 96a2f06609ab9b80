CONSTANTS
  Extents = {1, 2}
  Vals = {0, 1}
  Orders <- MCOrdersWithoutCF
  Alphas = {2}
  Betas = {0, 1}
  Pads <- MCPadRowMajor
SPECIFICATION Spec
INVARIANT GemmInBounds GemmCorrect
CHECK_DEADLOCK FALSE
