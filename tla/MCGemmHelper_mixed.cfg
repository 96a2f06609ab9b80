CONSTANTS
  Extents = {1, 2}
  Vals = {0, 1}
  Orders <- MCAllOrders
  Alphas = {1, 2}
  Betas = {0, 1}
  Pads <- MCNoPad
SPECIFICATION Spec
INVARIANT GemmCorrect
CHECK_DEADLOCK FALSE
