CONSTANTS
  Extents = {1, 2}
  Orders = {"c", "f"}
  DataFormats = {0}
  KSizes = {1, 2}
  KStrides = {1, 2}
  KRates = {1, 2}
SPECIFICATION Spec
INVARIANT PatchesShapeMatchesWindow
CHECK_DEADLOCK FALSE
