CONSTANTS
  Extents = {1, 2}
  Orders = {"c", "f"}
  DataFormats = {0, 1}
  KSizes = {1, 2}
  KStrides = {0, 1, 2}
  KRates = {1, 2}
SPECIFICATION Spec
INVARIANT FBNPerChannel
CHECK_DEADLOCK FALSE
