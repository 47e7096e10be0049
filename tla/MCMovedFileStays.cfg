CONSTANTS
  Branches = {a, b, c}
  Handles = {h1, h2}
  Blocks = {k1, k2}
  MaxInodes = 4
  MaxSpace = 2
  None = None
SYMMETRY Symmetry
SPECIFICATION Spec
INVARIANT MovedFileStays
