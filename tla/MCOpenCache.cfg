CONSTANTS
  Threads = {t1, t2}
  Paths = {p, q}
  Branches = {a, b}
  NoBranch = NoBranch
  NoPath = NoPath
  Timeouts = {0, 1, 2}
  FirstSecond = 2
  LastSecond = 3
  Wrap = 64
SYMMETRY Symmetry
SPECIFICATION Spec
INVARIANTS TypeOK BoundedStaleness 
