SPECIFICATION Spec
CONSTANTS
  Tabs = {t1, t2}
  Edges = {e1}
  Nothing = nothing
  Compilers = {}
  MayFail = TRUE
  MaxRevision = 2
INVARIANTS TypeOK CurrentETagMeansCurrentGraph
PROPERTY NoSilentOverwrite
SYMMETRY Symmetry
