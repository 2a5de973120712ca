SPECIFICATION FairSpec
CONSTANTS
  Tabs = {t1, t2}
  Edges = {e1}
  Nothing = nothing
  Compilers = {t2}
  MayFail = FALSE
  MaxRevision = 1
INVARIANT CompiledGraphNotOlder
PROPERTY TabsConverge
