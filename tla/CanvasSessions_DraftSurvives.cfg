SPECIFICATION Spec
CONSTANTS
  Tabs = {t1, t2}
  Edges = {e1}
  Nothing = nothing
  Compilers = {}
  MayFail = FALSE
  MaxRevision = 1
PROPERTY DraftSurvives
