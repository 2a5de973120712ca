SPECIFICATION Spec
CONSTANTS
  Requests = {c1, c2}
  Nobody = nobody
  NoFile = nofile
  StoreMayFail = FALSE
  MaxRevision = 1
  MaxEdits = 1
  MaxCrashes = 0
PROPERTY FailureRestores
