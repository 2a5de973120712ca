SPECIFICATION FairSpec
CONSTANTS
  Requests = {c1, c2}
  Nobody = nobody
  NoFile = nofile
  StoreMayFail = TRUE
  MaxRevision = 1
  MaxEdits = 1
  MaxCrashes = 1
INVARIANTS TypeOK ApplyInv AuditAgrees
PROPERTIES ReplacedIsBackedUp CustodyKept RequestsEnd
