\* Commits by one user, indexed by the hook; two branches or tags.
SPECIFICATION Spec
CONSTANTS
  Refs = {t, u}
  Tags = {t, u}
  Clients = {a}
  PageSize = 1
  MaxRev = 2
INVARIANTS
  IndexedAsCommitted
CHECK_DEADLOCK FALSE
