\* Does the file follow the administrators of the database?  One request is enough.
SPECIFICATION Spec
CONSTANTS
  Callers = {boot, c1}
  Boot = boot
  Nobody = Nobody
  MaxChanges = 2
  MaxFaults = 0
INVARIANTS
  SameRulesAsTheWeb
CHECK_DEADLOCK FALSE
