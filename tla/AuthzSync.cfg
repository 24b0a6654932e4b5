\* The startup and three requests, three operations, one fault: safety.
SPECIFICATION Spec
CONSTANTS
  Callers = {boot, c1, c2, c3}
  Boot = boot
  Nobody = Nobody
  MaxChanges = 3
  MaxFaults = 1
SYMMETRY Symmetry
INVARIANTS
  FileWhole
  AnswersHold
  InSyncWhenQuiet
  DanglingOnlyInFlight
PROPERTIES
  ImplementsLock
CHECK_DEADLOCK FALSE
