\* The startup and three requests, two operations, one fault: is every one answered?
SPECIFICATION FairSpec
CONSTANTS
  Callers = {boot, c1, c2, c3}
  Boot = boot
  Nobody = Nobody
  MaxChanges = 2
  MaxFaults = 1
PROPERTIES
  EveryOperationEnds
CHECK_DEADLOCK FALSE
