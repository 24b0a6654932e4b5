\* Is a terminal status final?  One pipeline and one cancel are enough.
SPECIFICATION Spec
CONSTANTS
  p1 = p1
  p2 = p2
  Pipelines = {p1}
  NoPipeline = NoPipeline
  RevisionOf <- MCRevisionOf
  Replies = {"empty"}
  NumJobs = 2
  MaxStalls = 1
  MaxFaults = 0
  MaxCancels = 1
PROPERTIES
  TerminalIsFinal
CHECK_DEADLOCK FALSE
