\* One pipeline of three jobs, with two faults and two cancels.
SPECIFICATION FairSpec
CONSTANTS
  p1 = p1
  p2 = p2
  Pipelines = {p1}
  NoPipeline = NoPipeline
  RevisionOf <- MCRevisionOf
  Replies = {"empty", "read"}
  NumJobs = 3
  MaxStalls = 1
  MaxFaults = 2
  MaxCancels = 2
INVARIANTS
  VerdictEarned
  JobsInOrder
  CompletedOnce
  CancelHolds
PROPERTIES
  FinishedJobIsFinal
  RunConsumed
CHECK_DEADLOCK FALSE
