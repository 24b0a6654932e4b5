\* Does a pipeline that nothing disturbs get its verdict?  One pipeline of one job is enough.
SPECIFICATION FairSpec
CONSTANTS
  p1 = p1
  p2 = p2
  Pipelines = {p1}
  NoPipeline = NoPipeline
  RevisionOf <- MCRevisionOf
  Replies = {"empty"}
  NumJobs = 1
  MaxStalls = 1
  MaxFaults = 1
  MaxCancels = 1
PROPERTIES
  UndisturbedFinishes
CHECK_DEADLOCK FALSE
