\* Is a MERGED pull request merged?  The branch may be deleted meanwhile.
SPECIFICATION Spec
CONSTANTS
  Requests = {r1, r2}
  Branches = {b1}
  Trunk = Trunk
  Reviewers = {u1}
  Minimums = {1}
  MaxPrs = 1
  MaxHead = 3
  MaxFaults = 0
INVARIANTS
  MergedMeansMerged
CHECK_DEADLOCK FALSE
