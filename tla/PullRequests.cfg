\* One pull request, two requests at once, four revisions, one fault.
SPECIFICATION Spec
CONSTANTS
  Requests = {r1, r2}
  Branches = {b1}
  Trunk = Trunk
  Reviewers = {u1}
  Minimums = {0, 1}
  MaxPrs = 1
  MaxHead = 4
  MaxFaults = 1
SYMMETRY Symmetry
INVARIANTS
  MergedIsIn
  AppliedOnce
  ReviewedOnly
CHECK_DEADLOCK FALSE
