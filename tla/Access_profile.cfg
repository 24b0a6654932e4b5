\* Two users, the first an administrator, and one team.
SPECIFICATION Spec
CONSTANTS
  Users = {u1, u2}
  Creator = u1
  Teams = {t1}
  NoRole = NoRole
  MaxRules = 0
  MaxChanges = 4
INVARIANTS
  ProfileCountsVisible
CHECK_DEADLOCK FALSE
