SPECIFICATION PlatformSpec
CONSTANTS
  Clients = {c1, c2}
  Users = {Alice, Bob}
  Creator = Alice
  NoRole = NoOne
  MaxAttempts = 2
  MaxNumber = 2
  MaxUploads = 2
  Repos = {x, y}
  Smtp = TRUE
  Things = {x, y}
  Alice = Alice
  Bob = Bob
  NoOne = NoOne
  p1 = p1
  p2 = p2
  Names = {t, b, g, m, ci}
  Blank = Blank
  SVN_TRUNK = t
  SVN_BRANCHES = b
  SVN_TAGS = g
  DEFAULT_BRANCH_UI = m
  ConfigFile = ci
  NoRoot = NoRoot
  MaxIds = 3
  MaxFaults = 1
  Text <- MCText
  PageSize = 1
  MaxRev = 4
  Page = 2
  Batch = 2
  ProfileTake = 2
  WeekDays = 3
  MonthStart <- MCMonthStart
  FirstDay = 10
  LastDay = 13
  Weeks = 2
  Months = 2
  Span = 4
  Grid = 2
SYMMETRY Symmetry
INVARIANTS
  RowHasDirectory
  QuietIsWhole
  NoLostUpdate
  DeactivationCloses
  QueriesAgree
  
  NumbersDense
  AsAskedUnlessRaced
  NothingDropped
  LatestBackupKept
  VerifyingIsUnderWay
  SessionKept
  
  NoPressLost
  GreenCheckEarned
  LogWhole
  ReadersConsistent
  FeedsTruthful
  TotalsWhole
  OutcomeTrue
  PictureCurrent
CHECK_DEADLOCK FALSE
