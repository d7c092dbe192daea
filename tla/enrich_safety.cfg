SPECIFICATION Spec
CONSTANTS
  r1 = r1
  r2 = r2
  p1 = p1
  p2 = p2
  b1 = b1
  b2 = b2
  c1 = c1
  c2 = c2
  c3 = c3
  h1 = h1
  h2 = h2
  h3 = h3
  Sentinel = Sentinel
  TotalWorkers = 1
  Repos = {r1, r2}
  PRs = {p1, p2}
  Bots = {b1, b2}
  KnownBots = {b1}
  Combos <- OneCombos
  RepoOf <- OneRepoOf
  Hash <- OneHash
  Options <- OneOptions
  Limit = 3
  Backfilled <- OneBackfilled
  Fate <- OneFate
  Recovers = FALSE
  GonePRs = {}
  NoReactions = {p2}
  Threads <- OneThreads
  ManyThreads = {p1}
  FirstPage <- OneFirstPage
  Hoorays <- OneHoorays
  ManyHoorays = {}
  FirstTwenty <- OneHoorays
  ExactLogin = {h1, h2}
  Misleading = FALSE
  BatchMax = 2
  BatchMin = 1
  RecoveryThreshold = 1
INVARIANTS TypeOK NoPartialComments AbsenceIsTrue
PROPERTY CombinedScanAfterReactions
