SPECIFICATION FairSpec
CONSTANTS
  r1 = r1
  r2 = r2
  p1 = p1
  p2 = p2
  b1 = b1
  b2 = b2
  c1 = c1
  c2 = c2
  c3 = c3
  h1 = h1
  h2 = h2
  h3 = h3
  Sentinel = Sentinel
  TotalWorkers = 1
  Repos = {r1}
  PRs = {p1, p2}
  Bots = {b1, b2}
  KnownBots = {b1}
  Combos <- LiveCombos
  RepoOf <- LiveRepoOf
  Hash <- LiveHash
  Options <- LiveOptions
  Limit = 3
  Backfilled <- LiveBackfilled
  Fate <- LiveFate
  Recovers = TRUE
  GonePRs = {}
  NoReactions = {p2}
  Threads <- LiveThreads
  ManyThreads = {p1}
  FirstPage <- LiveFirstPage
  Hoorays <- OneHoorays
  ManyHoorays = {}
  FirstTwenty <- OneHoorays
  ExactLogin = {h1, h2}
  Misleading = FALSE
  BatchMax = 2
  BatchMin = 1
  RecoveryThreshold = 1
PROPERTIES LeftoversGetDone RunsEnd
