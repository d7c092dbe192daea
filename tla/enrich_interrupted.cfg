SPECIFICATION Spec
CONSTANTS
  r1 = r1
  r2 = r2
  p1 = p1
  p2 = p2
  b1 = b1
  b2 = b2
  c1 = c1
  c2 = c2
  c3 = c3
  h1 = h1
  h2 = h2
  h3 = h3
  Sentinel = Sentinel
  TotalWorkers = 1
  Repos = {r1}
  PRs = {p1}
  Bots = {b1, b2}
  KnownBots = {b1}
  Combos <- BusyCombos
  RepoOf <- BusyRepoOf
  Hash <- LiveHash
  Options <- BusyOptions
  Limit = 3
  Backfilled <- BusyCombos
  Fate <- BusyFate
  Recovers = FALSE
  GonePRs = {}
  NoReactions = {}
  Threads <- BusyThreads
  ManyThreads = {}
  FirstPage <- BusyThreads
  Hoorays <- BusyHoorays
  ManyHoorays = {}
  FirstTwenty <- BusyHoorays
  ExactLogin = {h1, h2, h3}
  Misleading = FALSE
  BatchMax = 1
  BatchMin = 1
  RecoveryThreshold = 1
INVARIANT ScannedIsStored
