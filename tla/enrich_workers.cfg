SPECIFICATION FleetRunSpec
CONSTANTS
  r1 = r1
  r2 = r2
  p1 = p1
  p2 = p2
  b1 = b1
  b2 = b2
  c1 = c1
  c2 = c2
  c3 = c3
  h1 = h1
  h2 = h2
  h3 = h3
  Sentinel = Sentinel
  TotalWorkers = 2
  Repos = {r1, r2}
  PRs = {p1, p2}
  Bots = {b1, b2}
  KnownBots = {b1}
  Combos <- TwoCombos
  RepoOf <- TwoRepoOf
  Hash <- OneHash
  Options <- TwoOptions
  Limit = 1
  Backfilled <- TwoCombos
  Fate <- TwoFate
  Recovers = FALSE
  GonePRs = {}
  NoReactions = {}
  Threads <- TwoThreads
  ManyThreads = {p1}
  FirstPage <- TwoFirstPage
  Hoorays <- TwoHoorays
  ManyHoorays = {}
  FirstTwenty <- TwoHoorays
  ExactLogin = {h1, h2}
  Misleading = FALSE
  BatchMax = 1
  BatchMin = 1
  RecoveryThreshold = 1
  MaxTokens = 3
  ProxyLists <- MCProxyLists
  ItemHashes = {6, 7, 8, 9}
  TaskTries = 2
  Releases = {"one", "two"}
  First = "one"
  Registry <- MCRegistry
  LoginsOf <- MCLoginsOf
  SchemaOf <- MCSchemaOf
  Pages = 1
  PageRetries = 1
  TaskRetries = 1
  Jobs <- MCJobs
  MaxDeploys = 3
INVARIANTS DisjointWork WorkIsDivided RolloutIsSound
PROPERTY KeepsLedger
CHECK_DEADLOCK FALSE
