CONSTANTS
  PRs = {"p1", "p2"}
  Bots = {"b1", "b2"}
  Repos = {"r1", "r2"}
  RepoOf <- MCRepoOf
  ProductOf <- MCProductOf
  OldEvents <- MCOldEvents
  MaxWrites = 2
  MaxRows = 2
  OldUpkeep = 1
  NewUpkeep = 2
  CacheQueries = {"counts", "state"}
  Derived = {"stats"}
  Awaits <- MCAwaits
  TTL <- MCTTL
  Slow = 1
  Requests = {1, 2}
  Longest = 2
SPECIFICATION StatusSpec
INVARIANTS SummariesTellAll CharacteristicsComplete PendingIsReal AnswersAreRecent
CHECK_DEADLOCK FALSE
