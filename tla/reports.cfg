CONSTANTS
  Repositories <- MCRepositories
  PullRequests <- MCPullRequests
  Accounts <- MCAccounts
  Product <- MCProduct
  Copies <- MCCopies
  Stars <- MCStars
  Language <- MCLanguage
  Databases <- MCDatabases
  Lately = 1
  Window = 2
  Baseline = 3
  EnoughVotes = 6
  EnoughPRs = 2
  Histories <- MCHistories
  WeekNumbers <- MCWeekNumbers
  Retired = {}
  BotOf <- MCBotOf
  Ignored <- MCIgnored
  Busy = 1
  TopAccounts = 2
  MaxCandidates = 2
  Archives <- MCArchives
  LastDay = 13
  NoDate <- MCNoDate
  Epoch <- MCEpoch
  MaxAge = 14
  Intakes <- MCIntakes
SPECIFICATION ReportsSpec
INVARIANTS
  TotalsAgree ListsAgree NumbersAgree RangesBehave
  CountedForOne AlertsAreRight HealthAlarms
CHECK_DEADLOCK FALSE
