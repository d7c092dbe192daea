CONSTANTS
  Workers <- MCWorkers
  Tokens <- MCTokens
  TokenOf <- MCTokenOf
  Budget = 3
  MinRemaining = 2
  MaxCost = 3
  Window = 2
  Timeout = 1
  MaxRetries = 2
  Backoffs <- MCBackoffs
  RetryAfter = 1
SPECIFICATION FairSpec
PROPERTIES RequestsEnd
INVARIANTS TypeOK KnowsEnough RefusalsAreUnheard
