SPECIFICATION FairSpec
CONSTANTS
  r1 = r1
  old = old
  alias = alias
  new = new
  person = person
  Runs = {r1}
  LastDay = 63
  RunDays = {46, 60, 63}
  MonthStart <- StartOf
  MonthEnd <- EndOf
  SyncWeeks = 2
  Logins = {old, alias, new, person}
  BotOf <- Bots
  Suffixed = {old}
  Listed = {old}
  Added = {alias, new}
  Active <- Busy
  FetchRanges <- WholeWeeks
  FetchDefault = FALSE
  Manual = TRUE
  Faults = TRUE
INVARIANTS TypeOK CompletedIsWhole CountedOnce
PROPERTIES NoDayLost CountsSettle
