SPECIFICATION FairSpec
CONSTANTS
  i1 = i1
  i2 = i2
  c1 = c1
  c2 = c2
  Instances = {i1}
  Expected <- Same
  LockMaxRetries = 1
  Expires = TRUE
  Faults = TRUE
  WithCli = FALSE
  MaxAdrift = 1
  Stored = {}
  Written = {c2}
INVARIANTS DataKept NeverCountedTwice
PROPERTY Migrated
