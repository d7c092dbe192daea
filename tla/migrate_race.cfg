SPECIFICATION Spec
CONSTANTS
  i1 = i1
  i2 = i2
  c1 = c1
  c2 = c2
  Instances = {i1, i2}
  Expected <- Rolling
  LockMaxRetries = 1
  Expires = TRUE
  Faults = FALSE
  WithCli = TRUE
  MaxAdrift = 1
  Stored = {}
  Written = {}
INVARIANTS TypeOK VersionIsHonest OkIsEarned
