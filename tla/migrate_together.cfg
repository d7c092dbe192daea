SPECIFICATION Spec
CONSTANTS
  i1 = i1
  i2 = i2
  c1 = c1
  c2 = c2
  Instances = {i1, i2}
  Expected <- Same
  LockMaxRetries = 2
  Expires = FALSE
  Faults = FALSE
  WithCli = FALSE
  MaxAdrift = 1
  Stored = {c1}
  Written = {}
INVARIANT DataKept
