SPECIFICATION Spec
CONSTANTS
  a = a
  b = b
  p = p
  q = q
  r = r
  Addresses <- MCAddresses
  Queries <- MCQueries
  RetryThreshold = 1
  RetryTicks = 1
  DeferTicks = 2
  MaxTick = 2
  MaxResets = 1
  MaxNodes = 1
  MaxAsking = 1
SYMMETRY Symmetry
INVARIANTS
  TypeOK
  CachedWasAnswered
PROPERTY KeptOnceFound
