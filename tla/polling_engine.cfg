SPECIFICATION Spec
CONSTANTS
  SlowInterval <- MCSlowInterval
  MaxTick <- MCMaxTick
  MaxRequests = 2
  MaxCrashes = 1
  Native = FALSE
  ArchiveOnBoot = TRUE
INVARIANTS
  TypeOK
  UnlockedAfterBothPhases
PROPERTIES
  LimitedRunEnds
  DeepScansRecur
