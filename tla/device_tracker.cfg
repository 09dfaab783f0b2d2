SPECIFICATION Spec
CONSTANTS
  a = a
  b = b
  Devices <- MCDevices
  OfflineGraceTicks = 2
  PopulationWindow = 1
  GraceSleeps = 1
  FlapThreshold = 2
  SlowInterval = 15
  ArchiveOnBoot = TRUE
  MaxTick = 4
  MaxResets = 1
  MaxCrashes = 1
  MaxFaults = 1
SYMMETRY Symmetry
INVARIANT TypeOK
PROPERTIES
  ImplementsLifecycle
  OfflineOnlyWhenAbsent
  OfflineWithinGrace
CHECK_DEADLOCK FALSE
