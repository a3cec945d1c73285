SPECIFICATION Spec
CONSTANTS
  Conns = {k1, k2}
  TicksPerSecond = 3
  MaxLag = 1
  MaxFailures = 2
INVARIANTS TypeOK PreparedBeforeServing NeverKilledOnEcs
PROPERTIES CutOnlyAtLimit ServesUnlessStopped
CHECK_DEADLOCK FALSE
