CONSTANTS
  Loaders = {l1, l2}
  Updaters = {}
  MaxLoads = 2
  MaxRuns = 0
SPECIFICATION Spec
PROPERTY SigintEnds
CHECK_DEADLOCK FALSE
