CONSTANTS
  Loaders = {l1, l2}
  Updaters = {u1}
  MaxLoads = 2
  MaxRuns = 2
SYMMETRY Symmetry
SPECIFICATION Spec
INVARIANTS TypeOK PinsFollowLoader
PROPERTY ServedModelSteady
CHECK_DEADLOCK FALSE
