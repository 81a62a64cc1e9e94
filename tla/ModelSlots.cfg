CONSTANTS
  Updaters = {u1, u2}
  MaxRuns = 3
SPECIFICATION SlotsSpec
INVARIANTS SlotsTypeOK ActiveWhole
PROPERTY NoRollback SlotsAreARegister
CHECK_DEADLOCK FALSE
