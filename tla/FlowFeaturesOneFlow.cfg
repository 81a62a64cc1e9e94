CONSTANTS
  CPUs = {c1, c2}
  Flows = {f1}
  TotLens = {10, 40, 60}
  Ihls = {5}
  Doffs = {5}
  Gaps = {0, 1, 3}
  Word = 256
  MaxEntries = 1
  MaxPackets = 3
SPECIFICATION Spec
CHECK_DEADLOCK FALSE
INVARIANTS FeaturesExact NothingInvented
PROPERTY NoReset
