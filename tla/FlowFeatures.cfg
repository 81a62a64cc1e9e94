CONSTANTS
  CPUs = {c1, c2}
  Flows = {f1, f2}
  TotLens = {10, 40}
  Ihls = {5}
  Doffs = {5}
  Gaps = {1}
  Word = 256
  MaxEntries = 1
  MaxPackets = 2
SPECIFICATION Spec
INVARIANTS TypeOK FeaturesExact
PROPERTY UpdatesAreAtomic
CHECK_DEADLOCK FALSE
