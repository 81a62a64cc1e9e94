CONSTANTS
  CPUs = {c1, c2}
  Flows = {f1}
  TotLens = {40}
  Ihls = {5}
  Doffs = {5}
  Gaps = {0, 1}
  Word = 1024
  MaxEntries = 1
  MaxPackets = 2
SPECIFICATION Spec
CHECK_DEADLOCK FALSE
INVARIANT MaximumTime
