CONSTANTS
  Updaters = {u1}
  MaxRuns = 3
  CPUs = {c1}
  Flows = {f1}
  MaxEntries = 1
  MaxPackets = 1
SPECIFICATION DetSpec
INVARIANTS DetTypeOK VerdictExact
PROPERTY DetectionCompletes
CHECK_DEADLOCK FALSE
