CONSTANTS
  Updaters = {}
  MaxRuns = 1
  CPUs = {c1, c2}
  Flows = {f1, f2}
  MaxEntries = 2
  MaxPackets = 3
SYMMETRY CPUSymmetry
SPECIFICATION DetSpec
PROPERTY DetectionIsAtomic
CHECK_DEADLOCK FALSE
