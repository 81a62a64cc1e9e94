SPECIFICATION Spec
CONSTANTS
  Addresses = {h, a, b}
  Monitored = h
  Ports = {1, 256}
  Doffs = {5}
  Ihls = {5, 6}
  MaxEntries = 2
  MaxFrames = 3
INVARIANTS TypeOK FlowsAreConnections
CHECK_DEADLOCK FALSE
