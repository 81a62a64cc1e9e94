SPECIFICATION Spec
CONSTANTS
  Addresses = {h, a}
  Monitored = h
  Ports = {1, 256}
  Doffs = {5, 8}
  Ihls = {5, 6}
  MaxEntries = 2
  MaxFrames = 1
INVARIANT HeaderLength
CHECK_DEADLOCK FALSE
