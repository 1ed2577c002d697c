SPECIFICATION Spec
CONSTANTS
  Services = {chatterd, fwatch}
  Pids = {p1, p2}
  NoPid = NoPid
  Port = "go"
  MaxRestarts = 1
  MaxSignals = 1
  MaxForeign = 0
INVARIANT NeverOrphans
CHECK_DEADLOCK FALSE
