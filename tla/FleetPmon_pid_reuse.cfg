SPECIFICATION Spec
CONSTANTS
  Services = {chatterd}
  Pids = {p1, p2}
  NoPid = NoPid
  Port = "cpp"
  MaxRestarts = 1
  MaxSignals = 1
  MaxForeign = 1
INVARIANT SignalsOnlyServices
CHECK_DEADLOCK FALSE
