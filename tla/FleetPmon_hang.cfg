SPECIFICATION FairSpec
CONSTANTS
  Services = {chatterd}
  Pids = {p1, p2}
  NoPid = NoPid
  Port = "cpp"
  MaxRestarts = 1
  MaxSignals = 2
  MaxForeign = 0
PROPERTY ShutdownCompletes
CHECK_DEADLOCK FALSE
