SPECIFICATION Spec
CONSTANTS
  Services = {chatterd, fwatch}
  Pids = {p1, p2, p3}
  NoPid = NoPid
  Port = "cpp"
  MaxRestarts = 1
  MaxSignals = 1
  MaxForeign = 1
SYMMETRY Symmetry
INVARIANTS OneInstance NeverOrphans SigwaitReturnedBeforeDetach
CHECK_DEADLOCK FALSE
