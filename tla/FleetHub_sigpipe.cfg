SPECIFICATION Spec
CONSTANTS
  Conns = {c1, c2, c3}
  Fds = {4, 5, 6}
  None = None
  Port = "cpp"
  Kinds = {"join", "msg"}
  MaxFrames = 5
  MaxUnread = 1
SYMMETRY Symmetry
INVARIANT ServerSurvivesClients
CHECK_DEADLOCK FALSE
