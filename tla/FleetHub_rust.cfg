SPECIFICATION Spec
CONSTANTS
  Conns = {c1, c2, c3}
  Fds = {4, 5, 6}
  None = None
  Port = "rust"
  Kinds = {"join", "msg", "bad"}
  MaxFrames = 5
  MaxUnread = 1
SYMMETRY Symmetry
INVARIANTS FramesIntact OnlyMembersReceive SenderOrder
CHECK_DEADLOCK FALSE
