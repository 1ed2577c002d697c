SPECIFICATION NetSpec
CONSTANTS
  Clients21 = {a, b}
  Scripts <- ScriptsV0
  Heartbeat = 1
  Timeout = 3
  Backoff = 4
  MaxBackoff = 8
  Delay = 1
  MaxConns = 6
  MaxFaults = 2
  Sender = s
  Msgs27 = 2
  Receivers = {r}
  Passing = {p}
  Mute = {}
  Fds27 = {4, 5, 6}
  NoFd = NoFd
  Modes27 = {"async", "thread"}
  Peers23 = {"alice", "bob"}
  Rounds = 1
  DialTries = 2
  MaxFaults23 = 1
  Clients40 = {"c", "d"}
  Trips = 2
INVARIANTS ExitsZero
CHECK_DEADLOCK FALSE
