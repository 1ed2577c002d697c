SPECIFICATION FairScaleSpec
CONSTANTS
  Flooders = {f0, f1}
  FloodFirst = f0
  Senders = {s}
  Listeners = {l}
  Hasty = {h}
  Engines = {"threaded", "epoll"}
  ThreadedCasts = {{f0, s}, {l}}
  EpollCasts = {{f0, s}, {f0, f1}, {l}}
  SockBuf = 3
INVARIANTS StreamsWhole WelcomeMeansMember
PROPERTIES EveryoneServed ServerStops
CHECK_DEADLOCK FALSE
