SPECIFICATION FairScaleSpec
CONSTANTS
  Flooders = {f0, f1}
  FloodFirst = f0
  Senders = {s}
  Listeners = {l}
  Hasty = {h}
  Engines = {"epoll"}
  ThreadedCasts = {}
  EpollCasts = {{f0, h}}
  SockBuf = 3
INVARIANT EveryMsgBroadcast
CHECK_DEADLOCK FALSE
