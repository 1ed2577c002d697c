SPECIFICATION FairSpec
CONSTANTS
  A = A
  B = B
  a1 = a1
  a2 = a2
  b1 = b1
  Nodes = {A, B}
  Clients = {a1, a2, b1}
  Home <- MCHome
  Peer <- MCPeer
  NoPeer = NoPeer
  AtNicks = {b1}
  MaxMsgs <- MCMaxMsgs
  MaxBreaks = 1
  MaxCrashes = 1
INVARIANTS OneHop
PROPERTIES ImplementsRoom BridgeHeals
CHECK_DEADLOCK FALSE
