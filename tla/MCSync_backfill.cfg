SPECIFICATION SyncSpec
CONSTANTS
  Cap = 2
  Items = 2
  Producers = {0}
  Consumers = {c1}
  N = 1
  QueueCap = 1
  SlotCount = 2
  Updates = 3
  WatchEvents = 3
  Attempts = 2
  Rounds20 = 3
  Procs16 = {1, 2}
  Keys16 = {"k1", "k2", "k3"}
  Values16 = {"v"}
  SlotCount16 = 2
  MaxCmds = 5
  TakeTurns = TRUE
INVARIANT BackfillsEveryId
CHECK_DEADLOCK FALSE
