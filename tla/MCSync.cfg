SPECIFICATION SyncSpec
CONSTANTS
  Cap = 2
  Items = 5
  Producers = {0, 1}
  Consumers = {c1, c2}
  N = 3
  QueueCap = 1
  SlotCount = 2
  Updates = 3
  WatchEvents = 3
  Attempts = 2
  Rounds20 = 3
  Procs16 = {1, 2}
  Keys16 = {"k1", "k2", "k3"}
  Values16 = {"v"}
  SlotCount16 = 2
  MaxCmds = 5
  TakeTurns = TRUE
INVARIANTS RingExact ReportedLine SnapshotWhole NoLostWake RecentLinesRight GetsWhatWasSet
PROPERTIES WaitersEnd
CHECK_DEADLOCK FALSE
