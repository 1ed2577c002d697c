SPECIFICATION ProcSpec
CONSTANTS
  MaxUnits = 2
  MaxKinUnits = 1
  PipeCap = 1
  BufMax18 = 1
  MaxRestarts18 = 1
  Kinds18 = {"plain", "chatty", "trap", "daemon"}
  LogMax = 3
  FifoCap = 2
  MaxDetach = 1
  Engines13 = {"run", "v1", "sigchld", "pidfd"}
  MaxRestarts13 = 2
  MaxReloads = 2
  Ctls = {c1, c2}
  Commands = {"status", "logfd", "stop", "junk"}
  MaxSpawns = 3
  Jobs34 = {j1, j2, j3}
  Worker34 = w
  MaxEdits = 3
  Files42 = {"good", "broken", "noexit", "evil"}
  Names = {n1, n2}
  MaxChanges = 2
  Debounce = 1
  Deadline09 = 2
  KChunk = 2
  KPairs = 2
  RingSize = 4
  Wrap = 8
  Sizes10 = {0, 2, 7}
  FileCount = 2
INVARIANTS CapturedWhole RelayedInOrder DeathIsPending NoChildSurvives
INVARIANTS NoStaleDecision ReportTracksDir CopyExact BuffersIdle
PROPERTIES ProgramsStop BacklogClears Supervises13 Supervises18
CHECK_DEADLOCK FALSE
