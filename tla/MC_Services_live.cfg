SPECIFICATION Spec
CHECK_DEADLOCK FALSE
CONSTANTS
  Chosen = {"save", "status", "verify", "loop", "bus", "compaction", "layout"}
  Background = {"interval", "event"}
  Callers = {}
  MaxVersion = 1
  DiskFaults = {"write", "crash"}
  MaxRelease = 1
  Downloads = {d1}
  UpdateCap = 1
  Clis = {"claude"}
  HookFiles = {"parent"}
  Scanners = {1}
  HookEvents = {"needs_attention"}
  Marks = {"none"}
  MaxSecond = 2
  MaxSignals <- OneSignal
  Tasks = {t1}
  Calls = {c1, c2}
  LoopSessions = {1}
  Configs <- LoopConfigs
  MaxStarts = 2
  Sessions = {1}
  BoardTasks = {"t"}
  Waiters = {w1, w2}
  EventCap = 2
  Ids = {1, 2, 3}
  Grids = {1, 2}
  MaxPanes = 2
INVARIANTS
  LayoutKeepsStacks
PROPERTIES
  TabsStayApart
  ManagedStateIsSaved
  StopEndsTheTasks
  StaleAttentionEnds
  VerifyingEnds
  LoopEnds
  CompactionEnds
  ClosedSessionBlocksItsTask
  SavedSessionsCatchUp
