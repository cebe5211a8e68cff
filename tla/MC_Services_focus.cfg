SPECIFICATION SafeSpec
CHECK_DEADLOCK FALSE
CONSTANTS
  Chosen = {"layout"}
  Background = {"interval", "event"}
  Callers = {"now"}
  MaxVersion = 1
  DiskFaults = {"write", "crash"}
  MaxRelease = 2
  Downloads = {d1, d2}
  UpdateCap = 1
  Clis = {"claude", "codex"}
  HookFiles = {"parent"}
  Scanners = {1, 2}
  HookEvents = {"response_ready", "needs_attention"}
  Marks = {"none"}
  MaxSecond = 2
  MaxSignals <- SignalsOfCli
  Tasks = {t1}
  Calls = {c1, c2}
  LoopSessions = {1}
  Configs <- LoopConfigs
  MaxStarts = 2
  Sessions = {1}
  BoardTasks = {"t"}
  Waiters = {w1, w2}
  EventCap = 2
  Ids = {1, 2, 3, 4}
  Grids = {1, 2}
  MaxPanes = 2
INVARIANT
  EverySessionCanBeFocused
