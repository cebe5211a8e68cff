CONSTANTS
  a = a
  b = b
  s1 = s1
  s2 = s2
  Tasks = {a, b}
  Sessions = {s1}
  NoSession = NoSession
  MaxRetries = 1
  DepChoices <- MCDeps
  Compatible <- MCCompatible
  SchedulerMode = "Fifo"
  Modes = {"Auto"}
  MaxPending = 2
  LoadOrder <- MCLoadOrder
  Faults = {"storage", "duplicate", "restart"}
SPECIFICATION Spec
INVARIANTS TypeOK QueuedIsInOrder CopiesAreRetries KnownIsOnDisk
