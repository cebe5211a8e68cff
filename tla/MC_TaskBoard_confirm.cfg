CONSTANTS
  a = a
  b = b
  s1 = s1
  s2 = s2
  Tasks = {a, b}
  Sessions = {s1, s2}
  NoSession = NoSession
  NoTask = NoTask
  MaxRetries = 0
  DepChoices = {{}}
  Compatible <- MCCompatible
  SchedulerMode = "Fifo"
  Modes = {"Off", "Confirm", "Auto"}
  MaxPending = 1
  LoadOrder <- MCLoadOrder
  Faults = {}
  Statuses = {"Idle", "Working", "NeedsAttention"}
SPECIFICATION Spec
INVARIANTS TypeOK CurrentTaskIsActive
