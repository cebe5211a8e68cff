CONSTANTS
  a = a
  b = b
  s1 = s1
  s2 = s2
  Tasks = {a, b}
  Sessions = {s1, s2}
  NoSession = NoSession
  NoTask = NoTask
  MaxRetries = 0
  DepChoices = {{}}
  Compatible <- MCCompatible
  SchedulerMode = "Scored"
  Modes = {"Off", "Auto"}
  MaxPending = 2
  LoadOrder <- MCLoadOrder
  Faults = {"storage"}
  Statuses = {"Idle", "Working"}
SPECIFICATION Spec
INVARIANTS ActiveTaskIsCurrent
