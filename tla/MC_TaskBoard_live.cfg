CONSTANTS
  a = a
  b = b
  s1 = s1
  s2 = s2
  Tasks = {a, b}
  Sessions = {s1, s2}
  NoSession = NoSession
  NoTask = NoTask
  MaxRetries = 0
  DepChoices = {{}}
  Compatible <- MCCompatible
  SchedulerMode = "Fifo"
  Modes = {"Auto"}
  MaxPending = 2
  LoadOrder <- MCLoadOrder
  Faults = {}
  Statuses = {"Idle", "Working"}
SPECIFICATION FairSpec
PROPERTY IdleSessionsAreServed
