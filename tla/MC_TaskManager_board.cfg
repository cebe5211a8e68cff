CONSTANTS
  a = a
  b = b
  s1 = s1
  s2 = s2
  Tasks = {a, b}
  Sessions = {s1, s2}
  NoSession = NoSession
  MaxRetries = 1
  DepChoices = {{}}
  Compatible <- MCCompatible
  SchedulerMode = "Scored"
  Modes = {"Confirm", "Auto"}
  MaxPending = 2
  LoadOrder <- MCLoadOrder
  Faults = {"restart"}
SPECIFICATION Spec
INVARIANT OneProposalEach
PROPERTY ImplementsLifecycle
