CONSTANTS
  a = a
  b = b
  c = c
  s1 = s1
  Tasks = {a, b, c}
  Sessions = {s1}
  NoSession = NoSession
  MaxRetries = 1
  DepChoices <- MCDeps
SPECIFICATION Spec
INVARIANTS TypeOK OrderIsQueued BlockedIsSound RunnableIsEligible
